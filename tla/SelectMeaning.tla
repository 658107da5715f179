---------------------------- MODULE SelectMeaning -----------------------------
(***************************************************************************)
(* What a SELECT asks for, by the rules of SQL and not by the way the      *)
(* executor goes about it, and the properties that compare the two.        *)
(*                                                                         *)
(* A combination picks a row from each table of the FROM clause; the       *)
(* result is those combinations for which the conditions are true, grouped *)
(* and counted.                                                            *)
(***************************************************************************)
EXTENDS Select

SourceTables(q) == {Sources(q)[p].table : p \in DOMAIN Sources(q)}

\* The sources that a name may mean.
Meanings(q, ref) ==
  CASE ref.tab = "" -> {p \in DOMAIN Sources(q) : HasColumn(Sources(q)[p].table, ref.col)}
    [] ref.tab # "" /\ (\E p \in DOMAIN Sources(q) : Sources(q)[p].as = ref.tab) ->
         {p \in DOMAIN Sources(q) : Sources(q)[p].as = ref.tab /\ HasColumn(Sources(q)[p].table, ref.col)}
    [] OTHER -> {p \in DOMAIN Sources(q) : Sources(q)[p].table = ref.tab /\ HasColumn(Sources(q)[p].table, ref.col)}

RECURSIVE OnsOf(_)
OnsOf(e) == IF e.kind = "table" THEN {} ELSE {e.on} \cup OnsOf(e.left) \cup OnsOf(e.right)

Conditions(q) == {q.where} \cup UNION {OnsOf(q.from[i]) : i \in DOMAIN q.from}

AllNames(q) == ItemNames(q) \cup ToSet(q.group) \cup UNION {CondNames(c) : c \in Conditions(q)}

NamesClear(q) == \A ref \in AllNames(q) : \E p \in DOMAIN Sources(q) : Meanings(q, ref) = {p}

LiveOf(t) == {s \in DOMAIN tables[t] : tables[t][s] # Gone}

Combinations ==
  LET tabs == [p \in DOMAIN Sources(query) |-> Sources(query)[p].table]
  IN  {combo \in [DOMAIN tabs -> UNION {LiveOf(tabs[p]) : p \in DOMAIN tabs}] :
         \A p \in DOMAIN tabs : combo[p] \in LiveOf(tabs[p])}

CellOf(combo, p, col) ==
  LET t == Sources(query)[p].table
  IN  tables[t][combo[p]][CHOOSE i \in DOMAIN Tables[t] : Tables[t][i].name = col]

ValueOf(combo, x) ==
  IF IsName(x) THEN CellOf(combo, CHOOSE p \in Meanings(query, x) : TRUE, x.col) ELSE x.val

IsTrue(combo, c) ==
  \/ c.op = "true"
  \/ /\ ValueOf(combo, c.left) # Null /\ ValueOf(combo, c.right) # Null
     /\ Holds(c.op, ValueOf(combo, c.left), ValueOf(combo, c.right))

Joined == {combo \in Combinations : \A c \in Conditions(query) \ {query.where} : IsTrue(combo, c)}
Matching == {combo \in Joined : IsTrue(combo, query.where)}

\* The columns asked for, [tab, col].
Asked ==
  LET items == query.items
      one(ref) == [tab |-> Sources(query)[CHOOSE p \in Meanings(query, ref) : TRUE].table, col |-> ref.col]
  IN  UNION {CASE items[i].kind = "field" -> {one(items[i].ref)}
               [] items[i].kind = "count" -> {}
               [] items[i].kind = "all" ->
                    UNION {{[tab |-> t, col |-> Tables[t][j].name] : j \in DOMAIN Tables[t]} : t \in SourceTables(query)} :
             i \in DOMAIN items}

\* A NULL reads as zero: the client has no way to ask for it.
Shown(v) == IF v = Null THEN 0 ELSE v

\* What a combination shows in a column [tab, col], each table standing there once.
ShownIn(combo, c) ==
  Shown(CellOf(combo, CHOOSE p \in DOMAIN Sources(query) : Sources(query)[p].table = c.tab, c.col))

Row(combo, count) == [cells |-> [c \in Asked |-> ShownIn(combo, c)], count |-> count]

Counted == "count" \in Kinds(query)

Alike(combo, other) ==
  \A i \in DOMAIN query.group : ValueOf(combo, query.group[i]) = ValueOf(other, query.group[i])

\* How often each row is to appear.
Expected ==
  LET size(combo) == IF Counted THEN Cardinality({o \in Matching : Alike(combo, o)}) ELSE 0
      rows == {Row(combo, size(combo)) : combo \in Matching}
  IN  IF query.group = <<>> /\ ~Counted
      THEN [r \in rows |-> Cardinality({combo \in Matching : Row(combo, 0) = r})]
      ELSE [r \in rows |-> 1]

\* What the client finds.
Result ==
  LET at_(c) == CHOOSE i \in DOMAIN cols : cols[i].tab = c.tab /\ cols[i].col = c.col
      counts == {i \in DOMAIN cols : IsCount(cols[i])}
      shown(row) == [cells |-> [c \in Asked |-> row.cells[at_(c)]],
                     count |-> IF counts = {} THEN 0 ELSE row.cells[CHOOSE i \in counts : TRUE]]
  IN  [r \in {shown(LiveRows[k]) : k \in DOMAIN LiveRows} |->
         Cardinality({k \in DOMAIN LiveRows : shown(LiveRows[k]) = r})]

-----------------------------------------------------------------------------
(* The statements for which SELECT does what it is asked                   *)

Distinct(q) == Cardinality(SourceTables(q)) = Len(Sources(q))

\* The int columns hold values of a C int, the double columns whole numbers.
Narrow ==
  \A t \in DOMAIN tables : \A s \in DOMAIN tables[t] : \A i \in DOMAIN Tables[t] :
    tables[t][s] # Gone /\ tables[t][s][i] # Null =>
      /\ Tables[t][i].type = "int" => 2 * tables[t][s][i] < IntValues
      /\ Tables[t][i].type = "double" => tables[t][s][i] % 2 = 0

\* Grouping: by one field, which is shown; within one datablock.
GroupsPlain ==
  /\ Len(query.group) <= 1
  /\ query.group # <<>> => "all" \notin Kinds(query) /\ "field" \in Kinds(query)
  /\ query.group # <<>> \/ Counted => Cardinality(Joined) <= Capacity(Cardinality(ColumnsOf(query)))
  /\ Counted /\ query.group = <<>> => Matching # {}

Ordinary ==
  /\ Aliased(query) = {} /\ Distinct(query) /\ Len(Sources(query)) <= 2
  /\ Narrow
  /\ GroupsPlain

-----------------------------------------------------------------------------
(* Properties                                                              *)


\* Any number of tables without GROUP BY and COUNT gives what SQL says
\* (tests/engine/executor_select.c:131-137 expects all rows of a join of three).
JoinedAsAsked ==
  phase = "done" /\ Aliased(query) = {} /\ Distinct(query) /\ Narrow /\ query.group = <<>> /\ ~Counted
    /\ lost = {} => Result = Expected

\* Three tables are joined by overwriting rows in place; it takes values everywhere
\* and a row in each table for the rows to be of one piece.
OfOnePiece ==
  \/ Len(Sources(query)) <= 2
  \/ /\ lost = {}
     /\ \A t \in SourceTables(query) : \E s \in DOMAIN tables[t] : tables[t][s] # Gone
     /\ \A t \in SourceTables(query) : \A s \in DOMAIN tables[t] :
          tables[t][s] # Gone => \A i \in DOMAIN Tables[t] : tables[t][s][i] # Null /\ Tables[t][i].type # "str"

\* A materialised row is made of one row of each table for which every ON is
\* true, and after the filter WHERE too: never of parts of two rows, also while
\* another session deletes rows that are being joined (_merge_rows, cpy_cols).
RowsAreReal ==
  ~down /\ phase \in {"where", "group", "select", "countonly", "vacuum", "done"}
    /\ Distinct(query) /\ Aliased(query) = {} /\ Narrow /\ OfOnePiece =>
    LET due == IF phase = "where" THEN Joined ELSE Matching
        real == {[i \in DOMAIN cols |-> IF IsCount(cols[i]) THEN 0 ELSE ShownIn(combo, cols[i])] : combo \in due}
        shown(row) == [i \in DOMAIN cols |-> IF IsCount(cols[i]) THEN 0 ELSE row.cells[i]]
        rows == LiveRows
    IN  \A k \in DOMAIN rows : shown(rows[k]) \in real

JoinsOf(q) == {i \in DOMAIN q.from : q.from[i].kind = "join"}

RECURSIVE AllInner(_)
AllInner(e) == e.kind = "join" => e.type = "inner" /\ AllInner(e.left) /\ AllInner(e.right)

\* Some rows are joined, none of which another session has deleted.
YieldsRow ==
  /\ Distinct(query) /\ Narrow
  /\ \E combo \in Joined : \A p \in DOMAIN combo : [table |-> Sources(query)[p].table, slot |-> combo[p]] \notin lost

=============================================================================
