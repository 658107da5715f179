----------------------------- MODULE SelectNames -----------------------------
(***************************************************************************)
(* The names of a SELECT: which of them the analyser accepts               *)
(* (src/src/parser/semantic_select.c) and what the optimiser makes of them *)
(* and of the FROM clause (src/src/engine/optimiser_select.c).             *)
(*                                                                         *)
(* A name is [tab, col], tab being "" when it is not qualified.  A query   *)
(* is [items, from, where, group]:                                         *)
(*   items  [kind, ref, as]: "field", "count" or "all", "" if no alias     *)
(*   from   entries: [kind |-> "table", table, as] or                      *)
(*          [kind |-> "join", type, left, right, on]; type "inner" or not  *)
(*   where, on   [op, left, right], operands names or [val]; op "true"     *)
(*   group  names                                                          *)
(***************************************************************************)
EXTENDS Integers, SequencesExt

CONSTANT Tables   \* [name -> sequence of [name, type]]

ASSUME TablesAssumption ==
  \A t \in DOMAIN Tables : \A i, j \in DOMAIN Tables[t] : Tables[t][i].name = Tables[t][j].name => i = j

NoRef == [tab |-> "", col |-> ""]
AnyRow == [op |-> "true", left |-> NoRef, right |-> NoRef]

HasColumn(t, col) == \E i \in DOMAIN Tables[t] : Tables[t][i].name = col

RECURSIVE SourcesOf(_)
SourcesOf(e) == IF e.kind = "table" THEN <<e>> ELSE SourcesOf(e.left) \o SourcesOf(e.right)

\* The tables of the FROM clause as they stand there.
Sources(q) == FlattenSeq([i \in DOMAIN q.from |-> SourcesOf(q.from[i])])

IsName(x) == "col" \in DOMAIN x
CondNames(c) == {x \in {c.left, c.right} : IsName(x) /\ x # NoRef}
ItemNames(q) == {q.items[i].ref : i \in DOMAIN q.items} \ {NoRef}

Aliased(q) == {i \in DOMAIN q.items : q.items[i].as # ""}
ColumnAliases(q) == {q.items[i].as : i \in Aliased(q)}
CountAliases(q) == {q.items[i].as : i \in {j \in Aliased(q) : q.items[j].kind = "count"}}

\* The source a qualifier is the alias of: {} or one position.
AliasedSource(q, tab) == {p \in DOMAIN Sources(q) : Sources(q)[p].as = tab /\ tab # ""}

TableOf(q, tab) == Sources(q)[CHOOSE p \in AliasedSource(q, tab) : TRUE].table

-----------------------------------------------------------------------------
(* semantic_analyse_select_stmt                                            *)

CheckTableNames(q) == \A p \in DOMAIN Sources(q) : Sources(q)[p].table \in DOMAIN Tables

CheckTableAlias(q) ==
  \A p, r \in DOMAIN Sources(q) : Sources(q)[p].as = Sources(q)[r].as /\ p # r => Sources(q)[p].as = ""

\* A qualified field under an alias is looked up as an alias of a table only:
\* the table name that is tried next has not been set.
CheckColumnAlias(q) ==
  \A i \in Aliased(q) :
    /\ q.items[i].kind = "field" /\ q.items[i].ref.tab # "" => AliasedSource(q, q.items[i].ref.tab) # {}
    /\ AliasedSource(q, q.items[i].as) = {}
    /\ \A j \in Aliased(q) : q.items[i].as = q.items[j].as => i = j

\* tables_with_column_name
TablesWithColumn(q, col) == {p \in DOMAIN Sources(q) : HasColumn(Sources(q)[p].table, col)}

\* check_fqfield_table: the table's own name counts, also where it has an alias.
FieldOfTable(q, ref) == \E p \in TablesWithColumn(q, ref.col) : Sources(q)[p].table = ref.tab

QualifiedFound(q, ref) ==
  IF AliasedSource(q, ref.tab) # {} THEN HasColumn(TableOf(q, ref.tab), ref.col)
  ELSE FieldOfTable(q, ref)

NameFound(q, ref) ==
  IF ref.tab = "" THEN \E p \in DOMAIN Sources(q) : TablesWithColumn(q, ref.col) = {p}
  ELSE QualifiedFound(q, ref)

NameOrAliasFound(q, ref) == (ref.tab = "" /\ ref.col \in ColumnAliases(q)) \/ NameFound(q, ref)

CheckColumnNames(q) ==
  /\ \A ref \in ItemNames(q) : NameFound(q, ref)
  /\ \A ref \in CondNames(q.where) \cup ToSet(q.group) : NameOrAliasFound(q, ref)

\* check_join_on_fields_exprname, check_join_on_fields_fieldname: a table with an
\* alias is not asked for a name without qualifier.
FoundInJoin(ref, join) ==
  LET with == {p \in DOMAIN SourcesOf(join) : HasColumn(SourcesOf(join)[p].table, ref.col)}
      shown(p) == IF SourcesOf(join)[p].as = "" THEN SourcesOf(join)[p].table ELSE SourcesOf(join)[p].as
  IN  IF ref.tab = "" THEN \E p \in with : {r \in with : SourcesOf(join)[r].as = ""} = {p}
      ELSE \E p \in with : shown(p) = ref.tab

RECURSIVE OnNamesFound(_)
OnNamesFound(e) ==
  e.kind = "join" => /\ \A ref \in CondNames(e.on) : FoundInJoin(ref, e)
                     /\ OnNamesFound(e.left) /\ OnNamesFound(e.right)

\* check_from_clause: given a join, each name of the statement must be a column
\* of the first one, each name of a condition one of its own join.
CheckFromClause(q) ==
  LET joins == {i \in DOMAIN q.from : q.from[i].kind = "join"}
      first == q.from[CHOOSE i \in joins : \A j \in joins : i <= j]
  IN  joins # {} =>
        /\ \A ref \in ItemNames(q) \cup CondNames(q.where) \cup ToSet(q.group) : FoundInJoin(ref, first)
        /\ \A i \in joins : OnNamesFound(q.from[i])

NoCountIn(q, refs) == \A ref \in refs : ref.tab = "" => ref.col \notin CountAliases(q)

\* check_groupby_clause_inselect, check_aggr_inselect_nogroupby; fields are
\* compared as they are written.
InGroup(q, item) ==
  CASE item.kind # "field" -> TRUE
    [] item.kind = "field" /\ item.as = "" -> item.ref \in ToSet(q.group)
    [] item.kind = "field" /\ item.as # "" -> [tab |-> "", col |-> item.as] \in ToSet(q.group)

Kinds(q) == {q.items[i].kind : i \in DOMAIN q.items}

CheckGroupbyClause(q) ==
  IF q.group # <<>> THEN NoCountIn(q, ToSet(q.group)) /\ \A i \in DOMAIN q.items : InGroup(q, q.items[i])
  ELSE ~({"count", "field"} \subseteq Kinds(q))

Accepted(q) ==
  /\ CheckTableNames(q)
  /\ CheckTableAlias(q)
  /\ CheckColumnAlias(q)
  /\ CheckColumnNames(q)
  /\ CheckFromClause(q)
  /\ NoCountIn(q, CondNames(q.where))
  /\ CheckGroupbyClause(q)

-----------------------------------------------------------------------------
(* optimiser_run_select_stmt                                               *)

\* The first table that has the column.
Attached(q, ref) ==
  LET with == TablesWithColumn(q, ref.col)
  IN  [tab |-> Sources(q)[CHOOSE p \in with : \A r \in with : p <= r].table, col |-> ref.col]


\* replace_simple_expr: a column alias stays as it is.
Resolved(q, ref) ==
  CASE ref.tab = "" /\ ref.col \in ColumnAliases(q) -> ref
    [] ref.tab = "" /\ ref.col \notin ColumnAliases(q) -> Attached(q, ref)
    [] ref.tab # "" /\ AliasedSource(q, ref.tab) # {} -> [ref EXCEPT !.tab = TableOf(q, ref.tab)]
    [] OTHER -> ref

ResolvedCond(q, c) ==
  LET side(x) == IF IsName(x) /\ x # NoRef THEN Resolved(q, x) ELSE x
  IN  [c EXCEPT !.left = side(@), !.right = side(@)]

\* replace_selectall, and what else stands in the SELECT list as a column.
ListedColumns(q) ==
  LET alls == {i \in DOMAIN q.items : q.items[i].kind = "all"}
      fields == {i \in DOMAIN q.items : q.items[i].kind = "field" /\ q.items[i].as = ""}
  IN  (IF alls = {} THEN {} ELSE
         UNION {{[tab |-> Sources(q)[p].table, col |-> Tables[Sources(q)[p].table][c].name] :
                   c \in DOMAIN Tables[Sources(q)[p].table]} : p \in DOMAIN Sources(q)})
      \cup {Resolved(q, q.items[i].ref) : i \in fields}

\* replace_entries_from: after A, B, C is wrapped up, B is taken for the left
\* side of what comes next, inside the join it is in already.
RECURSIVE Wrapped(_)
Wrapped(entries) ==
  IF Len(entries) = 1 THEN entries[1]
  ELSE [kind |-> "join", type |-> "inner", left |-> entries[1], right |-> Wrapped(Tail(entries)), on |-> AnyRow]

=============================================================================
