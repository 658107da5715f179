------------------------------- MODULE Select --------------------------------
(***************************************************************************)
(* SELECT from its tree to the table that the client walks:                *)
(* src/src/engine/executor_select.c, after the analyser and the optimiser  *)
(* of module SelectNames.                                                  *)
(*                                                                         *)
(* The rows are materialised in a table of the statement's own: joined,    *)
(* filtered, grouped in place, and cut to the columns asked for.  A step   *)
(* is one row of the outer loop of a phase.  Nothing locks the tables that *)
(* are read, so another session may delete a row of one between two steps. *)
(*                                                                         *)
(* A cell is an integer that stands for its value (a DOUBLE in halves,     *)
(* a VARCHAR by a code, "" being 0); every column takes one unit of a row. *)
(***************************************************************************)
EXTENDS SelectNames, FiniteSets

CONSTANTS
  Queries,
  Contents,     \* what the tables may hold: [table -> sequence of slots]
  Null,         \* a NULL of a stored row
  Gone,         \* a slot whose row was deleted
  PageSize, HdrSize,
  MaxColumns,   \* TABLE_MAX_COLUMNS
  IntValues     \* how many values a C int has

ASSUME SelectAssumption ==
  PageSize \in Nat /\ HdrSize \in Nat \ {0} /\ MaxColumns \in Nat /\ IntValues \in Nat \ {0}

VARIABLES
  query, tables,
  lost,    \* slots [table, slot] whose row another session deleted meanwhile
  phase,   \* "analyse", "optimise", "scaffold", "from", "where", "group",
           \* "select", "countonly", "vacuum", "done", "refused", "failed"
  from,    \* passes over the FROM clause that are left
  group,   \* fields of GROUP BY that are left
  at,      \* the row of the outer loop, counted from 1
  cols,    \* the columns of the materialised table, [tab, col, type]
  blocks,  \* its datablocks: sequences of rows [cells, nulls, deleted]
  oom,     \* an allocation failed
  down     \* the process has ended

vars == <<query, tables, lost, phase, from, group, at, cols, blocks, oom, down>>

-----------------------------------------------------------------------------
(* The materialised table                                                  *)

RowSize(n) == HdrSize + n

\* How many rows table_insert_row puts into a datablock: one at least, more as
\* long as the last one ends before the page does.
Capacity(n) == CHOOSE k \in 1 .. PageSize : (k + 1) * RowSize(n) >= PageSize /\ (k = 1 \/ k * RowSize(n) < PageSize)

Inserted(blks, row) ==
  IF blks = <<>> \/ Len(Last(blks)) >= Capacity(Len(row.cells)) THEN Append(blks, <<row>>)
  ELSE [blks EXCEPT ![Len(blks)] = Append(@, row)]

Positions == FlattenSeq([b \in DOMAIN blocks |-> [i \in DOMAIN blocks[b] |-> <<b, i>>]])

RowAt(p) == blocks[p[1]][p[2]]
Live(row) == ~row.deleted
LiveRows == SelectSeq(FlattenSeq(blocks), Live)

IsCount(c) == c.col = "COUNT(*)"

\* find_column_mattbl: {} or the place of a column.
PlaceOf(ref) == {i \in DOMAIN cols : cols[i].tab = ref.tab /\ cols[i].col = ref.col}

\* build_cols_hashtable: the columns of every table of the FROM clause; COUNT has
\* one only if it has no alias.
ColumnsOf(q) ==
  LET tabs == {Sources(q)[p].table : p \in DOMAIN Sources(q)}
  IN  UNION {{[tab |-> t, col |-> Tables[t][i].name, type |-> Tables[t][i].type] : i \in DOMAIN Tables[t]} : t \in tabs}
      \cup (IF \E i \in DOMAIN q.items : q.items[i].kind = "count" /\ q.items[i].as = ""
            THEN {[tab |-> "", col |-> "COUNT(*)", type |-> "int"]} ELSE {})

\* An aliased item that is still a name trips a BUG_ON.
AliasTrips(q) ==
  \E i \in Aliased(q) : q.items[i].kind = "field" /\ Resolved(q, q.items[i].ref).tab = ""

BlankRow == [cells |-> [i \in DOMAIN cols |-> 0], nulls |-> DOMAIN cols, deleted |-> FALSE]

InitCounts(row) == [row EXCEPT !.cells = [i \in DOMAIN cols |-> IF IsCount(cols[i]) THEN 1 ELSE row.cells[i]]]

ColumnNr(c) == CHOOSE i \in DOMAIN Tables[c.tab] : Tables[c.tab][i].name = c.col

\* cpy_cols from a stored row.  A VARCHAR gets a cell of its own, NULL or not.
Copied(row, t, stored) ==
  LET mine == {i \in DOMAIN cols : cols[i].tab = t}
      full == {i \in mine : stored[ColumnNr(cols[i])] # Null}
      cell(i) == CASE i \in full -> stored[ColumnNr(cols[i])]
                   [] i \in mine \ full /\ cols[i].type = "str" -> 0
                   [] OTHER -> row.cells[i]
  IN  [row EXCEPT !.cells = [i \in DOMAIN cols |-> cell(i)], !.nulls = @ \ full]

\* cpy_cols from a row of the materialised table itself.
CopiedMat(row, mat) ==
  LET cell(i) == CASE i \notin mat.nulls -> mat.cells[i]
                   [] i \in mat.nulls /\ cols[i].type = "str" -> 0
                   [] OTHER -> row.cells[i]
  IN  [row EXCEPT !.cells = [i \in DOMAIN cols |-> cell(i)], !.nulls = @ \cap mat.nulls]

-----------------------------------------------------------------------------
(* Conditions                                                              *)

AsInt(v) == ((v + IntValues \div 2) % IntValues) - IntValues \div 2

Holds(op, v, w) ==
  CASE op = "=" -> v = w
    [] op = "<>" -> v # w
    [] op = "<" -> v < w

\* Mutant of RowHolds: what is NULL compares by what the cell holds.
RowHoldsNull(row, c) ==
  LET place(x) == CHOOSE i \in PlaceOf(x) : TRUE
      value(x) == IF IsName(x) THEN row.cells[place(x)] ELSE x.val
  IN  c.op = "true" \/ Holds(c.op, value(c.left), value(c.right))

\* eval_row_cond on the comparisons of this module; a name comes first.
RowHolds(row, c) ==
  LET place(x) == CHOOSE i \in PlaceOf(x) : TRUE
      null(x) == IsName(x) /\ place(x) \in row.nulls
      value(x) == IF IsName(x) THEN row.cells[place(x)] ELSE x.val
      conv(v) == IF cols[place(c.left)].type = "int" THEN AsInt(v) ELSE v
  IN  c.op = "true" \/ (~null(c.left) /\ ~null(c.right)
                          /\ Holds(c.op, conv(value(c.left)), conv(value(c.right))))

\* A name that is no column of the table is looked for in bit -1.
CondTrips(c) == \E x \in CondNames(c) : PlaceOf(x) = {}

-----------------------------------------------------------------------------
(* proc_from_clause: the passes that make up the FROM clause               *)

Copy(t) == [kind |-> "copy", left |-> t, right |-> t, on |-> AnyRow]
Pair(l, r, on) == [kind |-> "pair", left |-> l, right |-> r, on |-> on]
Extend(t, on) == [kind |-> "extend", left |-> t, right |-> t, on |-> on]
Bug == [kind |-> "bug", left |-> "", right |-> "", on |-> AnyRow]

\* Both nested loops begin with a BUG_ON: only inner joins are implemented.
Inner(j, pass) == IF j.type = "inner" THEN pass ELSE Bug

\* proc_from_clause_join; two joins side by side end in BUG_GENERIC.
RECURSIVE JoinPasses(_)
JoinPasses(j) ==
  CASE j.left.kind = "table" /\ j.right.kind = "table" -> <<Inner(j, Pair(j.left.table, j.right.table, j.on))>>
    [] j.left.kind = "join" /\ j.right.kind = "table" ->
         Append(JoinPasses(j.left), Inner(j, Extend(j.right.table, j.on)))
    [] j.left.kind = "table" /\ j.right.kind = "join" ->
         Append(JoinPasses(j.right), Inner(j, Extend(j.left.table, j.on)))
    [] OTHER -> <<Bug>>

Passes(e) == IF e.kind = "table" THEN <<Copy(e.table)>> ELSE JoinPasses(e)

Stored(t, s) == IF [table |-> t, slot |-> s] \in lost THEN Gone ELSE tables[t][s]

LiveSlots(t) == SelectSeq([s \in DOMAIN tables[t] |-> s], LAMBDA s : Stored(t, s) # Gone)

\* _join_nested_loop_tbl2tbl, one row of the left table.
PairRows(pass, s, blks) ==
  LET joined(r) == InitCounts(Copied(Copied(BlankRow, pass.left, Stored(pass.left, s)), pass.right, Stored(pass.right, r)))
      on == ResolvedCond(query, pass.on)
  IN  FoldLeft(LAMBDA acc, r : IF RowHolds(joined(r), on) THEN Inserted(acc, joined(r)) ELSE acc,
               blks, LiveSlots(pass.right))

\* _join_nested_loop_tbl2mat, one row of the table: each row joined so far is
\* replaced by its join with this one, or deleted.
ExtendRows(pass, s, blks) ==
  LET joined(mat) == InitCounts(CopiedMat(Copied(BlankRow, pass.left, Stored(pass.left, s)), mat))
      on == ResolvedCond(query, pass.on)
      extended(mat) == CASE mat.deleted -> mat
                         [] ~mat.deleted /\ RowHolds(joined(mat), on) -> joined(mat)
                         [] OTHER -> [mat EXCEPT !.deleted = TRUE]
  IN  [b \in DOMAIN blks |-> [i \in DOMAIN blks[b] |-> extended(blks[b][i])]]

\* One row of the table that the pass goes through.
AfterRow(pass, s) ==
  CASE Stored(pass.left, s) = Gone -> blocks
    [] Stored(pass.left, s) # Gone /\ pass.kind = "copy" ->
         Inserted(blocks, InitCounts(Copied(BlankRow, pass.left, Stored(pass.left, s))))
    [] Stored(pass.left, s) # Gone /\ pass.kind = "pair" -> PairRows(pass, s, blocks)
    [] Stored(pass.left, s) # Gone /\ pass.kind = "extend" -> ExtendRows(pass, s, blocks)

-----------------------------------------------------------------------------

SelInit ==
  /\ query \in Queries
  /\ tables \in Contents
  /\ lost = {}
  /\ phase = "analyse"
  /\ from = <<>> /\ group = <<>> /\ at = 1
  /\ cols = <<>> /\ blocks = <<>>
  /\ oom = FALSE /\ down = FALSE

In(p) == ~down /\ phase = p

Analyse ==
  /\ In("analyse")
  /\ phase' = IF Accepted(query) THEN "optimise" ELSE "refused"
  /\ UNCHANGED <<query, tables, lost, from, group, at, cols, blocks, oom, down>>

Optimise ==
  /\ In("optimise")
  /\ phase' = "scaffold"
  /\ from' = Passes(Wrapped(query.from))
  /\ group' = [i \in DOMAIN query.group |-> Resolved(query, query.group[i])]
  /\ UNCHANGED <<query, tables, lost, at, cols, blocks, oom, down>>

\* wrap_on_join_node releases a node that it has not got (ast_free of NULL).
WrapFreesNull == phase = "optimise" /\ Len(query.from) > 1

\* table_insert_row undoes a VARCHAR that it has no cell for by releasing what
\* the columns before it hold (row.c), numbers too.
UndoFreesNumbers ==
  /\ phase = "from" /\ from # <<>>
  /\ LET pass == Head(from)
     IN  pass.kind \in {"copy", "pair"} /\ at <= Len(tables[pass.left]) /\ Stored(pass.left, at) # Gone
  /\ \E i, j \in DOMAIN cols : i < j /\ cols[i].type # "str" /\ cols[j].type = "str"

\* An allocation of the analyser, the optimiser or the executor fails: the
\* materialised table is destroyed and the client is told, but for two places
\* that may end the process.
Fails ==
  /\ ~down /\ phase \in {"analyse", "optimise", "scaffold", "from"}
  /\ oom' = TRUE
  /\ \/ phase' = "failed" /\ cols' = <<>> /\ blocks' = <<>> /\ UNCHANGED down
     \/ (WrapFreesNull \/ UndoFreesNumbers) /\ down' = TRUE /\ UNCHANGED <<phase, cols, blocks>>
  /\ UNCHANGED <<query, tables, lost, from, group, at>>

\* build_cols_hashtable and build_table_scafold.  hashtable_foreach settles the
\* order of the columns; bound: one order and its reverse stand for all.
Scaffold ==
  LET all == SetToSeq(ColumnsOf(query))
      trips == AliasTrips(query) \/ Len(all) > MaxColumns
  IN  /\ In("scaffold")
      /\ cols' \in {all, Reverse(all)}
      /\ phase' = "from"
      /\ down' = trips
      /\ UNCHANGED <<query, tables, lost, from, group, at, blocks, oom>>

\* There is a row that this one is joined with.
Meets(pass, s) ==
  /\ Stored(pass.left, s) # Gone
  /\ \/ pass.kind = "pair" /\ LiveSlots(pass.right) # <<>>
     \/ pass.kind = "extend" /\ LiveRows # <<>>

\* One row of the outer table of the first pass.
FromRow ==
  LET pass == Head(from)
      more == pass.kind # "bug" /\ at <= Len(tables[pass.left])
      trips == more /\ Meets(pass, at) /\ CondTrips(ResolvedCond(query, pass.on))
  IN  /\ In("from") /\ from # <<>>
      /\ IF pass.kind = "bug" \/ trips
         THEN down' = TRUE /\ UNCHANGED <<from, at, blocks>>
         ELSE /\ IF more
                 THEN at' = at + 1 /\ blocks' = AfterRow(pass, at) /\ UNCHANGED from
                 ELSE at' = 1 /\ from' = Tail(from) /\ UNCHANGED blocks
              /\ UNCHANGED down
      /\ UNCHANGED <<query, tables, lost, phase, group, cols, oom>>

FromEnds ==
  /\ In("from") /\ from = <<>>
  /\ phase' = IF query.where.op # "true" THEN "where" ELSE "group"
  /\ UNCHANGED <<query, tables, lost, from, group, at, cols, blocks, oom, down>>

\* Another session's DELETE reaches a row of a table that is being read; bound:
\* one such row.
ForeignDelete(t, s) ==
  /\ In("from") /\ lost = {}
  /\ tables[t][s] # Gone /\ \E p \in DOMAIN Sources(query) : Sources(query)[p].table = t
  /\ lost' = {[table |-> t, slot |-> s]}
  /\ UNCHANGED <<query, tables, phase, from, group, at, cols, blocks, oom, down>>

Deleted(blks, p) == [blks EXCEPT ![p[1]][p[2]].deleted = TRUE]

\* proc_where_clause, one row.
WhereRow ==
  LET on == ResolvedCond(query, query.where)
      p == Positions[at]
  IN  /\ In("where") /\ at <= Len(Positions)
      /\ IF Live(RowAt(p)) /\ CondTrips(on)
         THEN down' = TRUE /\ UNCHANGED <<at, blocks>>
         ELSE /\ at' = at + 1
              /\ blocks' = IF Live(RowAt(p)) /\ ~RowHolds(RowAt(p), on) THEN Deleted(blocks, p) ELSE blocks
              /\ UNCHANGED down
      /\ UNCHANGED <<query, tables, lost, phase, from, group, cols, oom>>

WhereEnds ==
  /\ In("where") /\ at > Len(Positions)
  /\ phase' = "group" /\ at' = 1
  /\ UNCHANGED <<query, tables, lost, from, group, cols, blocks, oom, down>>

\* cmp_rows_col_mattbl = 0: NULLs are alike; the difference of two numbers is
\* cut to a C int.
SameValue(i, row1, row2) ==
  LET diff == row1.cells[i] - row2.cells[i]
  IN  CASE i \in row1.nulls \/ i \in row2.nulls -> i \in row1.nulls /\ i \in row2.nulls
        [] i \notin row1.nulls \cup row2.nulls /\ cols[i].type = "double" -> diff \in -1 .. 1
        [] i \notin row1.nulls \cup row2.nulls /\ cols[i].type = "int" -> diff % IntValues = 0
        [] OTHER -> diff = 0


\* The rows that the inner loops of grouping meet: in every datablock those
\* behind the slot of the outer row.
After(p) == {r \in ToSet(Positions) : r[2] > p[2] /\ Live(RowAt(r))}

\* The rows at doomed are deleted, and counted at p (inc_count_cols).
Merged(p, doomed) ==
  LET row == RowAt(p)
      cells == [i \in DOMAIN cols |-> IF IsCount(cols[i]) THEN row.cells[i] + Cardinality(doomed) ELSE row.cells[i]]
  IN  [b \in DOMAIN blocks |-> [i \in DOMAIN blocks[b] |->
         CASE <<b, i>> = p -> [row EXCEPT !.cells = cells]
           [] <<b, i>> \in doomed -> [blocks[b][i] EXCEPT !.deleted = TRUE]
           [] OTHER -> blocks[b][i]]]

\* proc_groupby_clause, one row under one field.
GroupRow ==
  LET p == Positions[at]
      field == PlaceOf(Head(group))
      same == {r \in After(p) : \E i \in field : SameValue(i, RowAt(p), RowAt(r))}
  IN  /\ In("group") /\ group # <<>> /\ at <= Len(Positions)
      /\ at' = at + 1
      /\ blocks' = IF Live(RowAt(p)) THEN Merged(p, same) ELSE blocks
      /\ down' = (Live(RowAt(p)) /\ field = {} /\ After(p) # {})
      /\ UNCHANGED <<query, tables, lost, phase, from, group, cols, oom>>

GroupEnds ==
  /\ In("group") /\ (group = <<>> \/ at > Len(Positions))
  /\ group' = IF group = <<>> THEN <<>> ELSE Tail(group)
  /\ phase' = IF group' = <<>> THEN "select" ELSE "group"
  /\ at' = 1
  /\ UNCHANGED <<query, tables, lost, from, cols, blocks, oom, down>>

\* The columns that proc_select_clause leaves in the table.
Kept == {i \in DOMAIN cols : [tab |-> cols[i].tab, col |-> cols[i].col] \in ListedColumns(query) \/ IsCount(cols[i])}

\* table_rem_column, last column first: rows stay in their datablock, and the
\* NULL bits stay where they are.
SelectClause ==
  LET keep(s) == LET order == SetToSortSeq(Kept, <) IN [k \in DOMAIN order |-> s[order[k]]]
  IN  /\ In("select")
      /\ phase' = "countonly"
      /\ cols' = keep(cols)
      /\ blocks' = [b \in DOMAIN blocks |-> [i \in DOMAIN blocks[b] |->
                      [blocks[b][i] EXCEPT !.cells = keep(@)]]]
      /\ UNCHANGED <<query, tables, lost, from, group, at, oom, down>>

CountsOnly == \A i \in DOMAIN cols : IsCount(cols[i])

\* handle_countonly_case, one row.
CountOnlyRow ==
  /\ In("countonly") /\ CountsOnly /\ at <= Len(Positions)
  /\ at' = at + 1
  /\ blocks' = IF Live(RowAt(Positions[at])) THEN Merged(Positions[at], After(Positions[at])) ELSE blocks
  /\ UNCHANGED <<query, tables, lost, phase, from, group, cols, oom, down>>

CountOnlyEnds ==
  /\ In("countonly") /\ (~CountsOnly \/ at > Len(Positions))
  /\ phase' = "vacuum" /\ at' = 1
  /\ UNCHANGED <<query, tables, lost, from, group, cols, blocks, oom, down>>

\* table_vacuum (module Table): the live rows in their order, packed.
Vacuum ==
  /\ In("vacuum") /\ blocks # <<>>
  /\ phase' = "done"
  /\ blocks' = FoldLeft(Inserted, <<>>, LiveRows)
  /\ UNCHANGED <<query, tables, lost, from, group, at, cols, oom, down>>

\* No row was inserted, so there is no datablock: table_vacuum follows NULL.
VacuumCrashes ==
  /\ In("vacuum") /\ blocks = <<>>
  /\ down' = TRUE
  /\ UNCHANGED <<query, tables, lost, phase, from, group, at, cols, blocks, oom>>

SelNext ==
  \/ Analyse \/ Optimise \/ Fails \/ Scaffold
  \/ FromRow \/ FromEnds
  \/ \E t \in DOMAIN tables : \E s \in DOMAIN tables[t] : ForeignDelete(t, s)
  \/ WhereRow \/ WhereEnds
  \/ GroupRow \/ GroupEnds
  \/ SelectClause
  \/ CountOnlyRow \/ CountOnlyEnds
  \/ Vacuum \/ VacuumCrashes

SelSpec == SelInit /\ [][SelNext]_vars
=============================================================================
