------------------------------- MODULE Insert --------------------------------
(***************************************************************************)
(* INSERT from the tree of the statement to the rows of the table:         *)
(* src/src/parser/semantic_insert.c, src/src/engine/optimiser_insert.c     *)
(* (module Folding), src/src/engine/executor_insert.c, in the order in     *)
(* which query_execute calls them.                                         *)
(*                                                                         *)
(* Several sessions, each with one statement, work on one table.  Nothing  *)
(* locks it: table_insert_row, which reads the free offset, fills the slot *)
(* and advances the offset, is therefore two steps.  The slots of all      *)
(* datablocks are numbered through.                                        *)
(***************************************************************************)
EXTENDS Folding, FiniteSets

CONSTANTS
  Sessions,
  Columns,      \* the table: a sequence of [name, type, precision, nullable]
  Statements,   \* [table, cols, rows]: the table's name, the column list (a
                \* sequence of names, <<>> if there is none), rows of Exprs
  TableName,
  MaxSlots      \* bound: slots of the table

ASSUME InsertAssumption ==
  /\ MaxSlots \in Nat
  /\ DOMAIN Columns = 1 .. Len(Columns)
  /\ \A i, j \in DOMAIN Columns : Columns[i].name = Columns[j].name => i = j

\* What the grammar lets through: at least one row, and terms.
ASSUME StatementAssumption ==
  \A stmt \in Statements :
    /\ DOMAIN stmt.cols = 1 .. Len(stmt.cols)
    /\ Len(stmt.rows) \in Nat \ {0} /\ DOMAIN stmt.rows = 1 .. Len(stmt.rows)
    /\ \A r \in DOMAIN stmt.rows : DOMAIN stmt.rows[r] = 1 .. Len(stmt.rows[r])
    /\ \A r \in DOMAIN stmt.rows : \A i \in DOMAIN stmt.rows[r] :
         LET e == stmt.rows[r][i] IN
           e \in Exprs /\ (IsExpr(e) \/ e.op \in {"int", "approx", "bool", "null", "str", "date"})

VARIABLES
  slots,      \* the slots of the table, a row [by, nr, cells] or Empty
  free,       \* free_dtbkl_offset: how many slots are taken
  sess,       \* what each session is doing
  oom,        \* an allocation failed
  overlap,    \* two sessions were in table_insert_row at once
  down        \* the process has ended

vars == <<slots, free, sess, oom, overlap, down>>

\* A slot without a row; the rows of a statement are numbered from one.
Empty == [by |-> {}, nr |-> 0, cells |-> <<>>]

ColumnIds == DOMAIN Columns
Named(name) == {i \in ColumnIds : Columns[i].name = name}

-----------------------------------------------------------------------------
(* semantic_analyse_insert_stmt                                            *)

SameNumberOfTerms(stmt) ==
  \A r \in DOMAIN stmt.rows :
    Len(stmt.rows[r]) = IF stmt.cols = <<>> THEN Len(Columns) ELSE Len(stmt.cols)

ColumnListValid(stmt) ==
  \A i \in DOMAIN stmt.cols :
    /\ Named(stmt.cols[i]) # {}
    /\ \A j \in DOMAIN stmt.cols : stmt.cols[i] = stmt.cols[j] => i = j

\* build_column_order: the column that the i-th term of a row is for.
ColumnOrder(stmt) ==
  IF stmt.cols = <<>> THEN [i \in ColumnIds |-> i]
  ELSE [i \in DOMAIN stmt.cols |-> CHOOSE c \in ColumnIds : c \in Named(stmt.cols[i])]

\* Mutant of NotNullGiven: columns that the list leaves out are forgotten.
NotNullGivenListed(stmt) ==
  \A r \in DOMAIN stmt.rows : \A i \in DOMAIN stmt.rows[r] :
    stmt.rows[r][i].op = "null" => Columns[ColumnOrder(stmt)[i]].nullable

\* check_not_null_columns: the columns left out, and the terms that are NULL.
NotNullGiven(stmt) ==
  LET order == ColumnOrder(stmt) IN
    /\ \A c \in ColumnIds : Columns[c].nullable \/ \E i \in DOMAIN order : order[i] = c
    /\ \A r \in DOMAIN stmt.rows : \A i \in DOMAIN stmt.rows[r] :
         stmt.rows[r][i].op = "null" => Columns[order[i]].nullable

ValuesFit(stmt) ==
  \A r \in DOMAIN stmt.rows : \A i \in DOMAIN stmt.rows[r] :
    ValueFits(Columns[ColumnOrder(stmt)[i]], stmt.rows[r][i])

Accepted(stmt) ==
  /\ stmt.table = TableName
  /\ SameNumberOfTerms(stmt)
  /\ ColumnListValid(stmt)
  /\ NotNullGiven(stmt)
  /\ ValuesFit(stmt)

-----------------------------------------------------------------------------
(* build_row                                                               *)

\* Every column is NULL unless the row has a value for it.
BuiltCells(stmt, row) ==
  LET order == ColumnOrder(stmt) IN
    [c \in ColumnIds |->
       IF \E i \in DOMAIN row : order[i] = c
       THEN row[CHOOSE i \in DOMAIN row : order[i] = c]
       ELSE NullLit]

\* parse_date_type, of the strings meant for a DATE column.
DatesParse(stmt, row) ==
  \A i \in DOMAIN row :
    Columns[ColumnOrder(stmt)[i]].type = "DATE" => row[i].op \in {"date", "null"}

-----------------------------------------------------------------------------

InsertInit ==
  /\ slots = [i \in 1 .. MaxSlots |-> Empty]
  /\ free = 0
  /\ sess \in [Sessions -> {[pc |-> "analyse", stmt |-> stmt, rows |-> stmt.rows, nr |-> 1, slot |-> 0,
                             answer |-> "none", aff |-> 0] : stmt \in Statements}]
  /\ oom = FALSE
  /\ overlap = FALSE
  /\ down = FALSE

At(s, pc) == ~down /\ sess[s].pc = pc

Goto(s, pc) == sess' = [sess EXCEPT ![s].pc = pc]

Answer(s, answer, aff) ==
  sess' = [sess EXCEPT ![s].pc = "answered", ![s].answer = answer, ![s].aff = aff]

Fails == ~oom /\ oom' = TRUE

Accept(s) ==
  /\ At(s, "analyse")
  /\ Accepted(sess[s].stmt)
  /\ Goto(s, "optimise")
  /\ UNCHANGED <<slots, free, oom, overlap, down>>

Refuse(s) ==
  /\ At(s, "analyse")
  /\ ~Accepted(sess[s].stmt)
  /\ Answer(s, "error", 0)
  /\ UNCHANGED <<slots, free, oom, overlap, down>>

\* The set of the names in the column list cannot be allocated.
AnalysisFails(s) ==
  /\ At(s, "analyse")
  /\ sess[s].stmt.cols # <<>>
  /\ Fails
  /\ Answer(s, "error", 0)
  /\ UNCHANGED <<slots, free, overlap, down>>

\* Only expressions are resolved.
Folded(e) == IF IsExpr(e) THEN Resolved[e] ELSE e

FoldedRows(stmt) == [r \in DOMAIN stmt.rows |-> [i \in DOMAIN stmt.rows[r] |-> Folded(stmt.rows[r][i])]]

FoldingAborts(stmt) == \E r \in DOMAIN stmt.rows : \E i \in DOMAIN stmt.rows[r] :
                         Folded(stmt.rows[r][i]) = Aborted

Optimise(s) ==
  /\ At(s, "optimise")
  /\ ~FoldingAborts(sess[s].stmt)
  /\ sess' = [sess EXCEPT ![s].pc = "execute", ![s].rows = FoldedRows(sess[s].stmt)]
  /\ UNCHANGED <<slots, free, oom, overlap, down>>

OptimiseAborts(s) ==
  /\ At(s, "optimise")
  /\ FoldingAborts(sess[s].stmt)
  /\ down' = TRUE
  /\ UNCHANGED <<slots, free, sess, oom, overlap>>

-----------------------------------------------------------------------------
(* executor_run_insertvals_stmt                                            *)

RowsLeft(s) == sess[s].nr \in DOMAIN sess[s].rows
RowNow(s) == sess[s].rows[sess[s].nr]

\* The row is built, and table_insert_row finds the slot for it.
BeginRow(s) ==
  /\ At(s, "execute")
  /\ RowsLeft(s)
  /\ DatesParse(sess[s].stmt, RowNow(s))
  /\ free < MaxSlots
  /\ sess' = [sess EXCEPT ![s].pc = "insert", ![s].slot = free + 1]
  /\ overlap' = (overlap \/ \E t \in Sessions : sess[t].pc = "insert")
  /\ UNCHANGED <<slots, free, oom, down>>

StoreRow(s) ==
  /\ At(s, "insert")
  /\ slots' = [slots EXCEPT ![sess[s].slot] =
                 [by |-> s, nr |-> sess[s].nr, cells |-> BuiltCells(sess[s].stmt, RowNow(s))]]
  /\ free' = free + 1
  /\ sess' = [sess EXCEPT ![s].pc = "execute", ![s].nr = @ + 1]
  /\ UNCHANGED <<oom, overlap, down>>

\* No memory for the row: the loop ends, and what was inserted stays without
\* being counted.
RowAllocFails(s) ==
  /\ At(s, "execute")
  /\ RowsLeft(s)
  /\ Fails
  /\ Answer(s, "executed", 0)
  /\ UNCHANGED <<slots, free, overlap, down>>

\* A date is not one, or table_insert_row cannot allocate a datablock (what a
\* VARCHAR that cannot be allocated does is modelled in Table).
RowFails(s) ==
  /\ At(s, "execute")
  /\ RowsLeft(s)
  /\ IF DatesParse(sess[s].stmt, RowNow(s)) THEN Fails ELSE UNCHANGED oom
  /\ Answer(s, "error", 0)
  /\ UNCHANGED <<slots, free, overlap, down>>

Finish(s) ==
  /\ At(s, "execute")
  /\ ~RowsLeft(s)
  /\ Answer(s, "executed", Len(sess[s].stmt.rows))
  /\ UNCHANGED <<slots, free, oom, overlap, down>>

Ended == down \/ \A s \in Sessions : sess[s].pc = "answered"

AllAnswered == Ended /\ UNCHANGED vars

Next ==
  \/ \E s \in Sessions :
       \/ Accept(s) \/ Refuse(s) \/ AnalysisFails(s)
       \/ Optimise(s) \/ OptimiseAborts(s)
       \/ BeginRow(s) \/ StoreRow(s) \/ RowAllocFails(s) \/ RowFails(s) \/ Finish(s)
  \/ AllAnswered

Spec == InsertInit /\ [][Next]_vars

-----------------------------------------------------------------------------

RowsOf(s) == {i \in DOMAIN slots : slots[i] # Empty /\ slots[i].by = s}

\* The term that statement stmt has for column c in its row nr.
Given(stmt, nr, c) ==
  LET names == IF stmt.cols = <<>> THEN [i \in ColumnIds |-> Columns[i].name] ELSE stmt.cols
  IN  {stmt.rows[nr][i] : i \in {j \in DOMAIN names : names[j] = Columns[c].name}}

\* Every cell in the table is what its statement has for that column: the
\* literal, or what the expression means if it has no overflow on the way;
\* columns that the statement does not name are NULL.  The right operand first,
\* the union of the values and the separate column order of three phases must
\* all agree for that.
RowsAsWritten ==
  \A i \in DOMAIN slots : \A c \in ColumnIds :
    slots[i] # Empty =>
      LET cell == slots[i].cells[c]
          given == Given(sess[slots[i].by].stmt, slots[i].nr, c)
      IN  /\ given = {} => cell = NullLit
          /\ \A e \in given :
               IF IsExpr(e) THEN Fits[e] => Means(cell, e) ELSE cell = e

\* A client that is told of n rows has each of its rows in the table once; one
\* that is told of an error has none, and one told of no rows was not told the
\* truth because memory ran out.  All of it as long as no two sessions meet in
\* table_insert_row.
AllOrNothing ==
  \A s \in Sessions : sess[s].pc = "answered" /\ ~overlap =>
    LET rows == RowsOf(s) IN
      /\ sess[s].aff > 0 =>
           /\ sess[s].aff = Len(sess[s].stmt.rows)
           /\ Cardinality(rows) = sess[s].aff
           /\ {slots[i].nr : i \in rows} = DOMAIN sess[s].stmt.rows
      /\ sess[s].answer = "executed" /\ sess[s].aff = 0 => oom
      /\ sess[s].answer = "error" /\ ~oom => rows = {}

\* A NOT NULL column is NULL only in rows whose expression for it divides by
\* zero, perhaps by an overflow: that becomes NULL after
\* check_not_null_columns has looked.
NotNullKept ==
  \A i \in DOMAIN slots : \A c \in ColumnIds :
    slots[i] # Empty /\ ~Columns[c].nullable /\ slots[i].cells[c] = NullLit =>
      \E e \in Given(sess[slots[i].by].stmt, slots[i].nr, c) :
        IsExpr(e) /\ (Meaning[e] = NoValue \/ ~Fits[e])

\* The semantic phase lets no statement through on which folding or building
\* the rows ends the process, except for remainders that C has no value for (by
\* zero, and of the least int by -1 where they are DOUBLEs), for operands that
\* become NULL on the wrong side, and for an overflow that may lead to either.
DownOnlyOnUndefined ==
  down => \E s \in Sessions : \E r \in DOMAIN sess[s].stmt.rows :
            \E i \in DOMAIN sess[s].stmt.rows[r] : Undefined[sess[s].stmt.rows[r][i]]

=============================================================================
