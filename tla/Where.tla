------------------------------- MODULE Where -------------------------------
(***************************************************************************)
(* DELETE, UPDATE and single-table SELECT of MidoriDB, from the analyser    *)
(* (src/src/parser/semantic_*.c) to the last row of the scan                *)
(* (src/src/engine/executor_*.c): what a WHERE clause does.                 *)
(*                                                                         *)
(* Each session runs one statement against one table; a step of a scan is  *)
(* one row, since nothing locks the table between rows (query.c).  A value  *)
(* is its type and a number that stands for it; an operand of a condition  *)
(* is a value or the name of a column.  DOUBLE, DATE and DATETIME take the  *)
(* branches that INTEGER takes here, without its conversion to int.         *)
(***************************************************************************)
EXTENDS Integers, SequencesExt

CONSTANTS
  Columns,     \* names of the columns
  TypeOf,      \* [Columns -> {"int", "bool", "str"}]
  Rows,        \* what the slots of the table hold at first
  Sessions,
  Conditions,  \* the conditions of statements, and what AND, OR and XOR join in them
  Depth,       \* [Conditions -> Nat]: larger than those of what is joined
  Statements,  \* what a session may run, as the parser can build it
  IntHalf,     \* half the number of values of a C int; int64_t has more
  Gone         \* a deleted row

Types == {"int", "bool", "str"}

Cells == [type : Types \cup {"null", "bytes"}, val : Int]

IsName(x) == "name" \in DOMAIN x

\* Operands: a name, or a literal with its type.
IsOperand(x) == IsName(x) \/ x \in [type : Types \cup {"null"}, val : Int]

IsCondition(c) ==
  \/ c.node = "none"
  \/ c.node = "val" /\ IsOperand(c.arg)
  \/ c.node = "isnull" /\ IsOperand(c.arg) /\ c.neg \in BOOLEAN
  \/ c.node = "cmp" /\ IsOperand(c.left) /\ IsOperand(c.right)
  \/ /\ c.node = "isin" /\ c.neg \in BOOLEAN
     /\ Len(c.args) \in Nat \ {0, 1} /\ DOMAIN c.args = 1 .. Len(c.args)
     /\ \A p \in DOMAIN c.args : IsOperand(c.args[p])
  \/ /\ c.node = "logop" /\ c.gate \in {"and", "or", "xor"}
     /\ \A d \in {c.left, c.right} : d \in Conditions /\ d.node # "none" /\ Depth[d] < Depth[c]

ASSUME TableAssumption ==
  /\ TypeOf \in [Columns -> Types] /\ IntHalf \in Nat \ {0}
  /\ Rows \in Seq([Columns -> Cells] \cup {Gone}) /\ Gone \notin [Columns -> Cells]
  /\ \A p \in DOMAIN Rows : Rows[p] # Gone => \A c \in Columns : Rows[p][c].type \in {"null", TypeOf[c]}

ASSUME ConditionsAssumption ==
  Depth \in [Conditions -> Nat] /\ \A c \in Conditions : IsCondition(c)

ASSUME StatementsAssumption ==
  \A stmt \in Statements :
    /\ stmt.verb \in {"delete", "update", "select"} /\ stmt.where \in Conditions
    /\ stmt.verb = "update" =>
         /\ Len(stmt.set) \in Nat /\ DOMAIN stmt.set = 1 .. Len(stmt.set)
         /\ \A p \in DOMAIN stmt.set : IsOperand(stmt.set[p].value)

VARIABLES
  slots,  \* the table: rows and deleted rows
  sess,   \* [Sessions -> where the session is in its statement]
  down    \* the process was ended by a BUG_ON or a bad pointer

vars == <<slots, sess, down>>

Null == [type |-> "null", val |-> 0]

Equality == {"=", "<>"}

\* The conditions below AND, OR and XOR.
Leaves[c \in Conditions] ==
  CASE c.node = "logop" -> Leaves[c.left] \cup Leaves[c.right]
    [] c.node = "none" -> {}
    [] OTHER -> {c}

Operands(c) ==
  CASE c.node = "cmp" -> {c.left, c.right}
    [] c.node = "isin" -> {c.args[p] : p \in DOMAIN c.args}
    [] OTHER -> {c.arg}

Names(c) == {x \in Operands(c) : IsName(x)}

\* Where names stand in the list of an IN, its field among them.
InFields(c) == {p \in DOMAIN c.args : IsName(c.args[p])}

----------------------------------------------------------------------------
(* The analysers.  A verdict is "accept", "refuse" or "crash". *)

\* Mutant of ColumnsExist: the names of conditions are not looked up.
ColumnsUnchecked(c) == TRUE

\* __check_column_exists; an assignment's value is not looked at.
ColumnsExist(c) == \A l \in Leaves[c] : \A x \in Names(l) : x.name \in Columns

\* check_isxin_entries: at most one of field and list is a name.
InEntriesRaw(c) ==
  \A l \in Leaves[c] : l.node = "isin" => \A p, q \in InFields(l) : p = q

\* check_isxnull_entries
NullEntriesFields(c) == \A l \in Leaves[c] : l.node = "isnull" => IsName(l.arg)

FieldToFieldFits(op, x, y) ==
  /\ TypeOf[x.name] = TypeOf[y.name]
  /\ TypeOf[x.name] = "str" => op \in Equality

\* Mutant of FieldToValueFits: a boolean is let through for any column.
FieldToValueFitsBool(op, x, v) ==
  CASE v.type = "null" -> op \in Equality
    [] v.type = "str" -> TypeOf[x.name] = "str" /\ op \in Equality
    [] OTHER -> TypeOf[x.name] = v.type \/ v.type = "bool"

\* check_values_field_to_value
FieldToValueFits(op, x, v) ==
  CASE v.type = "null" -> op \in Equality
    [] v.type = "str" -> TypeOf[x.name] = "str" /\ op \in Equality
    [] OTHER -> TypeOf[x.name] = v.type

\* check_values_value_to_value
ValueToValueFits(op, v, w) ==
  v.type = w.type /\ (v.type \in {"str", "null"} => op \in Equality)

CmpFits(c) ==
  CASE IsName(c.left) /\ IsName(c.right) -> FieldToFieldFits(c.op, c.left, c.right)
    [] IsName(c.left) /\ ~IsName(c.right) -> FieldToValueFits(c.op, c.left, c.right)
    [] ~IsName(c.left) /\ IsName(c.right) -> FieldToValueFits(c.op, c.right, c.left)
    [] OTHER -> ValueToValueFits(c.op, c.left, c.right)

InOp(c) == IF c.neg THEN "<>" ELSE "="

\* The field of IN is the first name, wherever it stands.
InField(c) == CHOOSE p \in InFields(c) : \A q \in InFields(c) : p <= q

InValues(c) == {x \in Operands(c) : ~IsName(x)}

InFits(c) == \A v \in InValues(c) : FieldToValueFits(InOp(c), c.args[InField(c)], v)

UnknownName(c) == \E x \in Names(c) : x.name \notin Columns

\* __check_value_types: an IN without a field follows a NULL pointer.
LeafVerdict(c) ==
  CASE UnknownName(c) \/ (c.node = "isin" /\ InFields(c) = {}) -> "crash"
    [] c.node = "cmp" /\ ~UnknownName(c) -> IF CmpFits(c) THEN "accept" ELSE "refuse"
    [] c.node = "isin" /\ InFields(c) # {} /\ ~UnknownName(c) -> IF InFits(c) THEN "accept" ELSE "refuse"
    [] OTHER -> "accept"

\* The traversal, from left to right, stops at the first leaf that is not accepted.
ValueTypes[c \in Conditions] ==
  CASE c.node = "logop" -> IF ValueTypes[c.left] = "accept" THEN ValueTypes[c.right] ELSE ValueTypes[c.left]
    [] c.node = "none" -> "accept"
    [] OTHER -> LeafVerdict(c)

\* semantic_analyse_delete_stmt
AnalyseDelete(stmt) ==
  IF ColumnsExist(stmt.where) /\ InEntriesRaw(stmt.where) /\ NullEntriesFields(stmt.where)
  THEN ValueTypes[stmt.where]
  ELSE "refuse"

\* Mutant of AssignFits: assigned values are not checked.
AssignUnchecked(x, v) == TRUE

\* check_values_for_assign: nothing is asked of a name.
AssignFits(x, v) == IsName(v) \/ FieldToValueFits("<>", [name |-> x], v)

\* semantic_analyse_update_stmt; the assignments come before the condition.
AnalyseUpdate(stmt) ==
  IF /\ \A p \in DOMAIN stmt.set : stmt.set[p].field \in Columns
     /\ ColumnsExist(stmt.where) /\ InEntriesRaw(stmt.where) /\ NullEntriesFields(stmt.where)
     /\ \A p \in DOMAIN stmt.set : AssignFits(stmt.set[p].field, stmt.set[p].value)
  THEN ValueTypes[stmt.where]
  ELSE "refuse"

\* What struct sem_check_val_types says of a subtree; type 0 is VARCHAR.
Summary(none, invalid, null, type) ==
  [none |-> none, invalid |-> invalid, null |-> null, type |-> type]

OperandSummary(x) ==
  CASE IsName(x) -> Summary(FALSE, FALSE, FALSE, TypeOf[x.name])
    [] ~IsName(x) /\ x.type = "null" -> Summary(FALSE, FALSE, TRUE, "str")
    [] OTHER -> Summary(FALSE, FALSE, FALSE, x.type)

\* check_value_types_cmp
CmpSummary(c) ==
  LET l == OperandSummary(c.left)
      r == OperandSummary(c.right)
      strict == l.type = "str" \/ r.type = "str"
  IN  CASE l.null \/ r.null -> Summary(FALSE, c.op \notin Equality, FALSE, IF c.op \in Equality THEN "bool" ELSE "str")
        [] ~(l.null \/ r.null) /\ l # r -> Summary(FALSE, TRUE, FALSE, "str")
        [] OTHER -> Summary(FALSE, strict /\ c.op \notin Equality, FALSE, "bool")

\* check_value_types_isxin: the first child is taken for the field.
InSummary(c) ==
  IF \A p \in 2 .. Len(c.args) : c.args[p].type = TypeOf[c.args[1].name]
  THEN Summary(FALSE, FALSE, FALSE, "bool")
  ELSE Summary(FALSE, TRUE, FALSE, "str")

\* __check_value_types and check_value_types_logop: two subtrees that are wrong
\* in the same way compare equal and make a right one.
SummaryOf[c \in Conditions] ==
  CASE c.node = "logop" ->
         IF SummaryOf[c.left] = SummaryOf[c.right]
         THEN Summary(FALSE, FALSE, FALSE, "bool") ELSE Summary(FALSE, TRUE, FALSE, "str")
    [] c.node = "cmp" -> CmpSummary(c)
    [] c.node = "isin" -> InSummary(c)
    [] c.node = "isnull" -> Summary(TRUE, FALSE, FALSE, TypeOf[c.arg.name])
    [] OTHER -> Summary(TRUE, FALSE, FALSE, "str")

\* BUG_ONs of check_value_types_isxin: no field first; a NULL before any value
\* of another type.
InTrips(c) ==
  \/ ~IsName(c.args[1])
  \/ \E p \in 2 .. Len(c.args) :
       /\ c.args[p].type = "null"
       /\ \A q \in 2 .. p - 1 : c.args[q].type = TypeOf[c.args[1].name]

\* semantic_analyse_select_stmt, as far as the WHERE clause goes.
AnalyseSelect(stmt) ==
  LET c == stmt.where
  IN  CASE ~ColumnsExist(c) \/ ~InEntriesRaw(c) \/ ~NullEntriesFields(c)
             \/ (\E l \in Leaves[c] : l.node = "val") -> "refuse"
        [] OTHER -> IF \E l \in Leaves[c] : UnknownName(l) \/ (l.node = "isin" /\ InTrips(l)) THEN "crash"
                    ELSE IF SummaryOf[c].invalid THEN "refuse" ELSE "accept"

Analyse(stmt) ==
  CASE stmt.verb = "delete" -> AnalyseDelete(stmt)
    [] stmt.verb = "update" -> AnalyseUpdate(stmt)
    [] stmt.verb = "select" -> AnalyseSelect(stmt)

----------------------------------------------------------------------------
(* Evaluation of a condition on a row *)

Holds(op, v, w) ==
  CASE op = "=" -> v = w
    [] op = "<>" -> v # w
    [] op = "<" -> v < w
    [] op = "<=" -> v <= w
    [] op = ">" -> v > w
    [] op = ">=" -> v >= w

\* The int64_t of a row or a literal as the int of cmp_int_value_to_value.
AsInt(v) == ((v + IntHalf) % (2 * IntHalf)) - IntHalf

\* The cmp_*_value_to_value functions; booleans and strings have no order.
CompareAs(type, op, v, w) ==
  IF type = "int" THEN Holds(op, AsInt(v), AsInt(w)) ELSE op \in Equality /\ Holds(op, v, w)

ValueIn(row, x) == IF IsName(x) THEN row[x.name] ELSE x

\* Mutant of Compare: NULL compares like any other value.
CompareNulls(row, op, x, y) ==
  CompareAs(ValueIn(row, x).type, op, ValueIn(row, x).val, ValueIn(row, y).val)

\* No comparison with NULL is true.
Compare(row, op, x, y) ==
  LET v == ValueIn(row, x)
      w == ValueIn(row, y)
  IN  v.type # "null" /\ w.type # "null" /\ CompareAs(v.type, op, v.val, w.val)

\* eval_cmp of DELETE and UPDATE: the column goes first, the operator stays.
EvalCmp(row, c) ==
  IF ~IsName(c.left) /\ IsName(c.right) THEN Compare(row, c.op, c.right, c.left)
  ELSE Compare(row, c.op, c.left, c.right)

EvalIsNull(row, c) == (row[c.arg.name].type = "null") # c.neg

\* eval_isxin of DELETE and UPDATE: one of the comparisons is true.
EvalIn(row, c) == \E v \in InValues(c) : Compare(row, InOp(c), c.args[InField(c)], v)

\* eval_isxin of SELECT: all of them are.
SelectEvalIn(row, c) == \A v \in InValues(c) : Compare(row, InOp(c), c.args[InField(c)], v)

Gate(gate, l, r) ==
  CASE gate = "and" -> l /\ r
    [] gate = "or" -> l \/ r
    [] gate = "xor" -> l # r

\* eval_delete_row, should_update_row
EvalRow(row, c) ==
  LET eval[d \in Conditions] ==
        \/ d.node = "logop" /\ Gate(d.gate, eval[d.left], eval[d.right])
        \/ d.node = "cmp" /\ EvalCmp(row, d)
        \/ d.node = "isnull" /\ EvalIsNull(row, d)
        \/ d.node = "isin" /\ EvalIn(row, d)
        \/ d.node = "none"
  IN  eval[c]

\* eval_cmp of SELECT: the operands keep their order.
SelectEvalCmp(row, c) == Compare(row, c.op, c.left, c.right)

\* eval_row_cond
SelectEvalRow(row, c) ==
  LET eval[d \in Conditions] ==
        \/ d.node = "logop" /\ Gate(d.gate, eval[d.left], eval[d.right])
        \/ d.node = "cmp" /\ SelectEvalCmp(row, d)
        \/ d.node = "isnull" /\ EvalIsNull(row, d)
        \/ d.node = "isin" /\ SelectEvalIn(row, d)
  IN  eval[c]

\* BUG_ONs on the way: a value where a condition is expected; a column that
\* bit_test is asked about as number -1, unknown or both sides of a comparison.
LeafAborts(c) ==
  c.node = "val" \/ UnknownName(c) \/ (c.node = "cmp" /\ IsName(c.left) /\ c.left = c.right)

Aborts(c) == \E l \in Leaves[c] : LeafAborts(l)

OperandType(x) == IF IsName(x) THEN TypeOf[x.name] ELSE x.type

\* Comparisons of two types: the bits of one are read as the other.
Mixed(c) ==
  \E l \in Leaves[c] :
    /\ l.node \in {"cmp", "isin"}
    /\ \E x, y \in Operands(l) : OperandType(x) # OperandType(y) /\ "null" \notin {OperandType(x), OperandType(y)}

----------------------------------------------------------------------------
(* The statements *)

Idle == [stmt |-> [verb |-> "none"], phase |-> "idle", at |-> 1, out |-> <<>>, hits |-> 0]

Init ==
  /\ slots = Rows
  /\ sess = [s \in Sessions |-> Idle]
  /\ down = FALSE

\* semantic_analyse on a parsed statement, up to the first row.
Submit(s, stmt) ==
  /\ ~down /\ sess[s].phase = "idle"
  /\ down' = (Analyse(stmt) = "crash")
  /\ sess' = [sess EXCEPT ![s] = [Idle EXCEPT !.stmt = stmt,
                                              !.phase = IF Analyse(stmt) = "accept" THEN "scan" ELSE "refused"]]
  /\ UNCHANGED slots

At(s, verb) == ~down /\ sess[s].phase = "scan" /\ sess[s].stmt.verb = verb /\ sess[s].at <= Len(slots)

AtRow(s, verb) == At(s, verb) /\ slots[sess[s].at] # Gone

\* A slot that the loop passes over.
Pass(s) ==
  /\ \E verb \in {"delete", "update", "select"} : At(s, verb) /\ slots[sess[s].at] = Gone
  /\ sess' = [sess EXCEPT ![s].at = @ + 1]
  /\ UNCHANGED <<slots, down>>

\* scan_delete
DeleteStep(s) ==
  LET q == sess[s]
      chosen == ~Aborts(q.stmt.where) /\ EvalRow(slots[q.at], q.stmt.where)
  IN  /\ AtRow(s, "delete")
      /\ slots' = IF chosen THEN [slots EXCEPT ![q.at] = Gone] ELSE slots
      /\ sess' = [sess EXCEPT ![s].at = @ + 1, ![s].hits = IF chosen THEN q.hits + 1 ELSE q.hits]
      /\ down' = Aborts(q.stmt.where)

\* What a cell holds after a name was stored in it: its bytes, which are a
\* string but no number.
NameBytes(column) == [type |-> IF TypeOf[column] = "str" THEN "str" ELSE "bytes", val |-> -1]

\* set_field_to_value
Stored(column, v) == IF IsName(v) THEN NameBytes(column) ELSE v

\* update_row: the assignments in their order.
Assigned(row, set) ==
  LET after[n \in 0 .. Len(set)] ==
        IF n = 0 THEN row
        ELSE [after[n - 1] EXCEPT ![set[n].field] = Stored(set[n].field, set[n].value)]
  IN  after[Len(set)]

\* scan_update
UpdateStep(s) ==
  LET q == sess[s]
      row == slots[q.at]
      chosen == ~Aborts(q.stmt.where) /\ EvalRow(row, q.stmt.where)
  IN  /\ AtRow(s, "update")
      /\ slots' = IF chosen THEN [slots EXCEPT ![q.at] = Assigned(row, q.stmt.set)] ELSE slots
      /\ sess' = [sess EXCEPT ![s].at = @ + 1, ![s].hits = IF chosen THEN q.hits + 1 ELSE q.hits]
      /\ down' = Aborts(q.stmt.where)

\* proc_from_clause_table: every row goes into the materialised table.
CopyStep(s) ==
  /\ AtRow(s, "select")
  /\ sess' = [sess EXCEPT ![s].at = @ + 1, ![s].out = Append(sess[s].out, slots[sess[s].at])]
  /\ UNCHANGED <<slots, down>>

\* The loop is over.  SELECT goes on to its WHERE clause, or to table_vacuum.
ScanEnd(s) ==
  LET q == sess[s]
  IN  /\ ~down /\ q.phase = "scan" /\ q.at > Len(slots)
      /\ sess' = IF q.stmt.verb = "select" /\ q.stmt.where.node # "none"
                 THEN [sess EXCEPT ![s].phase = "filter", ![s].at = 1]
                 ELSE [sess EXCEPT ![s].phase = "done"]
      /\ down' = (q.stmt.verb = "select" /\ q.stmt.where.node = "none" /\ q.out = <<>>)
      /\ UNCHANGED slots

\* proc_where_clause: rows that fail are deleted from the materialised table.
FilterStep(s) ==
  LET q == sess[s]
  IN  /\ ~down /\ q.phase = "filter" /\ q.at <= Len(q.out)
      /\ \E keep \in BOOLEAN :
           /\ Mixed(q.stmt.where) \/ keep = SelectEvalRow(q.out[q.at], q.stmt.where)
           /\ sess' = [sess EXCEPT ![s].at = @ + 1, ![s].out = IF keep THEN q.out ELSE [q.out EXCEPT ![q.at] = Gone]]
      /\ UNCHANGED <<slots, down>>

\* table_vacuum of a result without a datablock follows a NULL list entry.
FilterEnd(s) ==
  LET q == sess[s]
  IN  /\ ~down /\ q.phase = "filter" /\ q.at > Len(q.out)
      /\ sess' = [sess EXCEPT ![s].phase = "done"]
      /\ down' = (q.out = <<>>)
      /\ UNCHANGED slots

Next ==
  \E s \in Sessions :
    \/ \E stmt \in Statements : Submit(s, stmt)
    \/ Pass(s) \/ DeleteStep(s) \/ UpdateStep(s)
    \/ CopyStep(s) \/ ScanEnd(s) \/ FilterStep(s) \/ FilterEnd(s)

Spec == Init /\ [][Next]_vars
=============================================================================
