---------------------------- MODULE WhereMeaning ----------------------------
(***************************************************************************)
(* What SQL says that a WHERE clause means, and what Where should           *)
(* therefore do.  Below it, the statements for which the code does not.     *)
(***************************************************************************)
EXTENDS Where

\* Three truth values: F = 0, U = 1, T = 2.
TruthOf(b) == IF b THEN 2 ELSE 0

Least(l, r) == IF l < r THEN l ELSE r
Greatest(l, r) == IF l < r THEN r ELSE l

CmpTruth(row, op, x, y) ==
  LET v == ValueIn(row, x)
      w == ValueIn(row, y)
  IN  IF v.type = "null" \/ w.type = "null" THEN 1
      ELSE TruthOf((v.type = "int" \/ op \in Equality) /\ Holds(op, v.val, w.val))

\* x IN (v, w) is x = v OR x = w.
InTruth(row, c) ==
  LET truths == {CmpTruth(row, "=", c.args[1], c.args[p]) : p \in 2 .. Len(c.args)}
      found == IF 2 \in truths THEN 2 ELSE IF 1 \in truths THEN 1 ELSE 0
  IN  IF c.neg THEN 2 - found ELSE found

\* A statement without a condition takes every row.
LeafTruth(row, c) ==
  CASE c.node = "cmp" -> CmpTruth(row, c.op, c.left, c.right)
    [] c.node = "isnull" -> TruthOf((ValueIn(row, c.arg).type = "null") # c.neg)
    [] c.node = "isin" -> InTruth(row, c)
    [] OTHER -> 2

GateTruth(gate, l, r) ==
  CASE gate = "and" -> Least(l, r)
    [] gate = "or" -> Greatest(l, r)
    [] gate = "xor" -> IF 1 \in {l, r} THEN 1 ELSE TruthOf(l # r)

Truth(row, c) ==
  LET truth[d \in Conditions] ==
        IF d.node = "logop" THEN GateTruth(d.gate, truth[d.left], truth[d.right]) ELSE LeafTruth(row, d)
  IN  truth[c]

Wants(row, stmt) == row # Gone /\ Truth(row, stmt.where) = 2

\* The assigned value of a column: the last one, a name standing for its column.
Replaced(row, set) ==
  [c \in Columns |->
     LET mine == {p \in DOMAIN set : set[p].field = c}
     IN  IF mine = {} THEN row[c]
         ELSE ValueIn(row, set[CHOOSE p \in mine : \A q \in mine : q <= p].value)]

\* The table after the whole statement.
Effect(table, stmt) ==
  [p \in DOMAIN table |->
     CASE stmt.verb = "delete" /\ Wants(table[p], stmt) -> Gone
       [] stmt.verb = "update" /\ Wants(table[p], stmt) -> Replaced(table[p], stmt.set)
       [] OTHER -> table[p]]

\* How many of the first p slots hold a row.
Place(p) == Cardinality({q \in 1 .. p : Rows[q] # Gone})

----------------------------------------------------------------------------
(* Properties *)

DeletesOrUpdates(q) ==
  /\ slots = Effect(Rows, q.stmt)
  /\ q.hits = Cardinality({p \in DOMAIN Rows : Wants(Rows[p], q.stmt)})

Selects(q) ==
  /\ slots = Rows /\ Len(q.out) = Place(Len(Rows))
  /\ \A p \in DOMAIN Rows :
       Rows[p] # Gone => q.out[Place(p)] = IF Wants(Rows[p], q.stmt) THEN Rows[p] ELSE Gone

\* A statement that ran by itself deletes, changes or delivers exactly the rows
\* for which its condition is true in SQL's three-valued logic, though the
\* executors compute with two values; it counts them, and delivers them in the
\* order of the table.
DoesAsAsked ==
  \A s \in Sessions :
    sess[s].phase = "done" =>
      IF sess[s].stmt.verb = "select" THEN Selects(sess[s]) ELSE DeletesOrUpdates(sess[s])

\* Whatever the analysers accept, the executors carry out without reaching a
\* BUG_ON or a bad pointer.
NeverDown == ~down

\* "semantic phase guarantees that columns will have the same type in CMP
\* nodes" (executor_select.c): no comparison reads a value as another type.
ComparedAlike ==
  \A s \in Sessions : sess[s].phase \in {"scan", "filter", "done"} => ~Mixed(sess[s].stmt.where)

\* An update stores in a column only NULL and values of the column's type.
CellsTyped ==
  \A p \in DOMAIN slots :
    slots[p] # Gone => \A c \in Columns : slots[p][c].type \in {"null", TypeOf[c]}

\* Statements that have all ended leave what they would leave one after the
\* other in some order.
Serializable ==
  (\A s \in Sessions : sess[s].phase \in {"done", "refused"}) =>
    LET ran == {s \in Sessions : sess[s].phase = "done"}
    IN  \E order \in SetToSeqs(ran) :
          slots = FoldLeft(LAMBDA table, s : Effect(table, sess[s].stmt), Rows, order)

----------------------------------------------------------------------------
(* The statements about which the code keeps its promises: all but those of *)
(* the README's list of what it gets wrong.                                 *)

\* No AND, OR or XOR joins two conditions that are both of the wrong type.
NotTwiceWrong[c \in Conditions] ==
  c.node = "logop" =>
    /\ NotTwiceWrong[c.left] /\ NotTwiceWrong[c.right]
    /\ ~(SummaryOf[c.left].invalid /\ SummaryOf[c.right].invalid)

NoTwoWrongs(stmt) == stmt.verb = "select" /\ Analyse(stmt) = "accept" => NotTwiceWrong[stmt.where]

\* No SET from a column.
SetsLiterals(stmt) == stmt.verb = "update" => \A p \in DOMAIN stmt.set : ~IsName(stmt.set[p].value)

\* IN has its column, for SELECT in front of a list without NULL; in DELETE and
\* UPDATE no value stands for a condition and no column is compared with itself.
NoTraps(stmt) ==
  \A l \in Leaves[stmt.where] :
    /\ l.node = "isin" =>
         /\ InFields(l) # {}
         /\ stmt.verb = "select" =>
              IsName(l.args[1]) /\ \A p \in DOMAIN l.args : IsName(l.args[p]) \/ l.args[p].type # "null"
    /\ stmt.verb # "select" => l.node # "val" /\ ~(l.node = "cmp" /\ IsName(l.left) /\ l.left = l.right)

OneSession == \A s, t \in Sessions : s = t

\* A SELECT meets a row.
MeetsRows(stmt) ==
  stmt.verb = "select" =>
    /\ \E p \in DOMAIN Rows : Rows[p] # Gone
    /\ OneSession \/ \A other \in Statements : other.verb # "delete"

IsInt(v) == -IntHalf <= v /\ v < IntHalf

\* No value that an int cannot hold.
NarrowRows == \A p \in DOMAIN Rows : Rows[p] # Gone => \A c \in Columns : IsInt(Rows[p][c].val)

NarrowLiterals(stmt) == \A l \in Leaves[stmt.where] : \A x \in Operands(l) : IsName(x) \/ IsInt(x.val)

\* What XOR joins is not unknown on any row.
XorDecided[c \in Conditions] ==
  c.node = "logop" =>
    /\ XorDecided[c.left] /\ XorDecided[c.right]
    /\ c.gate = "xor" =>
         \A p \in DOMAIN Rows : Rows[p] # Gone => 1 \notin {Truth(Rows[p], c.left), Truth(Rows[p], c.right)}

\* No literal before < and a column in DELETE and UPDATE. IN has one value, unless
\* it is DELETE's or UPDATE's, not negated, and starts with its column.
AsInSQL(verb, l) ==
  /\ verb # "select" /\ l.node = "cmp" => IsName(l.left) \/ ~IsName(l.right) \/ l.op \in Equality
  /\ l.node = "isin" /\ Len(l.args) # 2 => verb # "select" /\ IsName(l.args[1]) /\ ~l.neg

EvaluatedAsSQL(stmt) ==
  Analyse(stmt) = "accept" =>
    XorDecided[stmt.where] /\ \A l \in Leaves[stmt.where] : AsInSQL(stmt.verb, l)
=============================================================================
