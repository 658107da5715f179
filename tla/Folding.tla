------------------------------- MODULE Folding -------------------------------
(***************************************************************************)
(* The arithmetic of INSERT expressions                                    *)
(* (src/src/engine/optimiser_insert.c).  An expression is                  *)
(*   [op, n, d, args]: op is an operator with its operands in args as      *)
(*   written, or a literal: "int" (n), "approx" (the fraction n / d),      *)
(*   "bool", "null", "str" (n is its length), "date" (a string that is     *)
(*   a date).                                                              *)
(* In the tree the right operand comes first: it is val_1 of the code.     *)
(***************************************************************************)
EXTENDS Integers, Sequences

CONSTANTS
  Exprs,     \* the expressions, closed under operands
  Depth,     \* [Exprs -> Nat]: an expression is a finite tree
  IntMax     \* INT_MAX: an int is one of -IntMax - 1 .. IntMax

Binary == {"ADD", "SUB", "MUL", "DIV", "MOD"}

\* What the grammar lets through: operators with their operands, and literals.
ASSUME ExprAssumption ==
  /\ IntMax \in Nat
  /\ Depth \in [Exprs -> Nat]
  /\ \A e \in Exprs :
       /\ e.n \in Int /\ e.d \in Nat \ {0} /\ (e.op = "int" => e.d = 1)
       /\ DOMAIN e.args = CASE e.op = "NEG" -> {1} [] e.op \in Binary -> {1, 2} [] OTHER -> {}
       /\ \A i \in DOMAIN e.args : e.args[i] \in Exprs /\ Depth[e.args[i]] < Depth[e]

Lit(op, n, d) == [op |-> op, n |-> n, d |-> d, args |-> <<>>]
Apply(op, args) == [op |-> op, n |-> 0, d |-> 1, args |-> args]

NullLit == Lit("null", 0, 1)
IntLit(n) == Lit("int", n, 1)
\* A fraction with a positive denominator.
ApproxLit(n, d) == IF d < 0 THEN Lit("approx", -n, -d) ELSE Lit("approx", n, d)

\* The process ends: BUG_GENERIC, or a remainder of ints that traps.
Aborted == Lit("aborted", 0, 1)

IsExpr(e) == e.op \in Binary \cup {"NEG"}

-----------------------------------------------------------------------------
(* Arithmetic of C: quotients are cut towards zero, an int wraps around.   *)

AbsVal(x) == IF x < 0 THEN -x ELSE x
CDiv(x, y) == LET q == AbsVal(x) \div AbsVal(y) IN IF (x < 0) = (y < 0) THEN q ELSE -q
CMod(x, y) == x - y * CDiv(x, y)

Wrap(x) == ((x + IntMax + 1) % (2 * (IntMax + 1))) - (IntMax + 1)

Least == -IntMax - 1

\* A double cast to int: cut towards zero.  Of one that is no int the cast is
\* undefined; the build's instruction for it gives the least int.
ToInt(v) == IF Wrap(CDiv(v.n, v.d)) = CDiv(v.n, v.d) THEN CDiv(v.n, v.d) ELSE Least

\* Mutant of Calci: the operands of a subtraction change places.
CalciSwapped(op, val1, val2) ==
  IF val2.op = "null" THEN NullLit
  ELSE CASE op = "ADD" -> IntLit(Wrap(val2.n + val1.n))
         [] op = "SUB" -> IntLit(Wrap(val1.n - val2.n))
         [] op = "MUL" -> IntLit(Wrap(val2.n * val1.n))
         [] op = "DIV" -> IF val1.n = 0 THEN NullLit ELSE IntLit(Wrap(CDiv(val2.n, val1.n)))
         [] op = "MOD" -> IF val1.n = 0 THEN Aborted ELSE IntLit(CMod(val2.n, val1.n))

\* calci: the result is an int.
Calci(op, val1, val2) ==
  IF val2.op = "null" THEN NullLit
  ELSE CASE op = "ADD" -> IntLit(Wrap(val2.n + val1.n))
         [] op = "SUB" -> IntLit(Wrap(val2.n - val1.n))
         [] op = "MUL" -> IntLit(Wrap(val2.n * val1.n))
         [] op = "DIV" -> IF val1.n = 0 THEN NullLit ELSE IntLit(Wrap(CDiv(val2.n, val1.n)))
         [] op = "MOD" -> IF val1.n = 0 THEN Aborted ELSE IntLit(CMod(val2.n, val1.n))

\* calcd; a remainder is that of the operands cast to int.  It traps by zero,
\* and of the least int by -1, the quotient of which is no int (calci's operands
\* have 64 bits).
Calcd(op, val1, val2) ==
  IF val2.op = "null" THEN NullLit
  ELSE CASE op = "ADD" -> ApproxLit(val2.n * val1.d + val1.n * val2.d, val1.d * val2.d)
         [] op = "SUB" -> ApproxLit(val2.n * val1.d - val1.n * val2.d, val1.d * val2.d)
         [] op = "MUL" -> ApproxLit(val2.n * val1.n, val1.d * val2.d)
         [] op = "DIV" -> IF val1.n = 0 THEN NullLit ELSE ApproxLit(val2.n * val1.d, val1.n * val2.d)
         [] op = "MOD" -> IF ToInt(val1) = 0 \/ (ToInt(val1) = -1 /\ ToInt(val2) = Least) THEN Aborted
                          ELSE ApproxLit(CMod(ToInt(val2), ToInt(val1)), 1)

\* negate: a value that became NULL has no negative.
Negate(val) ==
  CASE val.op = "int" -> IntLit(-val.n)
    [] val.op = "approx" -> ApproxLit(-val.n, val.d)
    [] OTHER -> Aborted

\* The right operand tells which arithmetic; one that became NULL tells none.
Calc(op, val1, val2) ==
  CASE val1.op = "int" -> Calci(op, val1, val2)
    [] val1.op = "approx" -> Calcd(op, val1, val2)
    [] OTHER -> Aborted

\* The result of operator e from those of its operands.
Result(e, vals) ==
  IF \E i \in DOMAIN vals : vals[i].op = "aborted" THEN Aborted
  ELSE IF e.op = "NEG" THEN Negate(vals[1]) ELSE Calc(e.op, vals[2], vals[1])

\* resolve_math_expr: the operands first; literals stay as they are.
Resolved[e \in Exprs] ==
  IF IsExpr(e) THEN Result(e, [i \in DOMAIN e.args |-> Resolved[e.args[i]]]) ELSE e

-----------------------------------------------------------------------------
(* check_math_expr_type and check_value_for_column                         *)

Leaves[e \in Exprs] ==
  IF IsExpr(e) THEN UNION {Leaves[e.args[i]] : i \in DOMAIN e.args} ELSE {e}

\* Mutant of MathFits: only NULL literals are looked for.
MathFitsUntyped(column, e) ==
  column.type \in {"INTEGER", "DOUBLE"} /\ \A leaf \in Leaves[e] : leaf.op # "null"

MathFits(column, e) ==
  /\ column.type \in {"INTEGER", "DOUBLE"}
  /\ \A leaf \in Leaves[e] : leaf.op = IF column.type = "INTEGER" THEN "int" ELSE "approx"

\* Mutant of StringFits: strings for a DATE column are not parsed.
StringFitsUnparsed(column, e) ==
  CASE column.type = "DATE" -> TRUE
    [] column.type = "VARCHAR" -> e.n + 1 =< column.precision
    [] OTHER -> FALSE

\* A date string fits a VARCHAR as any other string.
StringFits(column, e) ==
  CASE column.type = "DATE" -> e.op = "date"
    [] column.type = "VARCHAR" -> e.n + 1 =< column.precision
    [] OTHER -> FALSE

ValueFits(column, e) ==
  CASE IsExpr(e) -> MathFits(column, e)
    [] e.op = "null" -> TRUE
    [] e.op = "int" -> column.type = "INTEGER"
    [] e.op = "approx" -> column.type = "DOUBLE"
    [] e.op = "bool" -> column.type = "TINYINT"
    [] e.op \in {"str", "date"} -> StringFits(column, e)

-----------------------------------------------------------------------------
(* What the expression means: exact arithmetic on fractions <<n, d>>, and  *)
(* no value (NULL) for a quotient by zero and whatever is computed from it. *)

NoValue == <<>>

Quotient(l, r, whole) ==
  CASE r[1] = 0 -> NoValue
    [] r[1] # 0 /\ whole -> <<CDiv(l[1], r[1]), 1>>
    [] r[1] > 0 /\ ~whole -> <<l[1] * r[2], l[2] * r[1]>>
    [] r[1] < 0 /\ ~whole -> <<(-l[1]) * r[2], l[2] * (-r[1])>>

Whole(f) == CDiv(f[1], f[2])

Remainder(l, r) == IF Whole(r) = 0 THEN NoValue ELSE <<CMod(Whole(l), Whole(r)), 1>>

\* What operator e means if its operands mean m.
Combined(e, m) ==
  IF \E i \in DOMAIN m : m[i] = NoValue THEN NoValue
  ELSE CASE e.op = "NEG" -> <<-m[1][1], m[1][2]>>
         [] e.op = "ADD" -> <<m[1][1] * m[2][2] + m[2][1] * m[1][2], m[1][2] * m[2][2]>>
         [] e.op = "SUB" -> <<m[1][1] * m[2][2] - m[2][1] * m[1][2], m[1][2] * m[2][2]>>
         [] e.op = "MUL" -> <<m[1][1] * m[2][1], m[1][2] * m[2][2]>>
         [] e.op = "DIV" -> Quotient(m[1], m[2], \A leaf \in Leaves[e] : leaf.op = "int")
         [] e.op = "MOD" -> Remainder(m[1], m[2])

Meaning[e \in Exprs] ==
  CASE IsExpr(e) -> Combined(e, [i \in DOMAIN e.args |-> Meaning[e.args[i]]])
    [] e.op = "null" -> NoValue
    [] OTHER -> <<e.n, e.d>>

\* Every intermediate result is an int (a DOUBLE only has to be when a
\* remainder is taken of it).
Fits[e \in Exprs] ==
  /\ Meaning[e] # NoValue => Wrap(Whole(Meaning[e])) = Whole(Meaning[e])
  /\ \A i \in DOMAIN e.args : Fits[e.args[i]]

Means(v, e) ==
  IF Meaning[e] = NoValue THEN v = NullLit ELSE v.n * Meaning[e][2] = Meaning[e][1] * v.d

\* Operands that mean m have no remainder: by zero, or, of DOUBLEs, of the least
\* int by -1.
Traps(e, m) ==
  /\ e.op = "MOD" /\ m[1] # NoValue /\ m[2] # NoValue
  /\ \/ Whole(m[2]) = 0
     \/ (\E leaf \in Leaves[e] : leaf.op # "int") /\ Whole(m[2]) = -1 /\ Whole(m[1]) = Least

\* The folding may end the process at this operator: a remainder that traps, NULL
\* where only a left operand may be NULL, an overflow that leads to either.
MayEnd(e) ==
  \/ ~Fits[e]
  \/ Traps(e, [i \in DOMAIN e.args |-> Meaning[e.args[i]]])
  \/ IsExpr(e) /\ Meaning[e.args[IF e.op = "NEG" THEN 1 ELSE 2]] = NoValue

Undefined[e \in Exprs] == MayEnd(e) \/ \E i \in DOMAIN e.args : Undefined[e.args[i]]

=============================================================================
