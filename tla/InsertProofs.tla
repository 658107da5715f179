---------------------------- MODULE InsertProofs -----------------------------
(***************************************************************************)
(* Proofs about INSERT for any number of sessions, any table and any       *)
(* statements: the cells are what the statements say, NOT NULL holds where *)
(* it can, the process ends only on undefined expressions, and a statement *)
(* is executed wholly or, but for a lack of memory, not at all as long as  *)
(* no two sessions meet in table_insert_row.                               *)
(***************************************************************************)
EXTENDS Insert, RankedRecursion, FiniteSetTheorems

(* Arithmetic *)

LEMMA AbsValType == ASSUME NEW x \in Int PROVE AbsVal(x) \in Nat /\ (x # 0 => AbsVal(x) > 0)
BY DEF AbsVal

LEMMA CDivType == ASSUME NEW x \in Int, NEW y \in Int, y # 0 PROVE CDiv(x, y) \in Int
<1>1. AbsVal(x) \in Int /\ AbsVal(y) \in Int /\ AbsVal(y) > 0
  BY AbsValType
<1>2. AbsVal(x) \div AbsVal(y) \in Int
  BY <1>1
<1> QED BY <1>2 DEF CDiv

LEMMA CDivOne == ASSUME NEW x \in Int PROVE CDiv(x, 1) = x
BY DEF CDiv, AbsVal

LEMMA WrapType == ASSUME NEW x \in Int PROVE Wrap(x) \in Int
<1>1. IntMax \in Nat
  BY ExprAssumption
<1>2. 2 * (IntMax + 1) \in Nat \ {0} /\ x + IntMax + 1 \in Int
  BY <1>1
<1>3. (x + IntMax + 1) % (2 * (IntMax + 1)) \in Int
  BY <1>2
<1> QED BY <1>1, <1>3 DEF Wrap

LEMMA CModType == ASSUME NEW x \in Int, NEW y \in Int, y # 0 PROVE CMod(x, y) \in Int
BY CDivType DEF CMod

LEMMA PosProduct == ASSUME NEW x \in Nat \ {0}, NEW y \in Nat \ {0} PROVE x * y \in Nat \ {0}
OBVIOUS

LEMMA QuotientUnique ==
  ASSUME NEW a \in Nat, NEW b \in Nat \ {0}, NEW c \in Nat, NEW d \in Nat \ {0}, a * d = c * b
  PROVE  a \div b = c \div d
<1> DEFINE p == a \div b
           q == c \div d
<1>1. p \in Nat /\ p * b <= a /\ a < (p + 1) * b
  OBVIOUS
<1>2. q \in Nat /\ q * d <= c /\ c < (q + 1) * d
  OBVIOUS
<1> HIDE DEF p, q
<1>3. ASSUME NEW i \in Nat, NEW j \in Nat, NEW x \in Nat, NEW y \in Nat,
             NEW u \in Nat \ {0}, NEW v \in Nat \ {0},
             x * v = y * u, i < j, x < (i + 1) * u, j * v <= y
      PROVE  FALSE
  <2>1. x * v < ((i + 1) * u) * v
    BY <1>3
  <2>2. (j * v) * u <= y * u
    BY <1>3
  <2>3. ((i + 1) * u) * v = (i + 1) * (u * v) /\ (j * v) * u = j * (u * v)
    OBVIOUS
  <2>4. u * v \in Nat
    OBVIOUS
  <2>5. (i + 1) * (u * v) <= j * (u * v)
    BY <1>3, <2>4
  <2> QED BY <1>3, <2>1, <2>2, <2>3, <2>4, <2>5
<1>4. ~(p < q)
  BY <1>1, <1>2, <1>3
<1>5. ~(q < p)
  BY <1>1, <1>2, <1>3
<1>6. p = q
  BY <1>1, <1>2, <1>4, <1>5
<1> QED BY <1>6 DEF p, q

\* Equal fractions are cut to the same int.
LEMMA CDivSame ==
  ASSUME NEW a \in Int, NEW b \in Nat \ {0}, NEW c \in Int, NEW d \in Nat \ {0}, a * d = c * b
  PROVE  CDiv(a, b) = CDiv(c, d)
<1>1. a < 0 <=> c < 0
  <2>1. a < 0 => a * d < 0
    OBVIOUS
  <2>2. a >= 0 => a * d >= 0
    OBVIOUS
  <2>3. c < 0 => c * b < 0
    OBVIOUS
  <2>4. c >= 0 => c * b >= 0
    OBVIOUS
  <2> QED BY <2>1, <2>2, <2>3, <2>4
<1>2. AbsVal(a) \in Nat /\ AbsVal(c) \in Nat /\ AbsVal(b) = b /\ AbsVal(d) = d
  BY DEF AbsVal
<1>3. AbsVal(a) * d = AbsVal(c) * b
  <2>1. (-a) * d = -(a * d) /\ (-c) * b = -(c * b)
    OBVIOUS
  <2> QED BY <1>1, <2>1 DEF AbsVal
<1>4. AbsVal(a) \div b = AbsVal(c) \div d
  BY <1>2, <1>3, QuotientUnique
<1> QED BY <1>1, <1>2, <1>4 DEF CDiv

\* a / b and p / q are the same number.
SameNumber(a, b, p, q) ==
  a \in Int /\ b \in Int /\ p \in Int /\ q \in Int /\ a * q = p * b

\* Sums, differences, products and quotients of equal fractions are equal.
LEMMA FractionFacts ==
  ASSUME NEW a, NEW b, NEW p, NEW q, SameNumber(a, b, p, q),
         NEW c, NEW d, NEW r, NEW s, SameNumber(c, d, r, s)
  PROVE  /\ (a * d + c * b) * (q * s) = (p * s + r * q) * (b * d)
         /\ (a * d - c * b) * (q * s) = (p * s - r * q) * (b * d)
         /\ (a * c) * (q * s) = (p * r) * (b * d)
         /\ (a * d) * (q * r) = (p * s) * (c * b)
<1> /\ a \in Int /\ b \in Int /\ p \in Int /\ q \in Int /\ a * q = p * b
    /\ c \in Int /\ d \in Int /\ r \in Int /\ s \in Int /\ c * s = r * d
  BY DEF SameNumber
<1>1. (a * d) * (q * s) = (a * q) * (d * s)
  OBVIOUS
<1>2. (p * b) * (d * s) = (p * s) * (b * d)
  OBVIOUS
<1>3. (a * d) * (q * s) = (p * s) * (b * d)
  BY <1>1, <1>2
<1>4. (c * b) * (q * s) = (c * s) * (b * q)
  OBVIOUS
<1>5. (r * d) * (b * q) = (r * q) * (b * d)
  OBVIOUS
<1>6. (c * b) * (q * s) = (r * q) * (b * d)
  BY <1>4, <1>5
<1>7. (a * d + c * b) * (q * s) = (a * d) * (q * s) + (c * b) * (q * s)
  OBVIOUS
<1>8. (a * d - c * b) * (q * s) = (a * d) * (q * s) - (c * b) * (q * s)
  OBVIOUS
<1>9. (p * s + r * q) * (b * d) = (p * s) * (b * d) + (r * q) * (b * d)
  OBVIOUS
<1>10. (p * s - r * q) * (b * d) = (p * s) * (b * d) - (r * q) * (b * d)
  OBVIOUS
<1>11. (a * c) * (q * s) = (a * q) * (c * s)
  OBVIOUS
<1>12. (p * b) * (r * d) = (p * r) * (b * d)
  OBVIOUS
<1>13. (a * d) * (q * r) = (a * q) * (r * d)
  OBVIOUS
<1>14. (p * b) * (c * s) = (p * s) * (c * b)
  OBVIOUS
<1> QED BY <1>3, <1>6, <1>7, <1>8, <1>9, <1>10, <1>11, <1>12, <1>13, <1>14

-----------------------------------------------------------------------------
(* The recursive definitions *)

LEMMA Operands ==
  ASSUME NEW e \in Exprs
  PROVE  /\ e.n \in Int /\ e.d \in Nat \ {0} /\ (e.op = "int" => e.d = 1)
         /\ e.op = "NEG" => DOMAIN e.args = {1}
         /\ e.op \in Binary => DOMAIN e.args = {1, 2}
         /\ ~IsExpr(e) => DOMAIN e.args = {}
         /\ \A i \in DOMAIN e.args : e.args[i] \in Exprs /\ Depth[e.args[i]] < Depth[e]
BY ExprAssumption DEF IsExpr, Binary

\* What holds of an expression when it holds of its operands holds of all.
LEMMA ExprInduction ==
  ASSUME NEW G \in SUBSET Exprs,
         \A e \in Exprs : (\A i \in DOMAIN e.args : e.args[i] \in G) => e \in G
  PROVE  G = Exprs
<1>1. Depth \in [Exprs -> Nat]
  BY ExprAssumption
<1>2. \A e \in Exprs : (\A x \in Exprs : Depth[x] < Depth[e] => x \in G) => e \in G
  BY Operands
<1> QED BY <1>1, <1>2, RankInduction

\* The values that f gives to the operands of e, and the set of all such.
Mapped(f, e) == [i \in DOMAIN e.args |-> f[e.args[i]]]
OperandsIn(V) == UNION {[D -> V] : D \in {{}, {1}, {1, 2}}}

LEMMA MappedType ==
  ASSUME NEW V, NEW f \in [Exprs -> V], NEW e \in Exprs
  PROVE  Mapped(f, e) \in OperandsIn(V)
<1>1. Mapped(f, e) \in [DOMAIN e.args -> V]
  BY Operands DEF Mapped
<1>2. DOMAIN e.args \in {{}, {1}, {1, 2}}
  BY Operands DEF IsExpr
<1> QED BY <1>1, <1>2 DEF OperandsIn

\* A definition by recursion over expressions has a solution.
LEMMA ExprRecursion ==
  ASSUME NEW V, V # {}, NEW G \in [Exprs -> [OperandsIn(V) -> V]]
  PROVE  \E f \in [Exprs -> V] : \A e \in Exprs : f[e] = G[e][Mapped(f, e)]
<1> DEFINE F == [f \in [Exprs -> V] |-> [e \in Exprs |-> G[e][Mapped(f, e)]]]
<1>1. F \in [[Exprs -> V] -> [Exprs -> V]]
  BY MappedType
<1>2. \A f, g \in [Exprs -> V] : \A e \in Exprs :
        (\A x \in Exprs : Depth[x] < Depth[e] => f[x] = g[x]) => F[f][e] = F[g][e]
  <2> SUFFICES ASSUME NEW f \in [Exprs -> V], NEW g \in [Exprs -> V], NEW e \in Exprs,
                      \A x \in Exprs : Depth[x] < Depth[e] => f[x] = g[x]
               PROVE  F[f][e] = F[g][e]
    OBVIOUS
  <2>1. Mapped(f, e) = Mapped(g, e)
    BY Operands DEF Mapped
  <2> QED BY <2>1
<1>3. Depth \in [Exprs -> Nat]
  BY ExprAssumption
<1>4. \E f \in [Exprs -> V] : f = F[f]
  <2> HIDE DEF F
  <2>1. FromLower(Exprs, Depth, V, F)
    BY <1>1, <1>2, <1>3 DEF FromLower
  <2> QED BY <2>1, Recursion
<1>5. PICK f \in [Exprs -> V] : f = F[f]
  BY <1>4
<1>6. F[f] = [e \in Exprs |-> G[e][Mapped(f, e)]]
  OBVIOUS
<1> HIDE DEF F
<1>7. \A e \in Exprs : f[e] = G[e][Mapped(f, e)]
  BY <1>5, <1>6
<1> QED BY <1>7

\* The definitions say what they seem to say: each is a solution of its equation.
LEMMA LeavesDef ==
  \A e \in Exprs : Leaves[e] = IF IsExpr(e) THEN UNION {Leaves[e.args[i]] : i \in DOMAIN e.args} ELSE {e}
<1> DEFINE V == SUBSET Exprs
           G == [e \in Exprs |-> [vals \in OperandsIn(V) |->
                  IF IsExpr(e) THEN UNION {vals[i] : i \in DOMAIN vals} ELSE {e}]]
<1>1. ASSUME NEW e \in Exprs, NEW vals \in OperandsIn(V) PROVE G[e][vals] \in V
  <2>1. \A i \in DOMAIN vals : vals[i] \in V
    BY DEF OperandsIn
  <2> QED BY <2>1
<1>2. V # {} /\ G \in [Exprs -> [OperandsIn(V) -> V]]
  BY <1>1
<1>3. PICK f \in [Exprs -> V] : \A e \in Exprs : f[e] = G[e][Mapped(f, e)]
  <2> HIDE DEF V, G
  <2> QED BY <1>2, ExprRecursion
<1>4. ASSUME NEW e \in Exprs
      PROVE  f[e] = IF IsExpr(e) THEN UNION {f[e.args[i]] : i \in DOMAIN e.args} ELSE {e}
  <2>1. Mapped(f, e) \in OperandsIn(V)
    BY MappedType
  <2>2. G[e][Mapped(f, e)] = IF IsExpr(e) THEN UNION {Mapped(f, e)[i] : i \in DOMAIN Mapped(f, e)} ELSE {e}
    BY <2>1
  <2>3. {Mapped(f, e)[i] : i \in DOMAIN Mapped(f, e)} = {f[e.args[i]] : i \in DOMAIN e.args}
    BY DEF Mapped
  <2> QED BY <1>3, <2>2, <2>3
<1>5. f = [e \in Exprs |-> IF IsExpr(e) THEN UNION {f[e.args[i]] : i \in DOMAIN e.args} ELSE {e}]
  <2> HIDE DEF G
  <2> QED BY <1>4
<1>6. Leaves = [e \in Exprs |-> IF IsExpr(e) THEN UNION {Leaves[e.args[i]] : i \in DOMAIN e.args} ELSE {e}]
  BY <1>5 DEF Leaves
<1> QED BY <1>6

Rational == Int \X (Nat \ {0})

LEMMA RationalType ==
  ASSUME NEW f \in Rational PROVE f[1] \in Int /\ f[2] \in Nat \ {0} /\ f # NoValue
<1>1. f = <<f[1], f[2]>> /\ f[1] \in Int /\ f[2] \in Nat \ {0}
  BY DEF Rational
<1> QED BY <1>1 DEF NoValue

LEMMA QuotientType ==
  ASSUME NEW l \in Rational, NEW r \in Rational, NEW whole \in BOOLEAN
  PROVE  Quotient(l, r, whole) \in Rational \cup {NoValue}
<1>1. l[1] \in Int /\ l[2] \in Nat \ {0} /\ r[1] \in Int /\ r[2] \in Nat \ {0}
  BY RationalType
<1>2. CASE r[1] = 0
  BY <1>2 DEF Quotient
<1>3. CASE r[1] # 0 /\ whole
  BY <1>1, <1>3, CDivType DEF Quotient, Rational
<1>4. CASE r[1] > 0 /\ ~whole
  <2>1. r[1] \in Nat \ {0}
    BY <1>1, <1>4
  <2>2. l[2] * r[1] \in Nat \ {0} /\ l[1] * r[2] \in Int
    BY <1>1, <2>1, PosProduct
  <2>3. Quotient(l, r, whole) = <<l[1] * r[2], l[2] * r[1]>>
    BY <1>1, <1>4 DEF Quotient
  <2> QED BY <2>2, <2>3 DEF Rational
<1>5. CASE r[1] < 0 /\ ~whole
  <2>1. -r[1] \in Nat \ {0}
    BY <1>1, <1>5
  <2>2. l[2] * (-r[1]) \in Nat \ {0} /\ (-l[1]) * r[2] \in Int
    BY <1>1, <2>1, PosProduct
  <2>3. Quotient(l, r, whole) = <<(-l[1]) * r[2], l[2] * (-r[1])>>
    BY <1>1, <1>5 DEF Quotient
  <2> QED BY <2>2, <2>3 DEF Rational
<1> QED BY <1>1, <1>2, <1>3, <1>4, <1>5

LEMMA WholeType == ASSUME NEW f \in Rational PROVE Whole(f) \in Int
BY RationalType, CDivType DEF Whole

LEMMA RemainderType ==
  ASSUME NEW l \in Rational, NEW r \in Rational
  PROVE  Remainder(l, r) \in Rational \cup {NoValue}
<1>1. Whole(l) \in Int /\ Whole(r) \in Int
  BY WholeType
<1>2. CASE Whole(r) = 0
  BY <1>2 DEF Remainder
<1>3. CASE Whole(r) # 0
  <2>1. CMod(Whole(l), Whole(r)) \in Int
    BY <1>1, <1>3, CModType
  <2> QED BY <1>3, <2>1 DEF Remainder, Rational
<1> QED BY <1>2, <1>3

LEMMA CombinedType ==
  ASSUME NEW e \in Exprs, IsExpr(e), NEW m, DOMAIN m = DOMAIN e.args,
         \A i \in DOMAIN e.args : m[i] \in Rational \cup {NoValue}
  PROVE  Combined(e, m) \in Rational \cup {NoValue}
<1> SUFFICES ASSUME \A i \in DOMAIN m : m[i] # NoValue PROVE Combined(e, m) \in Rational \cup {NoValue}
  BY DEF Combined
<1>1. \A i \in DOMAIN e.args : m[i] \in Rational /\ m[i][1] \in Int /\ m[i][2] \in Nat \ {0}
  BY RationalType
<1>2. CASE e.op = "NEG"
  <2>1. m[1][1] \in Int /\ m[1][2] \in Nat \ {0}
    BY <1>1, <1>2, Operands
  <2>2. Combined(e, m) = <<-m[1][1], m[1][2]>>
    BY <1>2 DEF Combined
  <2> QED BY <2>1, <2>2 DEF Rational
<1>3. CASE e.op \in Binary
  <2>1. /\ m[1] \in Rational /\ m[1][1] \in Int /\ m[1][2] \in Nat \ {0}
        /\ m[2] \in Rational /\ m[2][1] \in Int /\ m[2][2] \in Nat \ {0}
    BY <1>1, <1>3, Operands
  <2>2. m[1][2] * m[2][2] \in Nat \ {0}
    BY <2>1, PosProduct
  <2>3. /\ m[1][1] * m[2][2] + m[2][1] * m[1][2] \in Int
        /\ m[1][1] * m[2][2] - m[2][1] * m[1][2] \in Int
        /\ m[1][1] * m[2][1] \in Int
    BY <2>1
  <2>4. CASE e.op = "ADD"
    BY <2>2, <2>3, <2>4 DEF Combined, Rational
  <2>5. CASE e.op = "SUB"
    BY <2>2, <2>3, <2>5 DEF Combined, Rational
  <2>6. CASE e.op = "MUL"
    BY <2>2, <2>3, <2>6 DEF Combined, Rational
  <2>7. CASE e.op = "DIV"
    BY <2>1, <2>7, QuotientType DEF Combined
  <2>8. CASE e.op = "MOD"
    BY <2>1, <2>8, RemainderType DEF Combined
  <2> QED BY <1>3, <2>4, <2>5, <2>6, <2>7, <2>8 DEF Binary
<1> QED BY <1>2, <1>3 DEF IsExpr

LEMMA MeaningDef ==
  \A e \in Exprs :
    /\ IsExpr(e) => Meaning[e] = Combined(e, Mapped(Meaning, e))
    /\ ~IsExpr(e) => Meaning[e] = IF e.op = "null" THEN NoValue ELSE <<e.n, e.d>>
<1> DEFINE V == Rational \cup {NoValue}
           Of(e, vals) == CASE IsExpr(e) -> Combined(e, vals)
                            [] e.op = "null" -> NoValue
                            [] OTHER -> <<e.n, e.d>>
           G == [e \in Exprs |-> [vals \in OperandsIn(V) |->
                  IF IsExpr(e) /\ DOMAIN vals # DOMAIN e.args THEN NoValue ELSE Of(e, vals)]]
<1>1. ASSUME NEW e \in Exprs, NEW vals \in OperandsIn(V) PROVE G[e][vals] \in V
  <2>1. \A i \in DOMAIN vals : vals[i] \in V
    BY DEF OperandsIn
  <2>2. CASE IsExpr(e) /\ DOMAIN vals = DOMAIN e.args
    BY <2>1, <2>2, CombinedType
  <2>3. CASE ~IsExpr(e)
    BY <2>3, Operands DEF Rational
  <2> QED BY <2>2, <2>3
<1>2. V # {} /\ G \in [Exprs -> [OperandsIn(V) -> V]]
  BY <1>1
<1>3. PICK f \in [Exprs -> V] : \A e \in Exprs : f[e] = G[e][Mapped(f, e)]
  <2> HIDE DEF V, G
  <2> QED BY <1>2, ExprRecursion
<1>4. ASSUME NEW e \in Exprs PROVE f[e] = Of(e, [i \in DOMAIN e.args |-> f[e.args[i]]])
  <2>1. Mapped(f, e) \in OperandsIn(V) /\ DOMAIN Mapped(f, e) = DOMAIN e.args
    BY MappedType DEF Mapped
  <2> HIDE DEF V, Of
  <2>2. G[e][Mapped(f, e)] = Of(e, Mapped(f, e))
    BY <2>1
  <2> QED BY <1>3, <2>2 DEF Mapped
<1>5. f = [e \in Exprs |-> Of(e, [i \in DOMAIN e.args |-> f[e.args[i]]])]
  <2> HIDE DEF G, Of
  <2> QED BY <1>4
<1>6. Meaning = [e \in Exprs |-> Of(e, [i \in DOMAIN e.args |-> Meaning[e.args[i]]])]
  BY <1>5 DEF Meaning
<1>7. \A e \in Exprs : Meaning[e] = Of(e, Mapped(Meaning, e))
  <2> HIDE DEF Of
  <2> QED BY <1>6 DEF Mapped
<1>8. ASSUME NEW e \in Exprs
      PROVE  /\ IsExpr(e) => Of(e, Mapped(Meaning, e)) = Combined(e, Mapped(Meaning, e))
             /\ ~IsExpr(e) => Of(e, Mapped(Meaning, e)) = IF e.op = "null" THEN NoValue ELSE <<e.n, e.d>>
  BY DEF IsExpr, Binary
<1> HIDE DEF Of
<1> QED BY <1>7, <1>8

LEMMA FitsDef ==
  \A e \in Exprs : Fits[e] <=> /\ Meaning[e] # NoValue => Wrap(Whole(Meaning[e])) = Whole(Meaning[e])
                               /\ \A i \in DOMAIN e.args : Fits[e.args[i]]
<1> DEFINE V == BOOLEAN
           Here(e) == Meaning[e] # NoValue => Wrap(Whole(Meaning[e])) = Whole(Meaning[e])
           G == [e \in Exprs |-> [vals \in OperandsIn(V) |-> Here(e) /\ \A i \in DOMAIN vals : vals[i]]]
<1>1. V # {} /\ G \in [Exprs -> [OperandsIn(V) -> V]]
  OBVIOUS
<1>2. PICK f \in [Exprs -> V] : \A e \in Exprs : f[e] = G[e][Mapped(f, e)]
  <2> HIDE DEF V, G
  <2> QED BY <1>1, ExprRecursion
<1>3. ASSUME NEW e \in Exprs PROVE f[e] = (Here(e) /\ \A i \in DOMAIN e.args : f[e.args[i]])
  <2>1. Mapped(f, e) \in OperandsIn(V)
    BY MappedType
  <2> HIDE DEF Here, V
  <2>2. G[e][Mapped(f, e)] = (Here(e) /\ \A i \in DOMAIN Mapped(f, e) : Mapped(f, e)[i])
    BY <2>1
  <2>3. (\A i \in DOMAIN Mapped(f, e) : Mapped(f, e)[i]) <=> \A i \in DOMAIN e.args : f[e.args[i]]
    BY DEF Mapped
  <2> HIDE DEF G
  <2>4. f[e] = G[e][Mapped(f, e)]
    BY <1>2
  <2> QED BY <2>2, <2>3, <2>4
<1>4. f = [e \in Exprs |-> Here(e) /\ \A i \in DOMAIN e.args : f[e.args[i]]]
  <2> HIDE DEF G, Here
  <2> QED BY <1>3
<1>5. Fits = [e \in Exprs |-> Here(e) /\ \A i \in DOMAIN e.args : Fits[e.args[i]]]
  BY <1>4 DEF Fits
<1> QED BY <1>5

LEMMA UndefinedDef ==
  \A e \in Exprs : Undefined[e] <=> MayEnd(e) \/ \E i \in DOMAIN e.args : Undefined[e.args[i]]
<1> DEFINE V == BOOLEAN
           G == [e \in Exprs |-> [vals \in OperandsIn(V) |-> MayEnd(e) \/ \E i \in DOMAIN vals : vals[i]]]
<1>1. V # {} /\ G \in [Exprs -> [OperandsIn(V) -> V]]
  OBVIOUS
<1>2. PICK f \in [Exprs -> V] : \A e \in Exprs : f[e] = G[e][Mapped(f, e)]
  <2> HIDE DEF V, G
  <2> QED BY <1>1, ExprRecursion
<1>3. ASSUME NEW e \in Exprs PROVE f[e] = (MayEnd(e) \/ \E i \in DOMAIN e.args : f[e.args[i]])
  <2>1. Mapped(f, e) \in OperandsIn(V)
    BY MappedType
  <2> HIDE DEF V
  <2>2. G[e][Mapped(f, e)] = (MayEnd(e) \/ \E i \in DOMAIN Mapped(f, e) : Mapped(f, e)[i])
    BY <2>1
  <2>3. (\E i \in DOMAIN Mapped(f, e) : Mapped(f, e)[i]) <=> \E i \in DOMAIN e.args : f[e.args[i]]
    BY DEF Mapped
  <2> HIDE DEF G
  <2>4. f[e] = G[e][Mapped(f, e)]
    BY <1>2
  <2> QED BY <2>2, <2>3, <2>4
<1>4. f = [e \in Exprs |-> MayEnd(e) \/ \E i \in DOMAIN e.args : f[e.args[i]]]
  <2> HIDE DEF G
  <2> QED BY <1>3
<1>5. Undefined = [e \in Exprs |-> MayEnd(e) \/ \E i \in DOMAIN e.args : Undefined[e.args[i]]]
  BY <1>4 DEF Undefined
<1> QED BY <1>5

\* A literal, as written or as the result of an operator.
Values == Exprs \cup [op : {"int", "approx", "null", "aborted"}, n : Int, d : Nat \ {0}, args : {<<>>}]

LEMMA LitTypes ==
  /\ Aborted \in Values /\ NullLit \in Values
  /\ \A n \in Int : IntLit(n) \in Values
  /\ \A n, d \in Int : d # 0 => ApproxLit(n, d) \in Values
  /\ \A v \in Values : v.n \in Int /\ v.d \in Nat \ {0}
<1>1. Aborted \in Values /\ NullLit \in Values /\ \A n \in Int : IntLit(n) \in Values
  BY DEF Values, Aborted, NullLit, IntLit, Lit
<1>2. \A n, d \in Int : d # 0 => ApproxLit(n, d) \in Values
  BY DEF Values, ApproxLit, Lit
<1>3. \A v \in Values : v.n \in Int /\ v.d \in Nat \ {0}
  BY Operands DEF Values
<1> QED BY <1>1, <1>2, <1>3

LEMMA CalciType ==
  ASSUME NEW op \in Binary, NEW v1 \in Values, NEW v2 \in Values
  PROVE  Calci(op, v1, v2) \in Values
<1>1. v1.n \in Int /\ v2.n \in Int
  BY LitTypes
<1>2. CASE v2.op = "null"
  BY <1>2, LitTypes DEF Calci
<1>3. CASE v2.op # "null"
  <2>1. CASE op = "ADD"
    BY <1>1, <1>3, <2>1, LitTypes, WrapType DEF Calci
  <2>2. CASE op = "SUB"
    BY <1>1, <1>3, <2>2, LitTypes, WrapType DEF Calci
  <2>3. CASE op = "MUL"
    BY <1>1, <1>3, <2>3, LitTypes, WrapType DEF Calci
  <2>4. CASE op = "DIV"
    BY <1>1, <1>3, <2>4, LitTypes, WrapType, CDivType DEF Calci
  <2>5. CASE op = "MOD"
    BY <1>1, <1>3, <2>5, LitTypes, CModType DEF Calci
  <2> QED BY <2>1, <2>2, <2>3, <2>4, <2>5 DEF Binary
<1> QED BY <1>2, <1>3

LEMMA CalcdType ==
  ASSUME NEW op \in Binary, NEW v1 \in Values, NEW v2 \in Values
  PROVE  Calcd(op, v1, v2) \in Values
<1>1. v1.n \in Int /\ v2.n \in Int /\ v1.d \in Nat \ {0} /\ v2.d \in Nat \ {0}
  BY LitTypes
<1>2. v1.d * v2.d \in Int /\ v1.d * v2.d # 0
  BY <1>1, PosProduct
<1>5. /\ v2.n * v1.d + v1.n * v2.d \in Int /\ v2.n * v1.d - v1.n * v2.d \in Int
      /\ v2.n * v1.n \in Int
  BY <1>1
<1>3. CASE v2.op = "null"
  BY <1>3, LitTypes DEF Calcd
<1>4. CASE v2.op # "null"
  <2>1. CASE op = "ADD"
    BY <1>2, <1>4, <1>5, <2>1, LitTypes DEF Calcd
  <2>2. CASE op = "SUB"
    BY <1>2, <1>4, <1>5, <2>2, LitTypes DEF Calcd
  <2>3. CASE op = "MUL"
    BY <1>2, <1>4, <1>5, <2>3, LitTypes DEF Calcd
  <2>4. CASE op = "DIV"
    <3>1. CASE v1.n = 0
      BY <1>4, <2>4, <3>1, LitTypes DEF Calcd
    <3>2. CASE v1.n # 0
      <4>1. v1.n * v2.d # 0 /\ v1.n * v2.d \in Int /\ v2.n * v1.d \in Int
        BY <1>1, <3>2
      <4> QED BY <1>4, <2>4, <3>2, <4>1, LitTypes DEF Calcd
    <3> QED BY <3>1, <3>2
  <2>5. CASE op = "MOD"
    <3>1. ToInt(v1) \in Int /\ ToInt(v2) \in Int
      BY <1>1, CDivType, ExprAssumption DEF ToInt, Least
    <3>2. ToInt(v1) # 0 => CMod(ToInt(v2), ToInt(v1)) \in Int
      BY <3>1, CModType
    <3> QED BY <1>4, <2>5, <3>2, LitTypes DEF Calcd
  <2> QED BY <2>1, <2>2, <2>3, <2>4, <2>5 DEF Binary
<1> QED BY <1>3, <1>4

LEMMA ResultType ==
  ASSUME NEW e \in Exprs, IsExpr(e), NEW vals, DOMAIN vals = DOMAIN e.args,
         \A i \in DOMAIN e.args : vals[i] \in Values
  PROVE  Result(e, vals) \in Values
<1>1. CASE e.op = "NEG"
  <2>1. vals[1] \in Values /\ vals[1].n \in Int /\ vals[1].d \in Nat \ {0}
    BY <1>1, Operands, LitTypes
  <2>2. Negate(vals[1]) \in Values
    <3>1. -vals[1].n \in Int /\ vals[1].d \in Int /\ vals[1].d # 0
      BY <2>1
    <3>2. IntLit(-vals[1].n) \in Values /\ ApproxLit(-vals[1].n, vals[1].d) \in Values /\ Aborted \in Values
      BY <3>1, LitTypes
    <3> QED BY <3>2 DEF Negate
  <2> QED BY <1>1, <2>2, LitTypes DEF Result
<1>2. CASE e.op \in Binary
  <2>1. vals[1] \in Values /\ vals[2] \in Values /\ e.op # "NEG"
    BY <1>2, Operands DEF Binary
  <2>2. Calc(e.op, vals[2], vals[1]) \in Values
    <3>1. Calci(e.op, vals[2], vals[1]) \in Values /\ Calcd(e.op, vals[2], vals[1]) \in Values
      BY <1>2, <2>1, CalciType, CalcdType
    <3> QED BY <3>1, LitTypes DEF Calc
  <2> QED BY <2>1, <2>2, LitTypes DEF Result
<1> QED BY <1>1, <1>2 DEF IsExpr

LEMMA ResolvedDef ==
  \A e \in Exprs : Resolved[e] = IF IsExpr(e) THEN Result(e, Mapped(Resolved, e)) ELSE e
<1> DEFINE V == Values
           Of(e, vals) == IF IsExpr(e) THEN Result(e, vals) ELSE e
           G == [e \in Exprs |-> [vals \in OperandsIn(V) |->
                  IF IsExpr(e) /\ DOMAIN vals # DOMAIN e.args THEN NullLit ELSE Of(e, vals)]]
<1>1. ASSUME NEW e \in Exprs, NEW vals \in OperandsIn(V) PROVE G[e][vals] \in V
  <2>1. \A i \in DOMAIN vals : vals[i] \in V
    BY DEF OperandsIn
  <2>2. CASE IsExpr(e) /\ DOMAIN vals = DOMAIN e.args
    BY <2>1, <2>2, ResultType
  <2>3. CASE IsExpr(e) /\ DOMAIN vals # DOMAIN e.args
    BY <2>3, LitTypes
  <2>4. CASE ~IsExpr(e)
    BY <2>4 DEF Values
  <2> QED BY <2>2, <2>3, <2>4
<1>2. V # {} /\ G \in [Exprs -> [OperandsIn(V) -> V]]
  BY <1>1, LitTypes
<1>3. PICK f \in [Exprs -> V] : \A e \in Exprs : f[e] = G[e][Mapped(f, e)]
  <2> HIDE DEF V, G
  <2> QED BY <1>2, ExprRecursion
<1>4. ASSUME NEW e \in Exprs PROVE f[e] = Of(e, [i \in DOMAIN e.args |-> f[e.args[i]]])
  <2>1. Mapped(f, e) \in OperandsIn(V) /\ DOMAIN Mapped(f, e) = DOMAIN e.args
    BY MappedType DEF Mapped
  <2> HIDE DEF V, Of
  <2>2. G[e][Mapped(f, e)] = Of(e, Mapped(f, e))
    BY <2>1
  <2> QED BY <1>3, <2>2 DEF Mapped
<1>5. f = [e \in Exprs |-> Of(e, [i \in DOMAIN e.args |-> f[e.args[i]]])]
  <2> HIDE DEF G, Of
  <2> QED BY <1>4
<1>6. Resolved = [e \in Exprs |-> Of(e, [i \in DOMAIN e.args |-> Resolved[e.args[i]]])]
  BY <1>5 DEF Resolved
<1>7. \A e \in Exprs : Resolved[e] = Of(e, Mapped(Resolved, e))
  <2> HIDE DEF Of
  <2> QED BY <1>6 DEF Mapped
<1> QED BY <1>7

LEMMA MeaningType == \A e \in Exprs : Meaning[e] \in Rational \cup {NoValue}
<1> DEFINE G == {e \in Exprs : Meaning[e] \in Rational \cup {NoValue}}
<1>1. ASSUME NEW e \in Exprs, \A i \in DOMAIN e.args : e.args[i] \in G PROVE e \in G
  <2> DEFINE m == Mapped(Meaning, e)
  <2>1. CASE IsExpr(e)
    <3>1. DOMAIN m = DOMAIN e.args /\ \A i \in DOMAIN e.args : m[i] \in Rational \cup {NoValue}
      BY <1>1 DEF Mapped
    <3>2. Meaning[e] = Combined(e, m)
      BY <2>1, MeaningDef
    <3> HIDE DEF m
    <3> QED BY <2>1, <3>1, <3>2, CombinedType
  <2>2. CASE ~IsExpr(e)
    <3>1. <<e.n, e.d>> \in Rational
      BY Operands DEF Rational
    <3> QED BY <2>2, <3>1, MeaningDef
  <2> QED BY <2>1, <2>2
<1>2. G = Exprs
  <2> HIDE DEF G
  <2>1. G \in SUBSET Exprs
    BY DEF G
  <2>2. \A e \in Exprs : (\A i \in DOMAIN e.args : e.args[i] \in G) => e \in G
    BY <1>1
  <2> QED BY <2>1, <2>2, ExprInduction
<1> QED BY <1>2

\* Every expression has a literal at the end of a branch.
LEMMA LeavesFacts ==
  /\ \A e \in Exprs : Leaves[e] # {}
  /\ \A e \in Exprs : IsExpr(e) => \A i \in DOMAIN e.args : Leaves[e.args[i]] \subseteq Leaves[e]
<1> DEFINE G == {e \in Exprs : Leaves[e] # {}}
<1>1. \A e \in Exprs : IsExpr(e) => \A i \in DOMAIN e.args : Leaves[e.args[i]] \subseteq Leaves[e]
  <2> SUFFICES ASSUME NEW e \in Exprs, IsExpr(e), NEW i \in DOMAIN e.args, NEW leaf \in Leaves[e.args[i]]
               PROVE  leaf \in Leaves[e]
    OBVIOUS
  <2>1. Leaves[e] = UNION {Leaves[e.args[j]] : j \in DOMAIN e.args}
    BY LeavesDef
  <2> QED BY <2>1
<1>2. ASSUME NEW e \in Exprs, \A i \in DOMAIN e.args : e.args[i] \in G PROVE e \in G
  <2>1. CASE IsExpr(e)
    <3>1. 1 \in DOMAIN e.args
      BY <2>1, Operands DEF IsExpr
    <3> QED BY <1>1, <1>2, <2>1, <3>1
  <2>2. CASE ~IsExpr(e)
    BY <2>2, LeavesDef
  <2> QED BY <2>1, <2>2
<1>3. G = Exprs
  <2> HIDE DEF G
  <2>1. G \in SUBSET Exprs
    BY DEF G
  <2>2. \A e \in Exprs : (\A i \in DOMAIN e.args : e.args[i] \in G) => e \in G
    BY <1>2
  <2> QED BY <2>1, <2>2, ExprInduction
<1> QED BY <1>1, <1>3

-----------------------------------------------------------------------------
(* What is computed is what is meant *)

\* A literal of type T ("int" or "approx") that is the number m, or NULL for no
\* number.
Equals(T, v, m) ==
  IF m = NoValue THEN v = NullLit
  ELSE /\ v.op = T /\ v.n \in Int /\ v.d \in Nat \ {0} /\ v.n * m[2] = m[1] * v.d
       /\ T = "int" => v.d = 1 /\ m[2] = 1

InRange(c) == c # NoValue => Wrap(Whole(c)) = Whole(c)

LEMMA LitFields ==
  /\ \A n \in Int : IntLit(n).op = "int" /\ IntLit(n).n = n /\ IntLit(n).d = 1
  /\ \A n, d \in Int : d > 0 => /\ ApproxLit(n, d).op = "approx"
                                /\ ApproxLit(n, d).n = n /\ ApproxLit(n, d).d = d
  /\ \A n, d \in Int : d < 0 => /\ ApproxLit(n, d).op = "approx"
                                /\ ApproxLit(n, d).n = -n /\ ApproxLit(n, d).d = -d
  /\ Aborted.op = "aborted" /\ NullLit.op = "null"
BY DEF IntLit, ApproxLit, Aborted, NullLit, Lit

LEMMA IntEquals ==
  ASSUME NEW n \in Int
  PROVE  /\ Equals("int", IntLit(n), <<n, 1>>)
         /\ Whole(<<n, 1>>) = n
         /\ InRange(<<n, 1>>) => Wrap(n) = n
<1>1. Whole(<<n, 1>>) = n
  BY CDivOne DEF Whole
<1> QED BY <1>1, LitFields DEF Equals, InRange, NoValue

\* An operator on two ints that are what they mean.
LEMMA IntCalc ==
  ASSUME NEW e, e.op \in Binary, \A leaf \in Leaves[e] : leaf.op = "int",
         NEW m, DOMAIN m = {1, 2}, m[1] \in Rational, m[2] \in Rational,
         NEW v, NEW w, Equals("int", v, m[1]), Equals("int", w, m[2])
  PROVE  /\ InRange(Combined(e, m)) /\ Calc(e.op, w, v) # Aborted
              => Equals("int", Calc(e.op, w, v), Combined(e, m))
         /\ ~Traps(e, m) => Calc(e.op, w, v) # Aborted
<1> DEFINE a == m[1][1]
           b == m[2][1]
           c == Combined(e, m)
<1>1. /\ a \in Int /\ b \in Int /\ m[1] # NoValue /\ m[2] # NoValue
      /\ m[1][2] = 1 /\ m[2][2] = 1
      /\ v.op = "int" /\ v.n \in Int /\ v.d = 1 /\ w.op = "int" /\ w.n \in Int /\ w.d = 1
      /\ v.n * m[1][2] = a * v.d /\ w.n * m[2][2] = b * w.d
  BY RationalType DEF Equals
<1>2. v.n = a /\ w.n = b
  BY <1>1
<1>3. Calc(e.op, w, v) = Calci(e.op, w, v) /\ v.op # "null"
  BY <1>1 DEF Calc
<1>4. Whole(m[1]) = a /\ Whole(m[2]) = b
  BY <1>1, CDivOne DEF Whole
<1>5. \A i \in DOMAIN m : m[i] # NoValue
  BY <1>1
<1>6. \A n \in Int : IntLit(n) # Aborted /\ NullLit # Aborted
  BY LitFields
<1> HIDE DEF a, b
<1>7. CASE e.op = "ADD"
  <2>1. a * 1 + b * 1 = a + b /\ 1 * 1 = 1 /\ a + b \in Int
    BY <1>1
  <2>2. c = <<a + b, 1>>
    BY <1>1, <1>5, <1>7, <2>1 DEF Combined, a, b
  <2>3. Calci(e.op, w, v) = IntLit(Wrap(a + b))
    BY <1>2, <1>3, <1>7 DEF Calci
  <2> QED BY <1>3, <1>6, <1>7, <2>1, <2>2, <2>3, IntEquals, WrapType
<1>8. CASE e.op = "SUB"
  <2>1. a * 1 - b * 1 = a - b /\ 1 * 1 = 1 /\ a - b \in Int
    BY <1>1
  <2>2. c = <<a - b, 1>>
    BY <1>1, <1>5, <1>8, <2>1 DEF Combined, a, b
  <2>3. Calci(e.op, w, v) = IntLit(Wrap(a - b))
    BY <1>2, <1>3, <1>8 DEF Calci
  <2> QED BY <1>3, <1>6, <1>8, <2>1, <2>2, <2>3, IntEquals, WrapType
<1>9. CASE e.op = "MUL"
  <2>1. 1 * 1 = 1 /\ a * b \in Int
    BY <1>1
  <2>2. c = <<a * b, 1>>
    BY <1>1, <1>5, <1>9, <2>1 DEF Combined, a, b
  <2>3. Calci(e.op, w, v) = IntLit(Wrap(a * b))
    BY <1>2, <1>3, <1>9 DEF Calci
  <2> QED BY <1>3, <1>6, <1>9, <2>1, <2>2, <2>3, IntEquals, WrapType
<1>10. CASE e.op = "DIV"
  <2>1. c = Quotient(m[1], m[2], TRUE)
    BY <1>5, <1>10 DEF Combined
  <2>2. CASE b = 0
    <3>1. c = NoValue /\ Calci(e.op, w, v) = NullLit
      BY <1>2, <1>3, <1>10, <2>1, <2>2 DEF Quotient, Calci, a, b
    <3> QED BY <1>3, <1>6, <1>10, <3>1 DEF Equals
  <2>3. CASE b # 0
    <3>1. c = <<CDiv(a, b), 1>>
      BY <2>1, <2>3 DEF Quotient, a, b
    <3>2. Calci(e.op, w, v) = IntLit(Wrap(CDiv(a, b)))
      BY <1>2, <1>3, <1>10, <2>3 DEF Calci
    <3>3. CDiv(a, b) \in Int
      BY <1>1, <2>3, CDivType
    <3> QED BY <1>3, <1>6, <1>10, <3>1, <3>2, <3>3, IntEquals, WrapType
  <2> QED BY <2>2, <2>3
<1>11. CASE e.op = "MOD"
  <2>1. CASE b = 0
    <3>1. Calci(e.op, w, v) = Aborted
      BY <1>2, <1>3, <1>11, <2>1 DEF Calci
    <3>2. Traps(e, m)
      BY <1>1, <1>4, <1>11, <2>1 DEF Traps
    <3> QED BY <1>3, <3>1, <3>2
  <2>2. CASE b # 0
    <3>1. c = <<CMod(a, b), 1>>
      BY <1>4, <1>5, <1>11, <2>2 DEF Combined, Remainder
    <3>2. Calci(e.op, w, v) = IntLit(CMod(a, b))
      BY <1>2, <1>3, <1>11, <2>2 DEF Calci
    <3>3. CMod(a, b) \in Int
      BY <1>1, <2>2, CModType
    <3> QED BY <1>3, <1>6, <3>1, <3>2, <3>3, IntEquals
  <2> QED BY <2>1, <2>2
<1> QED BY <1>7, <1>8, <1>9, <1>10, <1>11 DEF Binary

LEMMA ApproxEquals ==
  ASSUME NEW n \in Int, NEW d \in Int, d # 0, NEW p \in Int, NEW q \in Nat \ {0}, n * q = p * d
  PROVE  Equals("approx", ApproxLit(n, d), <<p, q>>)
<1>1. <<p, q>> # NoValue
  BY DEF NoValue
<1>2. CASE d > 0
  <2>1. d \in Nat \ {0}
    BY <1>2
  <2>2. ApproxLit(n, d).op = "approx" /\ ApproxLit(n, d).n = n /\ ApproxLit(n, d).d = d
    BY <1>2, LitFields
  <2> QED BY <1>1, <2>1, <2>2 DEF Equals
<1>3. CASE d < 0
  <2>1. (-n) * q = -(n * q) /\ p * (-d) = -(p * d)
    OBVIOUS
  <2>2. (-n) * q = p * (-d) /\ -d \in Nat \ {0} /\ -n \in Int
    BY <1>3, <2>1
  <2>3. ApproxLit(n, d).op = "approx" /\ ApproxLit(n, d).n = -n /\ ApproxLit(n, d).d = -d
    BY <1>3, LitFields
  <2> QED BY <1>1, <2>2, <2>3 DEF Equals
<1> QED BY <1>2, <1>3

\* An operator on two fractions that are what they mean.
LEMMA ApproxCalc ==
  ASSUME NEW e, e.op \in Binary, \E leaf \in Leaves[e] : leaf.op # "int",
         NEW m, DOMAIN m = {1, 2}, m[1] \in Rational, m[2] \in Rational,
         InRange(m[1]), InRange(m[2]),
         NEW v, NEW w, Equals("approx", v, m[1]), Equals("approx", w, m[2])
  PROVE  /\ Calc(e.op, w, v) # Aborted => Equals("approx", Calc(e.op, w, v), Combined(e, m))
         /\ ~Traps(e, m) => Calc(e.op, w, v) # Aborted
<1> DEFINE a == m[1][1]
           b == m[2][1]
           s == m[1][2]
           t == m[2][2]
           vn == v.n
           vd == v.d
           wn == w.n
           wd == w.d
           c == Combined(e, m)
<1>1. /\ a \in Int /\ b \in Int /\ s \in Nat \ {0} /\ t \in Nat \ {0}
      /\ m[1] # NoValue /\ m[2] # NoValue
  BY RationalType
<1>2. /\ v.op = "approx" /\ vn \in Int /\ vd \in Nat \ {0} /\ vn * s = a * vd
      /\ w.op = "approx" /\ wn \in Int /\ wd \in Nat \ {0} /\ wn * t = b * wd
  BY <1>1 DEF Equals
<1>3. Calc(e.op, w, v) = Calcd(e.op, w, v) /\ v.op # "null"
  BY <1>2 DEF Calc
<1>4. \A i \in DOMAIN m : m[i] # NoValue
  BY <1>1
<1>5. /\ NullLit # Aborted
      /\ \A n, d \in Int : d # 0 => ApproxLit(n, d) # Aborted
  BY LitFields
<1>6. /\ (vn * wd + wn * vd) * (s * t) = (a * t + b * s) * (vd * wd)
      /\ (vn * wd - wn * vd) * (s * t) = (a * t - b * s) * (vd * wd)
      /\ (vn * wn) * (s * t) = (a * b) * (vd * wd)
      /\ (vn * wd) * (s * b) = (a * t) * (wn * vd)
  <2> HIDE DEF a, b, s, t, vn, vd, wn, wd
  <2>1. SameNumber(vn, vd, a, s) /\ SameNumber(wn, wd, b, t)
    BY <1>1, <1>2 DEF SameNumber
  <2> QED BY <2>1, FractionFacts
<1>7. s * t \in Nat \ {0} /\ wd * vd \in Int /\ wd * vd # 0 /\ wd * vd = vd * wd
  <2> HIDE DEF a, b, s, t, vn, vd, wn, wd
  <2> QED BY <1>1, <1>2, PosProduct
<1>8. CASE e.op = "ADD"
  <2>1. c = <<a * t + b * s, s * t>>
    BY <1>4, <1>8 DEF Combined
  <2>2. Calcd(e.op, w, v) = ApproxLit(vn * wd + wn * vd, wd * vd)
    BY <1>3, <1>8 DEF Calcd
  <2> HIDE DEF a, b, s, t, vn, vd, wn, wd, c
  <2>3. vn * wd + wn * vd \in Int /\ a * t + b * s \in Int
    BY <1>1, <1>2
  <2>4. Equals("approx", ApproxLit(vn * wd + wn * vd, wd * vd), <<a * t + b * s, s * t>>)
    BY <1>6, <1>7, <2>3, ApproxEquals
  <2> QED BY <1>3, <1>5, <1>7, <2>1, <2>2, <2>3, <2>4 DEF c
<1>9. CASE e.op = "SUB"
  <2>1. c = <<a * t - b * s, s * t>>
    BY <1>4, <1>9 DEF Combined
  <2>2. Calcd(e.op, w, v) = ApproxLit(vn * wd - wn * vd, wd * vd)
    BY <1>3, <1>9 DEF Calcd
  <2> HIDE DEF a, b, s, t, vn, vd, wn, wd, c
  <2>3. vn * wd - wn * vd \in Int /\ a * t - b * s \in Int
    BY <1>1, <1>2
  <2>4. Equals("approx", ApproxLit(vn * wd - wn * vd, wd * vd), <<a * t - b * s, s * t>>)
    BY <1>6, <1>7, <2>3, ApproxEquals
  <2> QED BY <1>3, <1>5, <1>7, <2>1, <2>2, <2>3, <2>4 DEF c
<1>10. CASE e.op = "MUL"
  <2>1. c = <<a * b, s * t>>
    BY <1>4, <1>10 DEF Combined
  <2>2. Calcd(e.op, w, v) = ApproxLit(vn * wn, wd * vd)
    BY <1>3, <1>10 DEF Calcd
  <2> HIDE DEF a, b, s, t, vn, vd, wn, wd, c
  <2>3. vn * wn \in Int /\ a * b \in Int
    BY <1>1, <1>2
  <2>4. Equals("approx", ApproxLit(vn * wn, wd * vd), <<a * b, s * t>>)
    BY <1>6, <1>7, <2>3, ApproxEquals
  <2> QED BY <1>3, <1>5, <1>7, <2>1, <2>2, <2>3, <2>4 DEF c
<1>11. CASE e.op = "DIV"
  <2>1. c = Quotient(m[1], m[2], FALSE)
    BY <1>4, <1>11 DEF Combined
  <2>2. /\ b = 0 => c = NoValue
        /\ b > 0 => c = <<a * t, s * b>>
        /\ b < 0 => c = <<(-a) * t, s * (-b)>>
    BY <1>1, <2>1 DEF Quotient
  <2>3. /\ wn = 0 => Calcd(e.op, w, v) = NullLit
        /\ wn # 0 => Calcd(e.op, w, v) = ApproxLit(vn * wd, wn * vd)
    BY <1>3, <1>11 DEF Calcd
  <2> HIDE DEF a, b, s, t, vn, vd, wn, wd, c
  <2>4. wn = 0 <=> b = 0
    BY <1>1, <1>2
  <2>5. CASE b = 0
    BY <1>3, <1>5, <2>2, <2>3, <2>4, <2>5 DEF Equals, c
  <2>6. CASE b > 0
    <3>1. wn * vd \in Int /\ wn * vd # 0 /\ vn * wd \in Int /\ a * t \in Int
      BY <1>1, <1>2, <2>4, <2>6
    <3>2. s * b \in Nat \ {0}
      BY <1>1, <2>6, PosProduct
    <3>3. Equals("approx", ApproxLit(vn * wd, wn * vd), <<a * t, s * b>>)
      BY <1>6, <3>1, <3>2, ApproxEquals
    <3> QED BY <1>1, <1>3, <1>5, <2>2, <2>3, <2>4, <2>6, <3>1, <3>3 DEF c
  <2>7. CASE b < 0
    <3>1. wn * vd \in Int /\ wn * vd # 0 /\ vn * wd \in Int /\ (-a) * t \in Int
      BY <1>1, <1>2, <2>4, <2>7
    <3>2. s * (-b) \in Nat \ {0}
      BY <1>1, <2>7, PosProduct
    <3>3. (vn * wd) * (s * (-b)) = -((vn * wd) * (s * b)) /\ ((-a) * t) * (wn * vd) = -((a * t) * (wn * vd))
      BY <1>1, <1>2
    <3>4. Equals("approx", ApproxLit(vn * wd, wn * vd), <<(-a) * t, s * (-b)>>)
      BY <1>6, <3>1, <3>2, <3>3, ApproxEquals
    <3> QED BY <1>1, <1>3, <1>5, <2>2, <2>3, <2>4, <2>7, <3>1, <3>4 DEF c
  <2> QED BY <1>1, <2>5, <2>6, <2>7
<1>12. CASE e.op = "MOD"
  <2>1. ToInt(v) = Whole(m[1]) /\ ToInt(w) = Whole(m[2])
    <3>1. Whole(m[1]) = CDiv(a, s) /\ Whole(m[2]) = CDiv(b, t)
      BY DEF Whole
    <3>2. Wrap(Whole(m[1])) = Whole(m[1]) /\ Wrap(Whole(m[2])) = Whole(m[2])
      BY <1>1 DEF InRange
    <3>3. /\ ToInt(v) = IF Wrap(CDiv(vn, vd)) = CDiv(vn, vd) THEN CDiv(vn, vd) ELSE Least
          /\ ToInt(w) = IF Wrap(CDiv(wn, wd)) = CDiv(wn, wd) THEN CDiv(wn, wd) ELSE Least
      BY DEF ToInt
    <3> HIDE DEF a, b, s, t, vn, vd, wn, wd
    <3>4. CDiv(vn, vd) = CDiv(a, s)
      BY <1>1, <1>2, CDivSame
    <3>5. CDiv(wn, wd) = CDiv(b, t)
      BY <1>1, <1>2, CDivSame
    <3> QED BY <3>1, <3>2, <3>3, <3>4, <3>5
  <2>2. Whole(m[1]) \in Int /\ Whole(m[2]) \in Int
    BY WholeType
  <2>3. CASE Traps(e, m)
    <3>1. Whole(m[2]) = 0 \/ (Whole(m[2]) = -1 /\ Whole(m[1]) = Least)
      BY <2>3 DEF Traps
    <3>2. Calcd(e.op, w, v) = Aborted
      BY <1>3, <1>12, <2>1, <3>1 DEF Calcd
    <3> QED BY <1>3, <2>3, <3>2
  <2>4. CASE ~Traps(e, m)
    <3> DEFINE k == CMod(Whole(m[1]), Whole(m[2]))
    <3>1. Whole(m[2]) # 0 /\ ~(Whole(m[2]) = -1 /\ Whole(m[1]) = Least)
      BY <1>1, <1>12, <2>4 DEF Traps
    <3>2. c = <<k, 1>>
      BY <1>4, <1>12, <3>1 DEF Combined, Remainder
    <3>3. Calcd(e.op, w, v) = ApproxLit(k, 1)
      BY <1>3, <1>12, <2>1, <3>1 DEF Calcd
    <3>4. k \in Int
      BY <2>2, <3>1, CModType
    <3> HIDE DEF k, c
    <3>5. Equals("approx", ApproxLit(k, 1), <<k, 1>>)
      BY <3>4, ApproxEquals
    <3> QED BY <1>3, <1>5, <3>2, <3>3, <3>4, <3>5 DEF c
  <2> QED BY <2>3, <2>4
<1> QED BY <1>8, <1>9, <1>10, <1>11, <1>12 DEF Binary

\* The end of the operands' values: NULL where only the left operand of a binary
\* operator may be NULL.
Last(e) == IF e.op = "NEG" THEN 1 ELSE 2

\* An operator on operands that are what they mean.
LEMMA OperatorStep ==
  ASSUME NEW e \in Exprs, IsExpr(e), NEW T \in {"int", "approx"}, \A leaf \in Leaves[e] : leaf.op = T,
         NEW m, DOMAIN m = DOMAIN e.args,
         \A i \in DOMAIN e.args : m[i] \in Rational \cup {NoValue} /\ InRange(m[i]),
         NEW vals, DOMAIN vals = DOMAIN e.args, \A i \in DOMAIN e.args : Equals(T, vals[i], m[i])
  PROVE  /\ InRange(Combined(e, m)) /\ Result(e, vals) # Aborted => Equals(T, Result(e, vals), Combined(e, m))
         /\ ~Traps(e, m) /\ m[Last(e)] # NoValue => Result(e, vals) # Aborted
<1>1. \A i \in DOMAIN e.args : vals[i].op # "aborted" /\ (m[i] = NoValue => vals[i] = NullLit)
  BY LitFields DEF Equals
<1>2. Result(e, vals) = IF e.op = "NEG" THEN Negate(vals[1]) ELSE Calc(e.op, vals[2], vals[1])
  BY <1>1 DEF Result
<1>3. NullLit.op = "null" /\ NullLit # Aborted
  BY LitFields
<1>4. CASE e.op = "NEG"
  <2>1. 1 \in DOMAIN e.args /\ DOMAIN m = {1}
    BY <1>4, Operands
  <2>2. CASE m[1] = NoValue
    <3>1. Negate(vals[1]) = Aborted
      BY <1>1, <1>3, <2>1, <2>2 DEF Negate
    <3> QED BY <1>2, <1>4, <2>2, <3>1 DEF Last
  <2>3. CASE m[1] # NoValue
    <3> DEFINE n == vals[1].n
               d == vals[1].d
               p == m[1][1]
               q == m[1][2]
    <3>1. /\ p \in Int /\ q \in Nat \ {0} /\ vals[1].op = T /\ n \in Int /\ d \in Nat \ {0} /\ n * q = p * d
          /\ T = "int" => d = 1 /\ q = 1
      BY <2>1, <2>3, RationalType DEF Equals
    <3>2. Combined(e, m) = <<-p, q>>
      BY <1>4, <2>1, <2>3 DEF Combined
    <3>3. (-n) * q = -(n * q) /\ (-p) * d = -(p * d) /\ -n \in Int /\ -p \in Int
      BY <3>1
    <3>4. CASE T = "int"
      <4>1. Negate(vals[1]) = IntLit(-n) /\ q = 1 /\ n = p
        BY <3>1, <3>4 DEF Negate
      <4> HIDE DEF n, d, p, q
      <4>2. Equals("int", IntLit(-n), <<-n, 1>>) /\ IntLit(-n) # Aborted
        BY <3>3, IntEquals, LitFields
      <4> QED BY <1>2, <1>4, <3>2, <3>4, <4>1, <4>2
    <3>5. CASE T = "approx"
      <4>1. Negate(vals[1]) = ApproxLit(-n, d)
        BY <3>1, <3>5 DEF Negate
      <4> HIDE DEF n, d, p, q
      <4>2. Equals("approx", ApproxLit(-n, d), <<-p, q>>)
        BY <3>1, <3>3, ApproxEquals
      <4>3. ApproxLit(-n, d) # Aborted
        <5>1. -n \in Int /\ d \in Int /\ d > 0
          BY <3>1, <3>3
        <5>2. ApproxLit(-n, d).op = "approx"
          BY <5>1, LitFields
        <5>3. Aborted.op = "aborted"
          BY LitFields
        <5> QED BY <5>2, <5>3
      <4> QED BY <1>2, <1>4, <3>2, <3>5, <4>1, <4>2, <4>3
    <3> QED BY <3>4, <3>5
  <2> QED BY <2>2, <2>3
<1>5. CASE e.op \in Binary
  <2>1. e.op # "NEG" /\ DOMAIN e.args = {1, 2} /\ DOMAIN m = {1, 2} /\ Last(e) = 2
    BY <1>5, Operands DEF Binary, Last
  <2>2. CASE m[2] = NoValue
    <3>1. Calc(e.op, vals[2], vals[1]) = Aborted
      BY <1>1, <1>3, <2>1, <2>2 DEF Calc
    <3> QED BY <1>2, <2>1, <2>2, <3>1
  <2>3. CASE m[1] = NoValue /\ m[2] # NoValue
    <3>1. vals[1] = NullLit /\ vals[2].op \in {"int", "approx"}
      BY <1>1, <2>1, <2>3 DEF Equals
    <3>2. Calc(e.op, vals[2], vals[1]) = NullLit
      BY <1>3, <3>1 DEF Calc, Calci, Calcd
    <3>3. Combined(e, m) = NoValue
      BY <2>1, <2>3 DEF Combined
    <3> QED BY <1>2, <1>3, <2>1, <3>2, <3>3 DEF Equals
  <2>4. CASE m[1] # NoValue /\ m[2] # NoValue
    <3>1. /\ m[1] \in Rational /\ m[2] \in Rational /\ InRange(m[1]) /\ InRange(m[2])
          /\ Equals(T, vals[1], m[1]) /\ Equals(T, vals[2], m[2])
      BY <2>1, <2>4
    <3>2. CASE T = "int"
      BY <1>2, <1>5, <2>1, <2>4, <3>1, <3>2, IntCalc
    <3>3. CASE T = "approx"
      <4>1. \E leaf \in Leaves[e] : leaf.op # "int"
        BY <3>3, LeavesFacts
      <4> QED BY <1>2, <1>5, <2>1, <2>4, <3>1, <3>3, <4>1, ApproxCalc
    <3> QED BY <3>2, <3>3
  <2> QED BY <2>2, <2>3, <2>4
<1> QED BY <1>4, <1>5 DEF IsExpr

\* The folding of an expression all of whose literals are of the type of its
\* column (resolve_math_expr after check_math_expr_type): unless an int overflows
\* on the way or the process ends, the literal it leaves is what the expression
\* means; and the process does not end on an expression that is defined.
LEMMA FoldedAsMeant ==
  ASSUME NEW T \in {"int", "approx"}, NEW e \in Exprs, \A leaf \in Leaves[e] : leaf.op = T
  PROVE  /\ Fits[e] /\ Resolved[e] # Aborted => Equals(T, Resolved[e], Meaning[e])
         /\ ~Undefined[e] => Resolved[e] # Aborted
<1> DEFINE Good(x) == /\ Fits[x] /\ Resolved[x] # Aborted => Equals(T, Resolved[x], Meaning[x])
                      /\ ~Undefined[x] => Resolved[x] # Aborted
           Typed(x) == \A leaf \in Leaves[x] : leaf.op = T
           G == {x \in Exprs : Typed(x) => Good(x)}
<1>1. ASSUME NEW x \in Exprs, Typed(x), \A i \in DOMAIN x.args : x.args[i] \in G PROVE Good(x)
  <2>1. CASE ~IsExpr(x)
    <3>1. Leaves[x] = {x} /\ Resolved[x] = x
      BY <2>1, LeavesDef, ResolvedDef
    <3>2. x.op = T
      BY <1>1, <3>1
    <3>3. Meaning[x] = <<x.n, x.d>>
      BY <2>1, <3>2, MeaningDef
    <3>4. x # Aborted /\ <<x.n, x.d>> # NoValue
      BY <3>2, LitFields DEF NoValue
    <3>5. x.n \in Int /\ x.d \in Nat \ {0} /\ (T = "int" => x.d = 1)
      BY <3>2, Operands
    <3>6. Equals(T, x, <<x.n, x.d>>)
      BY <3>2, <3>4, <3>5 DEF Equals
    <3> QED BY <3>1, <3>3, <3>4, <3>6
  <2>2. CASE IsExpr(x)
    <3> DEFINE m == Mapped(Meaning, x)
               vals == Mapped(Resolved, x)
    <3>1. /\ DOMAIN m = DOMAIN x.args /\ DOMAIN vals = DOMAIN x.args
          /\ \A i \in DOMAIN x.args : /\ m[i] = Meaning[x.args[i]] /\ vals[i] = Resolved[x.args[i]]
                                      /\ m[i] \in Rational \cup {NoValue} /\ x.args[i] \in Exprs
      BY MeaningType, Operands DEF Mapped
    <3>2. Meaning[x] = Combined(x, m) /\ Resolved[x] = Result(x, vals)
      BY <2>2, MeaningDef, ResolvedDef
    <3> HIDE DEF m, vals
    <3>3. \A i \in DOMAIN x.args : Good(x.args[i])
      <4> SUFFICES ASSUME NEW i \in DOMAIN x.args PROVE Typed(x.args[i])
        BY <1>1
      <4> QED BY <1>1, <2>2, LeavesFacts
    <3>4. \A i \in DOMAIN x.args : Fits[x] => Fits[x.args[i]]
      BY FitsDef
    <3>5. Fits[x] => InRange(Combined(x, m))
      BY <3>2, FitsDef DEF InRange
    <3>6. ASSUME Fits[x], \A i \in DOMAIN x.args : Resolved[x.args[i]] # Aborted
          PROVE  /\ Resolved[x] # Aborted => Equals(T, Resolved[x], Meaning[x])
                 /\ ~Traps(x, m) /\ m[Last(x)] # NoValue => Resolved[x] # Aborted
      <4>1. \A i \in DOMAIN x.args : Equals(T, vals[i], m[i])
        BY <3>1, <3>3, <3>4, <3>6
      <4>2. \A i \in DOMAIN x.args : InRange(m[i])
        BY <3>1, <3>4, <3>6, FitsDef DEF InRange
      <4> HIDE DEF Good, G
      <4> QED BY <1>1, <2>2, <3>1, <3>2, <3>5, <3>6, <4>1, <4>2, OperatorStep
    <3>7. ASSUME Fits[x], Resolved[x] # Aborted PROVE Equals(T, Resolved[x], Meaning[x])
      <4>1. \A i \in DOMAIN x.args : Resolved[x.args[i]] # Aborted
        BY <3>1, <3>2, <3>7, LitFields DEF Result
      <4> QED BY <3>6, <3>7, <4>1
    <3>8. ASSUME ~Undefined[x] PROVE Resolved[x] # Aborted
      <4>1. ~MayEnd(x) /\ \A i \in DOMAIN x.args : ~Undefined[x.args[i]]
        BY <3>8, UndefinedDef
      <4>2. Fits[x] /\ \A i \in DOMAIN x.args : Resolved[x.args[i]] # Aborted
        BY <3>3, <4>1 DEF MayEnd
      <4>3. ~Traps(x, Mapped(Meaning, x))
        BY <4>1 DEF MayEnd, Mapped
      <4>4. Last(x) \in DOMAIN x.args
        BY <2>2, Operands DEF IsExpr, Binary, Last
      <4>5. m[Last(x)] # NoValue
        BY <2>2, <3>1, <4>1, <4>4 DEF MayEnd, Last
      <4> QED BY <3>6, <4>2, <4>3, <4>5 DEF m
    <3> QED BY <3>7, <3>8
  <2> QED BY <2>1, <2>2
<1>2. G = Exprs
  <2>1. G \in SUBSET Exprs /\ \A x \in Exprs : (\A i \in DOMAIN x.args : x.args[i] \in G) => x \in G
    BY <1>1
  <2> HIDE DEF G
  <2> QED BY <2>1, ExprInduction
<1> QED BY <1>2

-----------------------------------------------------------------------------

Pcs == {"analyse", "optimise", "execute", "insert", "answered"}

\* The statements that the analyser lets through, and those of them that the
\* optimiser gets to the end of.
Admitted == {stmt \in Statements : Accepted(stmt)}
Foldable == {stmt \in Admitted : ~FoldingAborts(stmt)}

FoldedOf == [stmt \in Statements |-> FoldedRows(stmt)]

\* What the executor knows of its session.
Session(s) ==
  /\ sess[s] = [pc |-> sess[s].pc, stmt |-> sess[s].stmt, rows |-> sess[s].rows, nr |-> sess[s].nr,
                slot |-> sess[s].slot, answer |-> sess[s].answer, aff |-> sess[s].aff]
  /\ sess[s].pc \in Pcs
  /\ sess[s].stmt \in Statements
  /\ sess[s].nr \in 1 .. Len(sess[s].stmt.rows) + 1
  /\ sess[s].slot \in Nat

\* What the phases hand on: a statement that was accepted, its folded rows, one
\* of which is left while it is being inserted.
Phases(s) ==
  /\ sess[s].pc = "analyse" => sess[s].nr = 1
  /\ sess[s].pc = "optimise" => sess[s].nr = 1 /\ sess[s].stmt \in Admitted
  /\ sess[s].pc \in {"execute", "insert"} =>
       sess[s].stmt \in Foldable /\ sess[s].rows = FoldedOf[sess[s].stmt]
  /\ sess[s].pc = "insert" => RowsLeft(s)

\* What the client was told: of all rows after all of them, of an error before
\* the first one or without memory.
Answered(s) ==
  sess[s].pc = "answered" =>
    /\ sess[s].aff \in {0, Len(sess[s].stmt.rows)}
    /\ sess[s].aff > 0 => sess[s].nr = Len(sess[s].stmt.rows) + 1
    /\ sess[s].answer = "executed" /\ sess[s].aff = 0 => oom
    /\ sess[s].answer = "error" /\ ~oom => sess[s].nr = 1

\* The slots up to the free offset are taken, those behind it are not, and
\* whoever is in table_insert_row is alone there, about to fill the next one.
SlotsTaken ==
  /\ \A i \in 1 .. MaxSlots : i <= free <=> slots[i] # Empty
  /\ \A s \in Sessions : sess[s].pc = "insert" => sess[s].slot = free + 1 /\ free < MaxSlots
  /\ \A s, t \in Sessions : sess[s].pc = "insert" /\ sess[t].pc = "insert" => s = t

\* A session's rows in the table are the first of its statement, each once.
RowsNumbered(s) ==
  /\ \A i \in RowsOf(s) : slots[i].nr \in 1 .. sess[s].nr - 1
  /\ \A k \in 1 .. sess[s].nr - 1 : \E i \in RowsOf(s) : slots[i].nr = k
  /\ \A i, j \in RowsOf(s) : slots[i].nr = slots[j].nr => i = j

TypeInv ==
  /\ slots = [i \in 1 .. MaxSlots |-> slots[i]]
  /\ free \in Nat
  /\ sess = [s \in Sessions |-> sess[s]]
  /\ oom \in BOOLEAN /\ overlap \in BOOLEAN

InsertInv ==
  /\ TypeInv
  /\ \A s \in Sessions : Session(s) /\ Phases(s) /\ Answered(s)
  /\ ~overlap => SlotsTaken /\ \A s \in Sessions : RowsNumbered(s)

----------------------------------------------------------------------------
(* The statements *)

LEMMA RowCount ==
  ASSUME NEW stmt \in Statements
  PROVE  /\ Len(stmt.rows) \in Nat \ {0} /\ DOMAIN stmt.rows = 1 .. Len(stmt.rows)
         /\ DOMAIN FoldedRows(stmt) = 1 .. Len(stmt.rows)
BY StatementAssumption DEF FoldedRows

\* A string for a DATE column that the analyser accepts is parsed again while
\* the row is built, and is still a date.
LEMMA DatesAreDates ==
  ASSUME NEW stmt \in Statements, ValuesFit(stmt), NEW r \in DOMAIN stmt.rows
  PROVE  DatesParse(stmt, FoldedRows(stmt)[r])
<1> SUFFICES ASSUME NEW i \in DOMAIN stmt.rows[r], Columns[ColumnOrder(stmt)[i]].type = "DATE"
             PROVE  Folded(stmt.rows[r][i]).op \in {"date", "null"}
  BY DEF DatesParse, FoldedRows
<1> DEFINE e == stmt.rows[r][i]
<1>1. ValueFits(Columns[ColumnOrder(stmt)[i]], e)
  BY DEF ValuesFit
<1>2. IsExpr(e) \/ e.op \in {"int", "approx", "bool", "null", "str", "date"}
  BY StatementAssumption
<1>3. ~IsExpr(e)
  BY <1>1 DEF ValueFits, MathFits, IsExpr, Binary
<1>4. e.op \in {"date", "null"}
  BY <1>1, <1>2, <1>3 DEF ValueFits, StringFits, IsExpr
<1> QED BY <1>3, <1>4 DEF Folded

----------------------------------------------------------------------------
(* The steps *)

\* What a step of session s leaves of the others.
Others(s) == \A t \in Sessions \ {s} : sess'[t] = sess[t]

\* A step of session s that leaves the table alone and does not end in
\* table_insert_row.
LEMMA QuietStep ==
  ASSUME InsertInv, NEW s \in Sessions, UNCHANGED <<slots, free, overlap>>,
         oom' \in BOOLEAN, oom => oom', Others(s), sess' = [t \in Sessions |-> sess'[t]],
         Session(s)', Phases(s)', Answered(s)',
         sess'[s].pc # "insert", sess'[s].nr = sess[s].nr
  PROVE  InsertInv'
<1>1. TypeInv'
  BY DEF InsertInv, TypeInv
<1>2. ASSUME NEW t \in Sessions PROVE Session(t)' /\ Phases(t)' /\ Answered(t)'
  <2>1. CASE t = s
    BY <2>1
  <2>2. CASE t # s
    <3>1. sess'[t] = sess[t] /\ Session(t) /\ Phases(t) /\ Answered(t)
      BY <2>2 DEF InsertInv, Others
    <3> QED BY <3>1 DEF Session, Phases, Answered, RowsLeft
  <2> QED BY <2>1, <2>2
<1>3. ASSUME ~overlap' PROVE SlotsTaken' /\ \A t \in Sessions : RowsNumbered(t)'
  <2>1. SlotsTaken /\ \A t \in Sessions : RowsNumbered(t)
    BY <1>3 DEF InsertInv
  <2>2. \A t \in Sessions : sess'[t].nr = sess[t].nr /\ (sess'[t].pc = "insert" => sess'[t] = sess[t])
    BY DEF Others
  <2>3. \A t \in Sessions : RowsOf(t)' = RowsOf(t)
    BY DEF RowsOf
  <2> QED BY <2>1, <2>2, <2>3 DEF SlotsTaken, RowsNumbered
<1> QED BY <1>1, <1>2, <1>3 DEF InsertInv

\* The updates of a session's record, written out.
LEMMA AnswerFacts ==
  ASSUME InsertInv, NEW s \in Sessions, NEW answer, NEW aff, Answer(s, answer, aff)
  PROVE  /\ sess' = [t \in Sessions |-> sess'[t]] /\ Others(s)
         /\ sess'[s] = [pc |-> "answered", stmt |-> sess[s].stmt, rows |-> sess[s].rows, nr |-> sess[s].nr,
                        slot |-> sess[s].slot, answer |-> answer, aff |-> aff]
<1>1. Session(s) /\ sess = [t \in Sessions |-> sess[t]]
  BY DEF InsertInv, TypeInv
<1> QED BY <1>1 DEF Answer, Others, Session

LEMMA GotoFacts ==
  ASSUME InsertInv, NEW s \in Sessions, NEW pc, Goto(s, pc)
  PROVE  /\ sess' = [t \in Sessions |-> sess'[t]] /\ Others(s)
         /\ sess'[s] = [pc |-> pc, stmt |-> sess[s].stmt, rows |-> sess[s].rows, nr |-> sess[s].nr,
                        slot |-> sess[s].slot, answer |-> sess[s].answer, aff |-> sess[s].aff]
<1>1. Session(s) /\ sess = [t \in Sessions |-> sess[t]]
  BY DEF InsertInv, TypeInv
<1> QED BY <1>1 DEF Goto, Others, Session

\* The statement ends, executed or not.
LEMMA AnswerStep ==
  ASSUME InsertInv, NEW s \in Sessions, sess[s].pc # "insert",
         NEW answer, NEW aff, Answer(s, answer, aff),
         UNCHANGED <<slots, free, overlap>>, oom' \in BOOLEAN, oom => oom',
         \/ answer = "error" /\ aff = 0 /\ (oom' \/ sess[s].nr = 1)
         \/ answer = "executed" /\ aff = 0 /\ oom'
         \/ answer = "executed" /\ aff = Len(sess[s].stmt.rows) /\ sess[s].nr = Len(sess[s].stmt.rows) + 1
  PROVE  InsertInv'
<1>1. Session(s) /\ Len(sess[s].stmt.rows) \in Nat \ {0}
  BY RowCount DEF InsertInv, Session
<1>2. /\ sess' = [t \in Sessions |-> sess'[t]] /\ Others(s)
      /\ sess'[s] = [pc |-> "answered", stmt |-> sess[s].stmt, rows |-> sess[s].rows, nr |-> sess[s].nr,
                     slot |-> sess[s].slot, answer |-> answer, aff |-> aff]
  BY AnswerFacts
<1>3. Session(s)'
  BY <1>1, <1>2 DEF Session, Pcs
<1>4. Phases(s)'
  BY <1>2 DEF Phases
<1>5. Answered(s)'
  BY <1>1, <1>2 DEF Answered
<1> QED BY <1>2, <1>3, <1>4, <1>5, QuietStep

LEMMA AnalyseStep ==
  ASSUME InsertInv, NEW s \in Sessions, Accept(s) \/ Refuse(s) \/ AnalysisFails(s)
  PROVE  InsertInv'
<1>1. Session(s) /\ sess[s].pc = "analyse" /\ sess[s].nr = 1 /\ oom \in BOOLEAN
  BY DEF InsertInv, TypeInv, Phases, Accept, Refuse, AnalysisFails, At
<1>2. CASE Accept(s)
  <2>1. Goto(s, "optimise") /\ sess[s].stmt \in Admitted /\ UNCHANGED <<slots, free, oom, overlap>>
    BY <1>1, <1>2 DEF Accept, Admitted, Session
  <2>2. /\ sess' = [t \in Sessions |-> sess'[t]] /\ Others(s)
        /\ sess'[s] = [pc |-> "optimise", stmt |-> sess[s].stmt, rows |-> sess[s].rows, nr |-> sess[s].nr,
                       slot |-> sess[s].slot, answer |-> sess[s].answer, aff |-> sess[s].aff]
    BY <2>1, GotoFacts
  <2>3. Session(s)'
    BY <1>1, <2>2 DEF Session, Pcs
  <2>4. Phases(s)' /\ Answered(s)'
    BY <1>1, <2>1, <2>2 DEF Phases, Answered
  <2> QED BY <1>1, <2>1, <2>2, <2>3, <2>4, QuietStep
<1>3. CASE Refuse(s)
  BY <1>1, <1>3, AnswerStep DEF Refuse
<1>4. CASE AnalysisFails(s)
  BY <1>1, <1>4, AnswerStep DEF AnalysisFails, Fails
<1> QED BY <1>2, <1>3, <1>4

LEMMA OptimiseStep ==
  ASSUME InsertInv, NEW s \in Sessions, Optimise(s) PROVE InsertInv'
<1>1. /\ Session(s) /\ sess[s].nr = 1 /\ sess[s].stmt \in Foldable /\ oom \in BOOLEAN
      /\ sess = [t \in Sessions |-> sess[t]]
  BY DEF InsertInv, TypeInv, Phases, Optimise, At, Foldable
<1>2. /\ sess' = [t \in Sessions |-> sess'[t]] /\ Others(s)
      /\ sess'[s] = [pc |-> "execute", stmt |-> sess[s].stmt, rows |-> FoldedOf[sess[s].stmt], nr |-> sess[s].nr,
                     slot |-> sess[s].slot, answer |-> sess[s].answer, aff |-> sess[s].aff]
  BY <1>1 DEF Optimise, Others, Session, FoldedOf
<1>3. Session(s)'
  BY <1>1, <1>2 DEF Session, Pcs
<1>4. Phases(s)' /\ Answered(s)'
  BY <1>1, <1>2 DEF Phases, Answered
<1>5. UNCHANGED <<slots, free, oom, overlap>>
  BY DEF Optimise
<1> QED BY <1>1, <1>2, <1>3, <1>4, <1>5, QuietStep

\* The executor's loop: which rows are left, and that their dates are dates.
LEMMA LoopFacts ==
  ASSUME InsertInv, NEW s \in Sessions, sess[s].pc \in {"execute", "insert"}
  PROVE  /\ Session(s) /\ sess[s].stmt \in Foldable /\ sess[s].rows = FoldedOf[sess[s].stmt]
         /\ Len(sess[s].stmt.rows) \in Nat \ {0}
         /\ RowsLeft(s) <=> sess[s].nr \in 1 .. Len(sess[s].stmt.rows)
         /\ ~RowsLeft(s) => sess[s].nr = Len(sess[s].stmt.rows) + 1
         /\ RowsLeft(s) => DatesParse(sess[s].stmt, RowNow(s))
<1>1. Session(s) /\ sess[s].stmt \in Foldable /\ sess[s].rows = FoldedOf[sess[s].stmt]
  BY DEF InsertInv, Phases
<1>2. /\ Len(sess[s].stmt.rows) \in Nat \ {0}
      /\ DOMAIN sess[s].stmt.rows = 1 .. Len(sess[s].stmt.rows)
      /\ DOMAIN sess[s].rows = 1 .. Len(sess[s].stmt.rows)
  BY <1>1, RowCount DEF Session, FoldedOf
<1>3. RowsLeft(s) <=> sess[s].nr \in 1 .. Len(sess[s].stmt.rows)
  BY <1>2 DEF RowsLeft
<1>4. ~RowsLeft(s) => sess[s].nr = Len(sess[s].stmt.rows) + 1
  BY <1>1, <1>2, <1>3 DEF Session
<1>5. RowsLeft(s) => DatesParse(sess[s].stmt, RowNow(s))
  BY <1>1, <1>2, <1>3, DatesAreDates DEF RowNow, Session, Foldable, Admitted, Accepted, FoldedOf
<1> QED BY <1>1, <1>2, <1>3, <1>4, <1>5

LEMMA EndStep ==
  ASSUME InsertInv, NEW s \in Sessions, RowAllocFails(s) \/ RowFails(s) \/ Finish(s)
  PROVE  InsertInv'
<1>1. sess[s].pc = "execute" /\ oom \in BOOLEAN
  BY DEF InsertInv, TypeInv, RowAllocFails, RowFails, Finish, At
<1>2. CASE RowAllocFails(s)
  BY <1>1, <1>2, AnswerStep DEF RowAllocFails, Fails
<1>3. CASE RowFails(s)
  <2>1. Fails /\ Answer(s, "error", 0) /\ UNCHANGED <<slots, free, overlap>>
    BY <1>1, <1>3, LoopFacts DEF RowFails
  <2> QED BY <1>1, <2>1, AnswerStep DEF Fails
<1>4. CASE Finish(s)
  <2>1. sess[s].nr = Len(sess[s].stmt.rows) + 1
    BY <1>1, <1>4, LoopFacts DEF Finish
  <2> QED BY <1>1, <1>4, <2>1, AnswerStep DEF Finish
<1> QED BY <1>2, <1>3, <1>4

\* The session enters table_insert_row; if it is not alone there, overlap says
\* so.
LEMMA BeginRowStep ==
  ASSUME InsertInv, NEW s \in Sessions, BeginRow(s) PROVE InsertInv'
<1>1. /\ sess[s].pc = "execute" /\ RowsLeft(s) /\ free < MaxSlots /\ TypeInv
      /\ sess = [t \in Sessions |-> sess[t]] /\ UNCHANGED <<slots, free, oom>>
  BY DEF InsertInv, TypeInv, BeginRow, At
<1>2. /\ Session(s) /\ sess[s].stmt \in Foldable /\ sess[s].rows = FoldedOf[sess[s].stmt]
  BY <1>1, LoopFacts
<1>3. /\ sess' = [t \in Sessions |-> sess'[t]] /\ Others(s)
      /\ sess'[s] = [pc |-> "insert", stmt |-> sess[s].stmt, rows |-> sess[s].rows, nr |-> sess[s].nr,
                     slot |-> free + 1, answer |-> sess[s].answer, aff |-> sess[s].aff]
  BY <1>1, <1>2 DEF BeginRow, Others, Session
<1>4. TypeInv'
  BY <1>1, <1>3 DEF TypeInv, BeginRow
<1>5. ASSUME NEW t \in Sessions PROVE Session(t)' /\ Phases(t)' /\ Answered(t)'
  <2>1. CASE t = s
    <3>1. Session(s)'
      BY <1>1, <1>2, <1>3 DEF Session, Pcs, TypeInv
    <3>2. Phases(s)' /\ Answered(s)'
      BY <1>1, <1>2, <1>3 DEF Phases, Answered, RowsLeft
    <3> QED BY <2>1, <3>1, <3>2
  <2>2. CASE t # s
    <3>1. sess'[t] = sess[t] /\ Session(t) /\ Phases(t) /\ Answered(t)
      BY <1>3, <2>2 DEF InsertInv, Others
    <3> QED BY <1>1, <3>1 DEF Session, Phases, Answered, RowsLeft
  <2> QED BY <2>1, <2>2
<1>6. ASSUME ~overlap' PROVE SlotsTaken' /\ \A t \in Sessions : RowsNumbered(t)'
  <2>1. SlotsTaken /\ \A t \in Sessions : RowsNumbered(t) /\ sess[t].pc # "insert"
    BY <1>6 DEF InsertInv, BeginRow
  <2>2. \A t \in Sessions : sess'[t].nr = sess[t].nr /\ (t # s => sess'[t].pc # "insert")
    BY <1>3, <2>1 DEF Others
  <2>3. \A t \in Sessions : RowsOf(t)' = RowsOf(t)
    BY <1>1 DEF RowsOf
  <2> QED BY <1>1, <1>3, <2>1, <2>2, <2>3 DEF SlotsTaken, RowsNumbered
<1> QED BY <1>4, <1>5, <1>6 DEF InsertInv

\* The row goes into the slot that was found, and the offset moves on.
LEMMA StoreRowStep ==
  ASSUME InsertInv, NEW s \in Sessions, StoreRow(s) PROVE InsertInv'
<1> DEFINE row == [by |-> s, nr |-> sess[s].nr, cells |-> BuiltCells(sess[s].stmt, RowNow(s))]
<1>1. /\ sess[s].pc = "insert" /\ RowsLeft(s) /\ TypeInv /\ sess = [t \in Sessions |-> sess[t]]
      /\ slots' = [slots EXCEPT ![sess[s].slot] = row] /\ free' = free + 1
      /\ UNCHANGED <<oom, overlap>>
  BY DEF InsertInv, TypeInv, Phases, StoreRow, At
<1>2. /\ Session(s) /\ sess[s].stmt \in Foldable /\ sess[s].rows = FoldedOf[sess[s].stmt]
      /\ sess[s].nr \in 1 .. Len(sess[s].stmt.rows) /\ Len(sess[s].stmt.rows) \in Nat
  BY <1>1, LoopFacts
<1>3. /\ sess' = [t \in Sessions |-> sess'[t]] /\ Others(s)
      /\ sess'[s] = [pc |-> "execute", stmt |-> sess[s].stmt, rows |-> sess[s].rows, nr |-> sess[s].nr + 1,
                     slot |-> sess[s].slot, answer |-> sess[s].answer, aff |-> sess[s].aff]
  BY <1>1, <1>2 DEF StoreRow, Others, Session
<1>4. row # Empty /\ row.by = s /\ row.nr = sess[s].nr
  <2>1. row.nr # Empty.nr
    BY <1>2 DEF Empty
  <2> QED BY <2>1
<1> HIDE DEF row
<1>5. TypeInv'
  <2>1. slots = [i \in 1 .. MaxSlots |-> slots[i]] /\ free \in Nat /\ oom \in BOOLEAN /\ overlap \in BOOLEAN
    BY <1>1 DEF TypeInv
  <2>2. slots' = [i \in 1 .. MaxSlots |-> slots'[i]]
    BY <1>1, <2>1
  <2>3. free' \in Nat /\ oom' \in BOOLEAN /\ overlap' \in BOOLEAN
    BY <1>1, <2>1
  <2> QED BY <1>3, <2>2, <2>3 DEF TypeInv
<1>6. ASSUME NEW t \in Sessions PROVE Session(t)' /\ Phases(t)' /\ Answered(t)'
  <2>1. CASE t = s
    <3>1. Session(s)'
      BY <1>2, <1>3 DEF Session, Pcs
    <3>2. Phases(s)' /\ Answered(s)'
      BY <1>2, <1>3 DEF Phases, Answered
    <3> QED BY <2>1, <3>1, <3>2
  <2>2. CASE t # s
    <3>1. sess'[t] = sess[t] /\ Session(t) /\ Phases(t) /\ Answered(t)
      BY <1>3, <2>2 DEF InsertInv, Others
    <3> QED BY <1>1, <3>1 DEF Session, Phases, Answered, RowsLeft
  <2> QED BY <2>1, <2>2
<1>7. ASSUME ~overlap' PROVE SlotsTaken' /\ \A t \in Sessions : RowsNumbered(t)'
  <2> DEFINE k == free + 1
  <2>1. SlotsTaken /\ \A t \in Sessions : RowsNumbered(t)
    BY <1>1, <1>7 DEF InsertInv
  <2>2. /\ k \in 1 .. MaxSlots /\ sess[s].slot = k /\ slots[k] = Empty
        /\ \A t \in Sessions : sess[t].pc = "insert" => t = s
    BY <1>1, <2>1, InsertAssumption DEF SlotsTaken, TypeInv
  <2>3. /\ DOMAIN slots = 1 .. MaxSlots /\ DOMAIN slots' = 1 .. MaxSlots
        /\ slots'[k] = row /\ \A i \in 1 .. MaxSlots : i # k => slots'[i] = slots[i]
    BY <1>1, <2>2 DEF TypeInv
  <2>4. SlotsTaken'
    <3>1. \A i \in 1 .. MaxSlots : i <= free + 1 <=> slots'[i] # Empty
      BY <1>1, <1>4, <2>1, <2>2, <2>3 DEF SlotsTaken, TypeInv
    <3>2. \A t \in Sessions : sess'[t].pc # "insert"
      BY <1>3, <2>2 DEF Others
    <3>3. Empty' = Empty
      BY DEF Empty
    <3> QED BY <1>1, <3>1, <3>2, <3>3 DEF SlotsTaken
  <2>5. RowsOf(s)' = RowsOf(s) \cup {k} /\ k \notin RowsOf(s)
    BY <1>4, <2>2, <2>3 DEF RowsOf
  <2>6. RowsNumbered(s)'
    <3>1. /\ \A i \in RowsOf(s) : i \in 1 .. MaxSlots /\ slots'[i] = slots[i]
          /\ slots'[k].nr = sess[s].nr /\ sess'[s].nr = sess[s].nr + 1 /\ sess[s].nr \in Nat \ {0}
      BY <1>2, <1>3, <1>4, <2>3, <2>5 DEF RowsOf
    <3>2. RowsNumbered(s)
      BY <2>1
    <3> HIDE DEF k
    <3>3. \A i \in RowsOf(s)' : slots'[i].nr \in 1 .. sess'[s].nr - 1
      BY <2>5, <3>1, <3>2 DEF RowsNumbered
    <3>4. \A n \in 1 .. sess'[s].nr - 1 : \E i \in RowsOf(s)' : slots'[i].nr = n
      BY <2>5, <3>1, <3>2 DEF RowsNumbered
    <3>5. \A i, j \in RowsOf(s)' : slots'[i].nr = slots'[j].nr => i = j
      BY <2>5, <3>1, <3>2 DEF RowsNumbered
    <3> QED BY <3>3, <3>4, <3>5 DEF RowsNumbered
  <2>7. ASSUME NEW t \in Sessions, t # s PROVE RowsNumbered(t)'
    <3>1. RowsOf(t)' = RowsOf(t) /\ k \notin RowsOf(t)
      BY <1>4, <2>2, <2>3, <2>7 DEF RowsOf
    <3>2. sess'[t] = sess[t] /\ \A i \in RowsOf(t) : slots'[i] = slots[i]
      BY <1>3, <2>3, <2>7, <3>1 DEF Others, RowsOf
    <3> QED BY <2>1, <3>1, <3>2 DEF RowsNumbered
  <2> QED BY <2>4, <2>6, <2>7
<1> QED BY <1>5, <1>6, <1>7 DEF InsertInv

----------------------------------------------------------------------------
(* The cells *)

CellsOf(stmt, nr) == BuiltCells(stmt, FoldedOf[stmt][nr])

\* Whatever the sessions did to each other, a slot in use holds the cells of a
\* row of a statement that was let through.
CellsWritten ==
  \A i \in 1 .. MaxSlots : slots[i] # Empty =>
    LET s == slots[i].by IN
      /\ s \in Sessions
      /\ sess[s].stmt \in Foldable
      /\ slots[i].nr \in 1 .. Len(sess[s].stmt.rows)
      /\ slots[i].cells = CellsOf(sess[s].stmt, slots[i].nr)

\* The process has ended on a statement that the analyser let through.
EndedByFolding ==
  down => \E s \in Sessions : sess[s].stmt \in Admitted /\ FoldingAborts(sess[s].stmt)

CellsInv == CellsWritten /\ EndedByFolding

\* No step changes a session's statement.
LEMMA StatementsStay ==
  ASSUME InsertInv, NEW s \in Sessions,
         \/ Accept(s) \/ Refuse(s) \/ AnalysisFails(s) \/ Optimise(s) \/ OptimiseAborts(s)
         \/ BeginRow(s) \/ StoreRow(s) \/ RowAllocFails(s) \/ RowFails(s) \/ Finish(s)
  PROVE  \A t \in Sessions : sess'[t].stmt = sess[t].stmt
<1>1. Session(s) /\ sess = [t \in Sessions |-> sess[t]]
  BY DEF InsertInv, TypeInv
<1>2. CASE Accept(s)
  <2>1. Goto(s, "optimise")
    BY <1>2 DEF Accept
  <2>2. /\ Others(s)
        /\ sess'[s] = [pc |-> "optimise", stmt |-> sess[s].stmt, rows |-> sess[s].rows, nr |-> sess[s].nr,
                       slot |-> sess[s].slot, answer |-> sess[s].answer, aff |-> sess[s].aff]
    BY <2>1, GotoFacts
  <2>3. sess'[s].stmt = sess[s].stmt
    BY <2>2
  <2> QED BY <2>2, <2>3 DEF Others
<1>3. CASE Refuse(s) \/ AnalysisFails(s) \/ RowAllocFails(s) \/ RowFails(s) \/ Finish(s)
  <2>1. ASSUME NEW answer, NEW aff, Answer(s, answer, aff)
        PROVE  \A t \in Sessions : sess'[t].stmt = sess[t].stmt
    <3>1. /\ Others(s)
          /\ sess'[s] = [pc |-> "answered", stmt |-> sess[s].stmt, rows |-> sess[s].rows, nr |-> sess[s].nr,
                         slot |-> sess[s].slot, answer |-> answer, aff |-> aff]
      BY <2>1, AnswerFacts
    <3>2. sess'[s].stmt = sess[s].stmt
      BY <3>1
    <3> QED BY <3>1, <3>2 DEF Others
  <2>2. \/ Answer(s, "error", 0) \/ Answer(s, "executed", 0)
        \/ Answer(s, "executed", Len(sess[s].stmt.rows))
    BY <1>3 DEF Refuse, AnalysisFails, RowAllocFails, RowFails, Finish
  <2> QED BY <2>1, <2>2
<1>4. CASE Optimise(s)
  BY <1>1, <1>4 DEF Optimise, Session
<1>5. CASE BeginRow(s)
  BY <1>1, <1>5 DEF BeginRow, Session
<1>6. CASE StoreRow(s)
  BY <1>1, <1>6 DEF StoreRow, Session
<1>7. CASE OptimiseAborts(s)
  BY <1>7 DEF OptimiseAborts
<1> QED BY <1>2, <1>3, <1>4, <1>5, <1>6, <1>7

LEMMA CellsInitInv == InsertInit => CellsInv
BY DEF InsertInit, CellsInv, CellsWritten, EndedByFolding

LEMMA StoreRowCells ==
  ASSUME InsertInv, CellsInv, NEW s \in Sessions, StoreRow(s) PROVE CellsInv'
<1> DEFINE row == [by |-> s, nr |-> sess[s].nr, cells |-> BuiltCells(sess[s].stmt, RowNow(s))]
<1>1. /\ sess[s].pc = "insert" /\ RowsLeft(s) /\ slots = [i \in 1 .. MaxSlots |-> slots[i]]
      /\ \A t \in Sessions : sess'[t].stmt = sess[t].stmt
  BY StatementsStay DEF InsertInv, TypeInv, Phases, StoreRow, At
<1>2. /\ sess[s].stmt \in Foldable /\ sess[s].rows = FoldedOf[sess[s].stmt]
      /\ sess[s].nr \in 1 .. Len(sess[s].stmt.rows)
  BY <1>1, LoopFacts
<1>3. row.by = s /\ row.nr = sess[s].nr /\ row.cells = CellsOf(sess[s].stmt, sess[s].nr)
  BY <1>2 DEF CellsOf, RowNow
<1>4. \A i \in 1 .. MaxSlots : slots'[i] = row \/ slots'[i] = slots[i]
  BY <1>1 DEF StoreRow
<1> HIDE DEF row
<1>5. CellsWritten'
  <2> SUFFICES ASSUME NEW i \in 1 .. MaxSlots, slots'[i] # Empty
               PROVE  LET t == slots'[i].by IN
                        /\ t \in Sessions
                        /\ sess'[t].stmt \in Foldable
                        /\ slots'[i].nr \in 1 .. Len(sess'[t].stmt.rows)
                        /\ slots'[i].cells = CellsOf(sess'[t].stmt, slots'[i].nr)
    BY DEF CellsWritten, Empty, Foldable, Admitted, CellsOf, FoldedOf
  <2>1. CASE slots'[i] = row
    BY <1>1, <1>2, <1>3, <2>1
  <2>2. CASE slots'[i] = slots[i]
    BY <1>1, <2>2 DEF CellsInv, CellsWritten
  <2> QED BY <1>4, <2>1, <2>2
<1>6. EndedByFolding'
  BY <1>1 DEF CellsInv, EndedByFolding, StoreRow
<1> QED BY <1>5, <1>6 DEF CellsInv

LEMMA CellsNextInv == InsertInv /\ CellsInv /\ [Next]_vars => CellsInv'
<1> SUFFICES ASSUME InsertInv, CellsInv, [Next]_vars PROVE CellsInv'
  OBVIOUS
<1>1. ASSUME NEW s \in Sessions, StoreRow(s) PROVE CellsInv'
  BY <1>1, StoreRowCells
<1>2. ASSUME NEW s \in Sessions,
             \/ Accept(s) \/ Refuse(s) \/ AnalysisFails(s) \/ Optimise(s)
             \/ BeginRow(s) \/ RowAllocFails(s) \/ RowFails(s) \/ Finish(s)
      PROVE  CellsInv'
  <2>1. slots' = slots /\ down' = down
    BY <1>2 DEF Accept, Refuse, AnalysisFails, Optimise, BeginRow, RowAllocFails, RowFails, Finish
  <2>2. \A t \in Sessions : sess'[t].stmt = sess[t].stmt
    BY <1>2, StatementsStay
  <2> QED BY <2>1, <2>2 DEF CellsInv, CellsWritten, EndedByFolding
<1>3. ASSUME NEW s \in Sessions, OptimiseAborts(s) PROVE CellsInv'
  <2>1. sess[s].stmt \in Admitted /\ FoldingAborts(sess[s].stmt)
    BY <1>3 DEF InsertInv, Phases, OptimiseAborts, At
  <2> QED BY <1>3, <2>1 DEF OptimiseAborts, CellsInv, CellsWritten, EndedByFolding
<1>4. CASE AllAnswered \/ UNCHANGED vars
  BY <1>4 DEF AllAnswered, vars, CellsInv, CellsWritten, EndedByFolding
<1> QED BY <1>1, <1>2, <1>3, <1>4 DEF Next

----------------------------------------------------------------------------
(* What the statement says of a cell *)

Names(stmt) == IF stmt.cols = <<>> THEN [i \in ColumnIds |-> Columns[i].name] ELSE stmt.cols

\* The separate column order finds the column of each name, and each once.
LEMMA OrderFacts ==
  ASSUME NEW stmt \in Admitted
  PROVE  /\ DOMAIN ColumnOrder(stmt) = DOMAIN Names(stmt)
         /\ \A r \in DOMAIN stmt.rows : DOMAIN stmt.rows[r] = DOMAIN Names(stmt)
         /\ \A i \in DOMAIN Names(stmt) : ColumnOrder(stmt)[i] \in ColumnIds
         /\ \A i \in DOMAIN Names(stmt) : \A c \in ColumnIds :
              ColumnOrder(stmt)[i] = c <=> Names(stmt)[i] = Columns[c].name
         /\ \A i, j \in DOMAIN Names(stmt) : Names(stmt)[i] = Names(stmt)[j] => i = j
<1>1. /\ stmt \in Statements /\ SameNumberOfTerms(stmt) /\ ColumnListValid(stmt)
      /\ DOMAIN stmt.cols = 1 .. Len(stmt.cols) /\ DOMAIN Columns = 1 .. Len(Columns)
      /\ \A r \in DOMAIN stmt.rows : DOMAIN stmt.rows[r] = 1 .. Len(stmt.rows[r])
      /\ \A c, b \in ColumnIds : Columns[c].name = Columns[b].name => c = b
  BY InsertAssumption, StatementAssumption DEF Admitted, Accepted, ColumnIds
<1>2. \A r \in DOMAIN stmt.rows : DOMAIN stmt.rows[r] = DOMAIN Names(stmt)
  BY <1>1 DEF SameNumberOfTerms, Names, ColumnIds
<1>3. CASE stmt.cols = <<>>
  <2>1. Names(stmt) = [i \in ColumnIds |-> Columns[i].name] /\ ColumnOrder(stmt) = [i \in ColumnIds |-> i]
    BY <1>3 DEF Names, ColumnOrder
  <2> QED BY <1>1, <1>2, <2>1
<1>4. CASE stmt.cols # <<>>
  <2>1. /\ Names(stmt) = stmt.cols
        /\ ColumnOrder(stmt) = [i \in DOMAIN stmt.cols |-> CHOOSE c \in ColumnIds : c \in Named(stmt.cols[i])]
    BY <1>4 DEF Names, ColumnOrder
  <2>2. \A i \in DOMAIN stmt.cols : ColumnOrder(stmt)[i] \in ColumnIds /\ ColumnOrder(stmt)[i] \in Named(stmt.cols[i])
    <3> SUFFICES ASSUME NEW i \in DOMAIN stmt.cols
                 PROVE  ColumnOrder(stmt)[i] \in ColumnIds /\ ColumnOrder(stmt)[i] \in Named(stmt.cols[i])
      OBVIOUS
    <3>1. \E c \in ColumnIds : c \in Named(stmt.cols[i])
      BY <1>1 DEF ColumnListValid, Named
    <3>2. ColumnOrder(stmt)[i] = CHOOSE c \in ColumnIds : c \in Named(stmt.cols[i])
      BY <2>1
    <3> QED BY <3>1, <3>2
  <2>3. \A i \in DOMAIN stmt.cols : Columns[ColumnOrder(stmt)[i]].name = stmt.cols[i]
    BY <2>2 DEF Named
  <2>4. \A i, j \in DOMAIN stmt.cols : stmt.cols[i] = stmt.cols[j] => i = j
    BY <1>1 DEF ColumnListValid
  <2>5. DOMAIN ColumnOrder(stmt) = DOMAIN stmt.cols
    BY <2>1
  <2> QED BY <1>1, <1>2, <2>1, <2>2, <2>3, <2>4, <2>5
<1> QED BY <1>3, <1>4

\* The cell is NULL, or it is the one term that the row has for the column,
\* folded.
LEMMA CellGiven ==
  ASSUME NEW stmt \in Foldable, NEW nr \in 1 .. Len(stmt.rows), NEW c \in ColumnIds
  PROVE  LET cell == CellsOf(stmt, nr)[c] IN
         \/ Given(stmt, nr, c) = {} /\ cell = NullLit /\ Columns[c].nullable
         \/ \E e \in Exprs :
              /\ Given(stmt, nr, c) = {e} /\ cell = Folded(e) /\ cell # Aborted
              /\ ValueFits(Columns[c], e)
              /\ e.op = "null" => Columns[c].nullable
<1> DEFINE order == ColumnOrder(stmt)
           row == FoldedRows(stmt)[nr]
<1>1. /\ stmt \in Admitted /\ stmt \in Statements /\ ~FoldingAborts(stmt) /\ nr \in DOMAIN stmt.rows
      /\ NotNullGiven(stmt) /\ ValuesFit(stmt)
  BY RowCount DEF Foldable, Admitted, Accepted
<1>2. /\ row = [i \in DOMAIN stmt.rows[nr] |-> Folded(stmt.rows[nr][i])]
      /\ DOMAIN row = DOMAIN order /\ DOMAIN row = DOMAIN Names(stmt)
  BY <1>1, OrderFacts DEF FoldedRows
<1>3. CellsOf(stmt, nr)[c] = IF \E i \in DOMAIN row : order[i] = c
                            THEN row[CHOOSE i \in DOMAIN row : order[i] = c] ELSE NullLit
  BY <1>1 DEF CellsOf, FoldedOf, BuiltCells
<1>4. Given(stmt, nr, c) = {stmt.rows[nr][i] : i \in {j \in DOMAIN row : order[j] = c}}
  <2>1. Given(stmt, nr, c) = {stmt.rows[nr][i] : i \in {j \in DOMAIN Names(stmt) : Names(stmt)[j] = Columns[c].name}}
    BY DEF Given, Names
  <2>2. {j \in DOMAIN Names(stmt) : Names(stmt)[j] = Columns[c].name} = {j \in DOMAIN row : order[j] = c}
    BY <1>1, <1>2, OrderFacts
  <2> QED BY <2>1, <2>2
<1> HIDE DEF order, row
<1>5. CASE ~\E i \in DOMAIN row : order[i] = c
  <2>1. Given(stmt, nr, c) = {} /\ CellsOf(stmt, nr)[c] = NullLit
    BY <1>3, <1>4, <1>5
  <2>2. Columns[c].nullable
    BY <1>1, <1>2, <1>5 DEF NotNullGiven, order
  <2> QED BY <2>1, <2>2
<1>6. CASE \E i \in DOMAIN row : order[i] = c
  <2>1. PICK i \in DOMAIN row : order[i] = c
    BY <1>6
  <2>2. \A j \in DOMAIN row : order[j] = c => j = i
    BY <1>1, <1>2, <2>1, OrderFacts DEF order
  <2>3. {j \in DOMAIN row : order[j] = c} = {i} /\ (CHOOSE j \in DOMAIN row : order[j] = c) = i
    BY <2>1, <2>2
  <2> DEFINE e == stmt.rows[nr][i]
  <2>4. Given(stmt, nr, c) = {e} /\ CellsOf(stmt, nr)[c] = row[i] /\ row[i] = Folded(e) /\ i \in DOMAIN stmt.rows[nr]
    BY <1>2, <1>3, <1>4, <1>6, <2>3
  <2>5. e \in Exprs /\ Folded(e) # Aborted
    BY <1>1, <2>4, StatementAssumption DEF FoldingAborts
  <2>6. ValueFits(Columns[c], e) /\ (e.op = "null" => Columns[c].nullable)
    BY <1>1, <2>1, <2>4 DEF ValuesFit, NotNullGiven, order
  <2> HIDE DEF e
  <2> QED BY <2>4, <2>5, <2>6
<1> QED BY <1>5, <1>6

\* An expression for a column has operands of one type only.
LEMMA FoldedFits ==
  ASSUME NEW e \in Exprs, NEW column, IsExpr(e), ValueFits(column, e)
  PROVE  /\ Fits[e] /\ Resolved[e] # Aborted =>
              /\ Means(Resolved[e], e)
              /\ Resolved[e] = NullLit => Meaning[e] = NoValue
         /\ ~Undefined[e] => Resolved[e] # Aborted
<1>1. PICK T \in {"int", "approx"} : \A leaf \in Leaves[e] : leaf.op = T
  <2>1. MathFits(column, e)
    BY DEF ValueFits, IsExpr, Binary
  <2> DEFINE T == IF column.type = "INTEGER" THEN "int" ELSE "approx"
  <2>2. T \in {"int", "approx"} /\ \A leaf \in Leaves[e] : leaf.op = T
    BY <2>1 DEF MathFits
  <2> HIDE DEF T
  <2> QED BY <2>2
<1>2. /\ Fits[e] /\ Resolved[e] # Aborted => Equals(T, Resolved[e], Meaning[e])
      /\ ~Undefined[e] => Resolved[e] # Aborted
  BY <1>1, FoldedAsMeant
<1>3. NullLit.op = "null"
  BY LitFields
<1> QED BY <1>2, <1>3 DEF Equals, Means

----------------------------------------------------------------------------
(* The theorems *)

LEMMA InsertInitInv == InsertInit => InsertInv
<1> SUFFICES ASSUME InsertInit PROVE InsertInv
  OBVIOUS
<1>1. \A s \in Sessions : \E stmt \in Statements :
        sess[s] = [pc |-> "analyse", stmt |-> stmt, rows |-> stmt.rows, nr |-> 1, slot |-> 0,
                   answer |-> "none", aff |-> 0]
  BY DEF InsertInit
<1>2. TypeInv
  BY DEF InsertInit, TypeInv
<1>3. ASSUME NEW s \in Sessions PROVE Session(s) /\ Phases(s) /\ Answered(s)
  <2>1. PICK stmt \in Statements :
          sess[s] = [pc |-> "analyse", stmt |-> stmt, rows |-> stmt.rows, nr |-> 1, slot |-> 0,
                     answer |-> "none", aff |-> 0]
    BY <1>1
  <2> QED BY <2>1, RowCount DEF Session, Phases, Answered, Pcs
<1>4. SlotsTaken
  BY <1>1, InsertAssumption DEF InsertInit, SlotsTaken
<1>5. ASSUME NEW s \in Sessions PROVE RowsNumbered(s)
  <2>1. RowsOf(s) = {} /\ sess[s].nr = 1
    BY <1>1 DEF InsertInit, RowsOf
  <2> QED BY <2>1 DEF RowsNumbered
<1> QED BY <1>2, <1>3, <1>4, <1>5 DEF InsertInv

LEMMA InsertNextInv == InsertInv /\ [Next]_vars => InsertInv'
<1> SUFFICES ASSUME InsertInv, [Next]_vars PROVE InsertInv'
  OBVIOUS
<1>1. ASSUME NEW s \in Sessions, Accept(s) \/ Refuse(s) \/ AnalysisFails(s) PROVE InsertInv'
  BY <1>1, AnalyseStep
<1>2. ASSUME NEW s \in Sessions, Optimise(s) PROVE InsertInv'
  BY <1>2, OptimiseStep
<1>3. ASSUME NEW s \in Sessions, BeginRow(s) PROVE InsertInv'
  BY <1>3, BeginRowStep
<1>4. ASSUME NEW s \in Sessions, StoreRow(s) PROVE InsertInv'
  BY <1>4, StoreRowStep
<1>5. ASSUME NEW s \in Sessions, RowAllocFails(s) \/ RowFails(s) \/ Finish(s) PROVE InsertInv'
  BY <1>5, EndStep
<1>6. CASE AllAnswered \/ UNCHANGED vars \/ \E s \in Sessions : OptimiseAborts(s)
  <2>1. UNCHANGED <<slots, free, sess, oom, overlap>>
    BY <1>6 DEF AllAnswered, vars, OptimiseAborts
  <2>2. \A s \in Sessions : RowsOf(s)' = RowsOf(s)
    BY <2>1 DEF RowsOf
  <2> QED BY <2>1, <2>2 DEF InsertInv, TypeInv, Session, Phases, Answered, SlotsTaken,
                            RowsNumbered, RowsLeft
<1> QED BY <1>1, <1>2, <1>3, <1>4, <1>5, <1>6 DEF Next

\* As many rows are in the table as the statement has put there.
LEMMA RowsCounted ==
  ASSUME NEW s \in Sessions, RowsNumbered(s), sess[s].nr \in Nat \ {0}
  PROVE  /\ Cardinality(RowsOf(s)) = sess[s].nr - 1
         /\ {slots[i].nr : i \in RowsOf(s)} = 1 .. sess[s].nr - 1
<1> DEFINE n == sess[s].nr - 1
           f == [k \in 1 .. n |-> CHOOSE i \in RowsOf(s) : slots[i].nr = k]
<1>1. \A k \in 1 .. n : f[k] \in RowsOf(s) /\ slots[f[k]].nr = k
  BY DEF RowsNumbered
<1>2. f \in Bijection(1 .. n, RowsOf(s))
  <2>1. \A i \in RowsOf(s) : slots[i].nr \in 1 .. n /\ f[slots[i].nr] = i
    BY <1>1 DEF RowsNumbered
  <2>2. f \in [1 .. n -> RowsOf(s)]
    BY <1>1
  <2> HIDE DEF f
  <2> QED BY <1>1, <2>1, <2>2 DEF Bijection, Injection, Surjection, IsInjective
<1>3. Cardinality(RowsOf(s)) = n
  BY <1>2, FS_CountingElements DEF ExistsBijection
<1> QED BY <1>1, <1>3 DEF RowsNumbered

\* INSERT is all or nothing for its client, whatever fails: a client that is
\* told of n rows has each of its n rows in the table once, one that is told of
\* an error has none unless memory ran out - for every table, every statement
\* and any number of sessions that do not meet in table_insert_row.
THEOREM InsertAllOrNothing == Spec => []AllOrNothing
<1>1. InsertInv => AllOrNothing
  <2> SUFFICES ASSUME InsertInv, NEW s \in Sessions, sess[s].pc = "answered", ~overlap
               PROVE  LET rows == RowsOf(s) IN
                        /\ sess[s].aff > 0 =>
                             /\ sess[s].aff = Len(sess[s].stmt.rows)
                             /\ Cardinality(rows) = sess[s].aff
                             /\ {slots[i].nr : i \in rows} = DOMAIN sess[s].stmt.rows
                        /\ sess[s].answer = "executed" /\ sess[s].aff = 0 => oom
                        /\ sess[s].answer = "error" /\ ~oom => rows = {}
    BY DEF AllOrNothing
  <2>1. Session(s) /\ Answered(s) /\ RowsNumbered(s)
    BY DEF InsertInv
  <2>2. /\ Len(sess[s].stmt.rows) \in Nat \ {0} /\ sess[s].nr \in Nat \ {0}
        /\ DOMAIN sess[s].stmt.rows = 1 .. Len(sess[s].stmt.rows)
    BY <2>1, RowCount DEF Session
  <2>3. /\ Cardinality(RowsOf(s)) = sess[s].nr - 1
        /\ {slots[i].nr : i \in RowsOf(s)} = 1 .. sess[s].nr - 1
    BY <2>1, <2>2, RowsCounted
  <2>4. ASSUME sess[s].aff > 0
        PROVE  /\ sess[s].aff = Len(sess[s].stmt.rows)
               /\ Cardinality(RowsOf(s)) = sess[s].aff
               /\ {slots[i].nr : i \in RowsOf(s)} = DOMAIN sess[s].stmt.rows
    <3>1. sess[s].aff = Len(sess[s].stmt.rows) /\ sess[s].nr = Len(sess[s].stmt.rows) + 1
      BY <2>1, <2>4 DEF Answered
    <3>2. sess[s].nr - 1 = Len(sess[s].stmt.rows)
      BY <2>2, <3>1
    <3> QED BY <2>2, <2>3, <3>1, <3>2
  <2>5. ASSUME sess[s].answer = "error", ~oom PROVE RowsOf(s) = {}
    <3>1. sess[s].nr = 1
      BY <2>1, <2>5 DEF Answered
    <3> QED BY <2>1, <3>1 DEF RowsNumbered
  <2>6. sess[s].answer = "executed" /\ sess[s].aff = 0 => oom
    BY <2>1 DEF Answered
  <2> QED BY <2>4, <2>5, <2>6
<1> QED BY <1>1, InsertInitInv, InsertNextInv, PTL DEF Spec

LEMMA InsertTyped == Spec => [](InsertInv /\ CellsInv)
<1>1. InsertInit => InsertInv /\ CellsInv
  BY InsertInitInv, CellsInitInv
<1>2. InsertInv /\ CellsInv /\ [Next]_vars => (InsertInv /\ CellsInv)'
  BY InsertNextInv, CellsNextInv
<1> QED BY <1>1, <1>2, PTL DEF Spec

\* The slots that are in use, and the statements they come from.
LEMMA SlotFacts ==
  ASSUME InsertInv, CellsInv, NEW i \in DOMAIN slots, slots[i] # Empty
  PROVE  LET stmt == sess[slots[i].by].stmt IN
           /\ stmt \in Foldable /\ slots[i].nr \in 1 .. Len(stmt.rows)
           /\ slots[i].cells = CellsOf(stmt, slots[i].nr)
<1>1. i \in 1 .. MaxSlots
  BY DEF InsertInv, TypeInv
<1> QED BY <1>1 DEF CellsInv, CellsWritten

\* Every cell in the table is what its statement has for that column: the
\* column list, the order of the columns, the folding of expressions operand by
\* operand and the rows in flight of other sessions, even in table_insert_row at
\* once, give no other value - for every table, statement and depth of
\* expressions and every width of int.
THEOREM InsertWritesRows == Spec => []RowsAsWritten
<1>1. InsertInv /\ CellsInv => RowsAsWritten
  <2> SUFFICES ASSUME InsertInv, CellsInv, NEW i \in DOMAIN slots, NEW c \in ColumnIds, slots[i] # Empty
               PROVE  LET cell == slots[i].cells[c]
                          given == Given(sess[slots[i].by].stmt, slots[i].nr, c)
                      IN  /\ given = {} => cell = NullLit
                          /\ \A e \in given :
                               IF IsExpr(e) THEN Fits[e] => Means(cell, e) ELSE cell = e
    BY DEF RowsAsWritten
  <2> DEFINE stmt == sess[slots[i].by].stmt
             cell == slots[i].cells[c]
             given == Given(stmt, slots[i].nr, c)
  <2>1. \/ given = {} /\ cell = NullLit
        \/ \E e \in Exprs : given = {e} /\ cell = Folded(e) /\ cell # Aborted /\ ValueFits(Columns[c], e)
    BY SlotFacts, CellGiven
  <2> HIDE DEF stmt, cell, given
  <2>2. ASSUME NEW e \in Exprs, given = {e}, cell = Folded(e), cell # Aborted, ValueFits(Columns[c], e)
        PROVE  IF IsExpr(e) THEN Fits[e] => Means(cell, e) ELSE cell = e
    BY <2>2, FoldedFits DEF Folded
  <2>3. /\ given = {} => cell = NullLit
        /\ \A e \in given : IF IsExpr(e) THEN Fits[e] => Means(cell, e) ELSE cell = e
    BY <2>1, <2>2
  <2> QED BY <2>3 DEF stmt, cell, given
<1> QED BY <1>1, InsertTyped, PTL

\* A NOT NULL column is NULL only where the expression for it has no value, or
\* an int overflowed in it: check_not_null_columns, which looks at the terms as
\* written and at the column list, misses nothing else.
THEOREM InsertKeepsNotNull == Spec => []NotNullKept
<1>1. InsertInv /\ CellsInv => NotNullKept
  <2> SUFFICES ASSUME InsertInv, CellsInv, NEW i \in DOMAIN slots, NEW c \in ColumnIds, slots[i] # Empty,
                      ~Columns[c].nullable, slots[i].cells[c] = NullLit
               PROVE  \E e \in Given(sess[slots[i].by].stmt, slots[i].nr, c) :
                        IsExpr(e) /\ (Meaning[e] = NoValue \/ ~Fits[e])
    BY DEF NotNullKept
  <2>1. PICK e \in Exprs : /\ Given(sess[slots[i].by].stmt, slots[i].nr, c) = {e}
                            /\ Folded(e) = NullLit /\ NullLit # Aborted
                            /\ ValueFits(Columns[c], e) /\ e.op # "null"
    BY SlotFacts, CellGiven
  <2>2. IsExpr(e)
    BY <2>1, LitFields DEF Folded
  <2> QED BY <2>1, <2>2, FoldedFits DEF Folded
<1> QED BY <1>1, InsertTyped, PTL

\* Folding ends the process only on a statement with an expression that is
\* undefined: a remainder by zero or, of DOUBLEs, of the least int by -1, NULL
\* where only the left operand may be NULL, or an overflow that may lead to either.
THEOREM InsertEndsOnUndefined == Spec => []DownOnlyOnUndefined
<1>1. InsertInv /\ CellsInv => DownOnlyOnUndefined
  <2> SUFFICES ASSUME InsertInv, CellsInv, down
               PROVE  \E s \in Sessions : \E r \in DOMAIN sess[s].stmt.rows :
                        \E i \in DOMAIN sess[s].stmt.rows[r] : Undefined[sess[s].stmt.rows[r][i]]
    BY DEF DownOnlyOnUndefined
  <2>1. PICK s \in Sessions : sess[s].stmt \in Admitted /\ FoldingAborts(sess[s].stmt)
    BY DEF CellsInv, EndedByFolding
  <2> DEFINE stmt == sess[s].stmt
  <2>2. PICK r \in DOMAIN stmt.rows : \E i \in DOMAIN stmt.rows[r] : Folded(stmt.rows[r][i]) = Aborted
    BY <2>1 DEF FoldingAborts
  <2>3. PICK i \in DOMAIN stmt.rows[r] : Folded(stmt.rows[r][i]) = Aborted
    BY <2>2
  <2> DEFINE e == stmt.rows[r][i]
  <2>4. /\ e \in Exprs /\ ValueFits(Columns[ColumnOrder(stmt)[i]], e)
        /\ IsExpr(e) \/ e.op \in {"int", "approx", "bool", "null", "str", "date"}
    BY <2>1, StatementAssumption DEF Admitted, Accepted, ValuesFit
  <2> HIDE DEF e
  <2>5. IsExpr(e) /\ Resolved[e] = Aborted
    BY <2>3, <2>4, LitFields DEF Folded, e
  <2>6. Undefined[e]
    BY <2>4, <2>5, FoldedFits
  <2> QED BY <2>6 DEF e
<1> QED BY <1>1, InsertTyped, PTL
=============================================================================
