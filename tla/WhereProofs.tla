---------------------------- MODULE WhereProofs ----------------------------
(***************************************************************************)
(* Proofs about Where and WhereMeaning, for every table, all conditions of *)
(* any depth, and any statements that these let through.                   *)
(***************************************************************************)
EXTENDS WhereMeaning, RankedRecursion, FiniteSetTheorems, SequenceTheorems

Joins(c) == c.node = "logop"

LEMMA ConditionForm ==
  \A c \in Conditions :
    /\ IsCondition(c) /\ Depth[c] \in Nat
    /\ Joins(c) => c.left \in Conditions /\ c.right \in Conditions
    /\ Joins(c) => c.left.node # "none" /\ c.right.node # "none"
    /\ Joins(c) => c.gate \in {"and", "or", "xor"}
    /\ Joins(c) => Depth[c.left] < Depth[c] /\ Depth[c.right] < Depth[c]
<1> SUFFICES ASSUME NEW c \in Conditions
             PROVE  /\ IsCondition(c) /\ Depth[c] \in Nat
                    /\ Joins(c) => c.left \in Conditions /\ c.right \in Conditions
                    /\ Joins(c) => c.left.node # "none" /\ c.right.node # "none"
                    /\ Joins(c) => c.gate \in {"and", "or", "xor"}
                    /\ Joins(c) => Depth[c.left] < Depth[c] /\ Depth[c.right] < Depth[c]
  OBVIOUS
<1>1. IsCondition(c) /\ Depth[c] \in Nat
  BY ConditionsAssumption
<1>2. Joins(c) => /\ c.gate \in {"and", "or", "xor"}
                  /\ \A d \in {c.left, c.right} : d \in Conditions /\ d.node # "none" /\ Depth[d] < Depth[c]
  BY <1>1 DEF IsCondition, Joins
<1> QED BY <1>1, <1>2

\* What holds of a condition when it holds of the two that it joins holds of all.
LEMMA CondInduction ==
  ASSUME NEW G \in SUBSET Conditions,
         \A c \in Conditions : (Joins(c) => c.left \in G /\ c.right \in G) => c \in G
  PROVE  G = Conditions
<1>1. Depth \in [Conditions -> Nat]
  BY ConditionsAssumption
<1>2. ASSUME NEW c \in Conditions, \A d \in Conditions : Depth[d] < Depth[c] => d \in G PROVE c \in G
  BY <1>2, ConditionForm
<1> QED BY ONLY <1>1, <1>2, RankInduction

PairsOf(V) == V \X V

Composed(leaf, join, f, c) == IF Joins(c) THEN join[c][<<f[c.left], f[c.right]>>] ELSE leaf[c]

\* A function that is given for leaves, and for what joins two by its values there.
LEMMA CondRecursion ==
  ASSUME NEW V, V # {}, NEW leaf \in [Conditions -> V], NEW join \in [Conditions -> [PairsOf(V) -> V]]
  PROVE  \E f \in [Conditions -> V] :
           \A c \in Conditions : f[c] = Composed(leaf, join, f, c)
<1> DEFINE S == Conditions
           F == [f \in [S -> V] |->
                  [c \in S |-> IF Joins(c) THEN join[c][<<f[c.left], f[c.right]>>] ELSE leaf[c]]]
<1>1. Depth \in [S -> Nat]
  BY ConditionsAssumption
<1>2. F \in [[S -> V] -> [S -> V]]
  <2>1. ASSUME NEW f \in [S -> V], NEW c \in S
        PROVE  (IF Joins(c) THEN join[c][<<f[c.left], f[c.right]>>] ELSE leaf[c]) \in V
    <3>1. CASE Joins(c)
      <4>1. <<f[c.left], f[c.right]>> \in PairsOf(V)
        BY <3>1, ConditionForm DEF PairsOf
      <4> QED BY <3>1, <4>1
    <3> QED BY <3>1
  <2> QED BY <2>1
<1>3. ASSUME NEW f \in [S -> V], NEW g \in [S -> V], NEW c \in S,
             \A x \in S : Depth[x] < Depth[c] => f[x] = g[x]
      PROVE  F[f][c] = F[g][c]
  <2>1. CASE Joins(c)
    <3>1. f[c.left] = g[c.left] /\ f[c.right] = g[c.right]
      BY <1>3, <2>1, ConditionForm
    <3> QED BY <3>1
  <2>2. CASE ~Joins(c)
    BY <2>2
  <2> QED BY <2>1, <2>2
<1>4. FromLower(S, Depth, V, F)
  <2> HIDE DEF F
  <2> QED BY <1>1, <1>2, <1>3 DEF FromLower
<1>5. PICK f \in [S -> V] : f = F[f]
  <2> HIDE DEF F
  <2> QED BY <1>4, Recursion
<1> QED BY <1>5 DEF Composed

\* The definitions say what they seem to say: each is a solution of its equation.
LEMMA LeavesDef ==
  /\ Leaves \in [Conditions -> SUBSET Conditions]
  /\ \A c \in Conditions :
       Leaves[c] = IF Joins(c) THEN Leaves[c.left] \cup Leaves[c.right] ELSE IF c.node = "none" THEN {} ELSE {c}
<1> DEFINE V == SUBSET Conditions
           leaf == [c \in Conditions |-> IF c.node = "none" THEN {} ELSE {c}]
           join == [c \in Conditions |-> [v \in PairsOf(V) |-> v[1] \cup v[2]]]
<1>1. V # {} /\ leaf \in [Conditions -> V] /\ join \in [Conditions -> [PairsOf(V) -> V]]
  BY DEF PairsOf
<1>2. PICK f \in [Conditions -> V] :
        \A c \in Conditions : f[c] = Composed(leaf, join, f, c)
  <2> HIDE DEF V, leaf, join
  <2> QED BY ONLY <1>1, CondRecursion
<1>3. ASSUME NEW c \in Conditions
      PROVE  f[c] = IF Joins(c) THEN f[c.left] \cup f[c.right] ELSE IF c.node = "none" THEN {} ELSE {c}
  <2>1. f[c] = IF Joins(c) THEN join[c][<<f[c.left], f[c.right]>>] ELSE leaf[c]
    BY <1>2 DEF Composed
  <2>2. Joins(c) => <<f[c.left], f[c.right]>> \in PairsOf(V)
    BY ConditionForm DEF PairsOf
  <2> QED BY <2>1, <2>2
<1>4. f = [c \in Conditions |->
            CASE c.node = "logop" -> f[c.left] \cup f[c.right]
              [] c.node = "none" -> {}
              [] OTHER -> {c}]
  BY <1>3 DEF Joins
<1>5. Leaves = [c \in Conditions |->
            CASE c.node = "logop" -> Leaves[c.left] \cup Leaves[c.right]
              [] c.node = "none" -> {}
              [] OTHER -> {c}]
  BY <1>4 DEF Leaves
<1>6. \A c \in Conditions :
        Leaves[c] = IF Joins(c) THEN Leaves[c.left] \cup Leaves[c.right] ELSE IF c.node = "none" THEN {} ELSE {c}
  BY <1>5 DEF Joins
<1> DEFINE G == {c \in Conditions : Leaves[c] = f[c]}
<1>7. ASSUME NEW c \in Conditions, Joins(c) => c.left \in G /\ c.right \in G PROVE c \in G
  BY <1>3, <1>6, <1>7
<1>8. G = Conditions
  <2>1. G \in SUBSET Conditions
    OBVIOUS
  <2> HIDE DEF G
  <2> QED BY ONLY <1>7, <2>1, CondInduction
<1> QED BY <1>5, <1>6, <1>8

LEMMA ValueTypesDef ==
  \A c \in Conditions :
    ValueTypes[c] = IF Joins(c) THEN IF ValueTypes[c.left] = "accept" THEN ValueTypes[c.right] ELSE ValueTypes[c.left]
    ELSE IF c.node = "none" THEN "accept" ELSE LeafVerdict(c)
<1> DEFINE V == {LeafVerdict(c) : c \in Conditions} \cup {"accept"}
           leaf == [c \in Conditions |-> IF c.node = "none" THEN "accept" ELSE LeafVerdict(c)]
           join == [c \in Conditions |-> [v \in PairsOf(V) |-> IF v[1] = "accept" THEN v[2] ELSE v[1]]]
<1>1. V # {} /\ leaf \in [Conditions -> V] /\ join \in [Conditions -> [PairsOf(V) -> V]]
  BY DEF PairsOf
<1>2. PICK f \in [Conditions -> V] : \A c \in Conditions : f[c] = Composed(leaf, join, f, c)
  <2> HIDE DEF V, leaf, join
  <2> QED BY ONLY <1>1, CondRecursion
<1>3. ASSUME NEW c \in Conditions PROVE f[c] = IF Joins(c) THEN IF f[c.left] = "accept" THEN f[c.right] ELSE f[c.left]
    ELSE IF c.node = "none" THEN "accept" ELSE LeafVerdict(c)
  <2>1. Joins(c) => <<f[c.left], f[c.right]>> \in PairsOf(V)
    BY ConditionForm DEF PairsOf
  <2> QED BY <1>2, <2>1 DEF Composed
<1>4. f = [c \in Conditions |->
            CASE c.node = "logop" -> IF f[c.left] = "accept" THEN f[c.right] ELSE f[c.left]
              [] c.node = "none" -> "accept"
              [] OTHER -> LeafVerdict(c)]
  <2> HIDE DEF V
  <2> QED BY <1>3 DEF Joins
<1>5. ValueTypes = [c \in Conditions |->
            CASE c.node = "logop" -> IF ValueTypes[c.left] = "accept" THEN ValueTypes[c.right] ELSE ValueTypes[c.left]
              [] c.node = "none" -> "accept"
              [] OTHER -> LeafVerdict(c)]
  BY <1>4 DEF ValueTypes
<1> QED BY <1>5 DEF Joins

LeafSummary(c) ==
  CASE c.node = "cmp" -> CmpSummary(c)
    [] c.node = "isin" -> InSummary(c)
    [] c.node = "isnull" -> Summary(TRUE, FALSE, FALSE, TypeOf[c.arg.name])
    [] OTHER -> Summary(TRUE, FALSE, FALSE, "str")

Agreed == Summary(FALSE, FALSE, FALSE, "bool")
Disagreed == Summary(FALSE, TRUE, FALSE, "str")

LEMMA SummaryOfDef ==
  \A c \in Conditions :
    SummaryOf[c] = IF Joins(c) THEN IF SummaryOf[c.left] = SummaryOf[c.right] THEN Agreed ELSE Disagreed ELSE LeafSummary(c)
<1> DEFINE V == {LeafSummary(c) : c \in Conditions} \cup {Agreed, Disagreed}
           leaf == [c \in Conditions |-> LeafSummary(c)]
           join == [c \in Conditions |-> [v \in PairsOf(V) |-> IF v[1] = v[2] THEN Agreed ELSE Disagreed]]
<1>1. V # {} /\ leaf \in [Conditions -> V] /\ join \in [Conditions -> [PairsOf(V) -> V]]
  BY DEF PairsOf
<1>2. PICK f \in [Conditions -> V] : \A c \in Conditions : f[c] = Composed(leaf, join, f, c)
  <2> HIDE DEF V, leaf, join
  <2> QED BY ONLY <1>1, CondRecursion
<1>3. ASSUME NEW c \in Conditions PROVE f[c] = IF Joins(c) THEN IF f[c.left] = f[c.right] THEN Agreed ELSE Disagreed ELSE LeafSummary(c)
  <2>1. Joins(c) => <<f[c.left], f[c.right]>> \in PairsOf(V)
    BY ConditionForm DEF PairsOf
  <2> QED BY <1>2, <2>1 DEF Composed
<1>4. f = [c \in Conditions |->
            CASE c.node = "logop" ->
                   IF f[c.left] = f[c.right]
                   THEN Summary(FALSE, FALSE, FALSE, "bool") ELSE Summary(FALSE, TRUE, FALSE, "str")
              [] c.node = "cmp" -> CmpSummary(c)
              [] c.node = "isin" -> InSummary(c)
              [] c.node = "isnull" -> Summary(TRUE, FALSE, FALSE, TypeOf[c.arg.name])
              [] OTHER -> Summary(TRUE, FALSE, FALSE, "str")]
  <2> HIDE DEF V
  <2> QED BY <1>3 DEF Joins, LeafSummary, Agreed, Disagreed
<1>5. SummaryOf = [c \in Conditions |->
            CASE c.node = "logop" ->
                   IF SummaryOf[c.left] = SummaryOf[c.right]
                   THEN Summary(FALSE, FALSE, FALSE, "bool") ELSE Summary(FALSE, TRUE, FALSE, "str")
              [] c.node = "cmp" -> CmpSummary(c)
              [] c.node = "isin" -> InSummary(c)
              [] c.node = "isnull" -> Summary(TRUE, FALSE, FALSE, TypeOf[c.arg.name])
              [] OTHER -> Summary(TRUE, FALSE, FALSE, "str")]
  BY <1>4 DEF SummaryOf
<1> QED BY <1>5 DEF Joins, LeafSummary, Agreed, Disagreed

LEMMA NotTwiceWrongDef ==
  \A c \in Conditions :
    NotTwiceWrong[c] = (Joins(c) =>
      NotTwiceWrong[c.left] /\ NotTwiceWrong[c.right] /\ ~(SummaryOf[c.left].invalid /\ SummaryOf[c.right].invalid))
<1> DEFINE V == BOOLEAN
           leaf == [c \in Conditions |-> TRUE]
           join == [c \in Conditions |-> [v \in PairsOf(V) |-> v[1] /\ v[2] /\ ~(SummaryOf[c.left].invalid /\ SummaryOf[c.right].invalid)]]
<1>1. V # {} /\ leaf \in [Conditions -> V] /\ join \in [Conditions -> [PairsOf(V) -> V]]
  BY DEF PairsOf
<1>2. PICK f \in [Conditions -> V] : \A c \in Conditions : f[c] = Composed(leaf, join, f, c)
  <2> HIDE DEF V, leaf, join
  <2> QED BY ONLY <1>1, CondRecursion
<1>3. ASSUME NEW c \in Conditions PROVE f[c] = (Joins(c) =>
      f[c.left] /\ f[c.right] /\ ~(SummaryOf[c.left].invalid /\ SummaryOf[c.right].invalid))
  <2>1. Joins(c) => <<f[c.left], f[c.right]>> \in PairsOf(V)
    BY ConditionForm DEF PairsOf
  <2> QED BY <1>2, <2>1 DEF Composed
<1>4. f = [c \in Conditions |->
            c.node = "logop" =>
              /\ f[c.left] /\ f[c.right]
              /\ ~(SummaryOf[c.left].invalid /\ SummaryOf[c.right].invalid)]
  <2> HIDE DEF V
  <2> QED BY <1>3 DEF Joins
<1>5. NotTwiceWrong = [c \in Conditions |->
            c.node = "logop" =>
              /\ NotTwiceWrong[c.left] /\ NotTwiceWrong[c.right]
              /\ ~(SummaryOf[c.left].invalid /\ SummaryOf[c.right].invalid)]
  BY <1>4 DEF NotTwiceWrong
<1> QED BY <1>5 DEF Joins

Decided(c) ==
  \A p \in DOMAIN Rows : Rows[p] # Gone => 1 \notin {Truth(Rows[p], c.left), Truth(Rows[p], c.right)}

LEMMA XorDecidedDef ==
  \A c \in Conditions :
    XorDecided[c] = (Joins(c) => XorDecided[c.left] /\ XorDecided[c.right] /\ (c.gate = "xor" => Decided(c)))
<1> DEFINE V == BOOLEAN
           leaf == [c \in Conditions |-> TRUE]
           join == [c \in Conditions |-> [v \in PairsOf(V) |-> v[1] /\ v[2] /\ (c.gate = "xor" => Decided(c))]]
<1>1. V # {} /\ leaf \in [Conditions -> V] /\ join \in [Conditions -> [PairsOf(V) -> V]]
  BY DEF PairsOf
<1>2. PICK f \in [Conditions -> V] : \A c \in Conditions : f[c] = Composed(leaf, join, f, c)
  <2> HIDE DEF V, leaf, join
  <2> QED BY ONLY <1>1, CondRecursion
<1>3. ASSUME NEW c \in Conditions PROVE f[c] = (Joins(c) => f[c.left] /\ f[c.right] /\ (c.gate = "xor" => Decided(c)))
  <2>1. Joins(c) => <<f[c.left], f[c.right]>> \in PairsOf(V)
    BY ConditionForm DEF PairsOf
  <2> QED BY <1>2, <2>1 DEF Composed
<1>4. f = [c \in Conditions |->
            c.node = "logop" =>
              /\ f[c.left] /\ f[c.right]
              /\ c.gate = "xor" =>
                   \A p \in DOMAIN Rows : Rows[p] # Gone => 1 \notin {Truth(Rows[p], c.left), Truth(Rows[p], c.right)}]
  <2> HIDE DEF V
  <2> QED BY <1>3 DEF Joins, Decided
<1>5. XorDecided = [c \in Conditions |->
            c.node = "logop" =>
              /\ XorDecided[c.left] /\ XorDecided[c.right]
              /\ c.gate = "xor" =>
                   \A p \in DOMAIN Rows : Rows[p] # Gone => 1 \notin {Truth(Rows[p], c.left), Truth(Rows[p], c.right)}]
  BY <1>4 DEF XorDecided
<1> QED BY <1>5 DEF Joins, Decided

\* A condition that is no AND, OR or XOR, as DELETE and UPDATE evaluate it.
LeafHolds(row, c) ==
  \/ c.node = "cmp" /\ EvalCmp(row, c)
  \/ c.node = "isnull" /\ EvalIsNull(row, c)
  \/ c.node = "isin" /\ EvalIn(row, c)
  \/ c.node = "none"

LEMMA EvalRowDef ==
  ASSUME NEW row
  PROVE  \A c \in Conditions :
           /\ EvalRow(row, c) \in BOOLEAN
           /\ EvalRow(row, c) = IF Joins(c) THEN Gate(c.gate, EvalRow(row, c.left), EvalRow(row, c.right))
                               ELSE LeafHolds(row, c)
<1> DEFINE V == BOOLEAN
           leaf == [c \in Conditions |-> LeafHolds(row, c)]
           join == [c \in Conditions |-> [v \in PairsOf(V) |-> IF Joins(c) THEN Gate(c.gate, v[1], v[2]) ELSE FALSE]]
<1>1. V # {} /\ leaf \in [Conditions -> V] /\ join \in [Conditions -> [PairsOf(V) -> V]]
  <2>1. \A c \in Conditions : LeafHolds(row, c) \in V
    BY DEF LeafHolds
  <2>2. ASSUME NEW c \in Conditions, NEW v \in PairsOf(V), Joins(c) PROVE Gate(c.gate, v[1], v[2]) \in V
    BY <2>2, ConditionForm DEF PairsOf, Gate
  <2> QED BY <2>1, <2>2
<1>2. PICK f \in [Conditions -> V] : \A c \in Conditions : f[c] = Composed(leaf, join, f, c)
  <2> HIDE DEF V, leaf, join
  <2> QED BY ONLY <1>1, CondRecursion
<1>3. ASSUME NEW c \in Conditions PROVE f[c] = IF Joins(c) THEN Gate(c.gate, f[c.left], f[c.right]) ELSE LeafHolds(row, c)
  <2>1. Joins(c) => <<f[c.left], f[c.right]>> \in PairsOf(V)
    BY ConditionForm DEF PairsOf
  <2> QED BY <1>2, <2>1 DEF Composed
<1> DEFINE eval[d \in Conditions] ==
        \/ d.node = "logop" /\ Gate(d.gate, eval[d.left], eval[d.right])
        \/ d.node = "cmp" /\ EvalCmp(row, d)
        \/ d.node = "isnull" /\ EvalIsNull(row, d)
        \/ d.node = "isin" /\ EvalIn(row, d)
        \/ d.node = "none"
<1>4. f = [d \in Conditions |->
        \/ d.node = "logop" /\ Gate(d.gate, f[d.left], f[d.right])
        \/ d.node = "cmp" /\ EvalCmp(row, d)
        \/ d.node = "isnull" /\ EvalIsNull(row, d)
        \/ d.node = "isin" /\ EvalIn(row, d)
        \/ d.node = "none"]
  <2>1. \A d \in Conditions : Joins(d) => Gate(d.gate, f[d.left], f[d.right]) \in V
    BY ConditionForm DEF Gate
  <2> HIDE DEF eval
  <2> QED BY <1>3, <2>1 DEF Joins, LeafHolds
<1>5. eval = [d \in Conditions |->
        \/ d.node = "logop" /\ Gate(d.gate, eval[d.left], eval[d.right])
        \/ d.node = "cmp" /\ EvalCmp(row, d)
        \/ d.node = "isnull" /\ EvalIsNull(row, d)
        \/ d.node = "isin" /\ EvalIn(row, d)
        \/ d.node = "none"]
  BY <1>4
<1>6. \A c : EvalRow(row, c) = eval[c]
  BY DEF EvalRow
<1> HIDE DEF eval
<1> DEFINE G == {c \in Conditions : eval[c] = f[c]}
<1>7. ASSUME NEW c \in Conditions, Joins(c) => c.left \in G /\ c.right \in G PROVE c \in G
  <2>1. f[c] =
        \/ c.node = "logop" /\ Gate(c.gate, f[c.left], f[c.right])
        \/ c.node = "cmp" /\ EvalCmp(row, c)
        \/ c.node = "isnull" /\ EvalIsNull(row, c)
        \/ c.node = "isin" /\ EvalIn(row, c)
        \/ c.node = "none"
    BY <1>4
  <2>2. eval[c] =
        \/ c.node = "logop" /\ Gate(c.gate, eval[c.left], eval[c.right])
        \/ c.node = "cmp" /\ EvalCmp(row, c)
        \/ c.node = "isnull" /\ EvalIsNull(row, c)
        \/ c.node = "isin" /\ EvalIn(row, c)
        \/ c.node = "none"
    BY <1>5
  <2> QED BY <1>7, <2>1, <2>2 DEF Joins
<1>8. G = Conditions
  <2>1. G \in SUBSET Conditions
    OBVIOUS
  <2> HIDE DEF G
  <2> QED BY ONLY <1>7, <2>1, CondInduction
<1> QED BY <1>3, <1>6, <1>8, ConditionForm

\* As SELECT evaluates it.
SelectLeafHolds(row, c) ==
  \/ c.node = "cmp" /\ SelectEvalCmp(row, c)
  \/ c.node = "isnull" /\ EvalIsNull(row, c)
  \/ c.node = "isin" /\ SelectEvalIn(row, c)

LEMMA SelectEvalRowDef ==
  ASSUME NEW row
  PROVE  \A c \in Conditions :
           /\ SelectEvalRow(row, c) \in BOOLEAN
           /\ SelectEvalRow(row, c) = IF Joins(c) THEN Gate(c.gate, SelectEvalRow(row, c.left), SelectEvalRow(row, c.right))
                                     ELSE SelectLeafHolds(row, c)
<1> DEFINE V == BOOLEAN
           leaf == [c \in Conditions |-> SelectLeafHolds(row, c)]
           join == [c \in Conditions |-> [v \in PairsOf(V) |-> IF Joins(c) THEN Gate(c.gate, v[1], v[2]) ELSE FALSE]]
<1>1. V # {} /\ leaf \in [Conditions -> V] /\ join \in [Conditions -> [PairsOf(V) -> V]]
  <2>1. \A c \in Conditions : SelectLeafHolds(row, c) \in V
    BY DEF SelectLeafHolds
  <2>2. ASSUME NEW c \in Conditions, NEW v \in PairsOf(V), Joins(c) PROVE Gate(c.gate, v[1], v[2]) \in V
    BY <2>2, ConditionForm DEF PairsOf, Gate
  <2> QED BY <2>1, <2>2
<1>2. PICK f \in [Conditions -> V] : \A c \in Conditions : f[c] = Composed(leaf, join, f, c)
  <2> HIDE DEF V, leaf, join
  <2> QED BY ONLY <1>1, CondRecursion
<1>3. ASSUME NEW c \in Conditions PROVE f[c] = IF Joins(c) THEN Gate(c.gate, f[c.left], f[c.right]) ELSE SelectLeafHolds(row, c)
  <2>1. Joins(c) => <<f[c.left], f[c.right]>> \in PairsOf(V)
    BY ConditionForm DEF PairsOf
  <2> QED BY <1>2, <2>1 DEF Composed
<1> DEFINE eval[d \in Conditions] ==
        \/ d.node = "logop" /\ Gate(d.gate, eval[d.left], eval[d.right])
        \/ d.node = "cmp" /\ SelectEvalCmp(row, d)
        \/ d.node = "isnull" /\ EvalIsNull(row, d)
        \/ d.node = "isin" /\ SelectEvalIn(row, d)
<1>4. f = [d \in Conditions |->
        \/ d.node = "logop" /\ Gate(d.gate, f[d.left], f[d.right])
        \/ d.node = "cmp" /\ SelectEvalCmp(row, d)
        \/ d.node = "isnull" /\ EvalIsNull(row, d)
        \/ d.node = "isin" /\ SelectEvalIn(row, d)]
  <2>1. \A d \in Conditions : Joins(d) => Gate(d.gate, f[d.left], f[d.right]) \in V
    BY ConditionForm DEF Gate
  <2> HIDE DEF eval
  <2> QED BY <1>3, <2>1 DEF Joins, SelectLeafHolds
<1>5. eval = [d \in Conditions |->
        \/ d.node = "logop" /\ Gate(d.gate, eval[d.left], eval[d.right])
        \/ d.node = "cmp" /\ SelectEvalCmp(row, d)
        \/ d.node = "isnull" /\ EvalIsNull(row, d)
        \/ d.node = "isin" /\ SelectEvalIn(row, d)]
  BY <1>4
<1>6. \A c : SelectEvalRow(row, c) = eval[c]
  BY DEF SelectEvalRow
<1> HIDE DEF eval
<1> DEFINE G == {c \in Conditions : eval[c] = f[c]}
<1>7. ASSUME NEW c \in Conditions, Joins(c) => c.left \in G /\ c.right \in G PROVE c \in G
  <2>1. f[c] =
        \/ c.node = "logop" /\ Gate(c.gate, f[c.left], f[c.right])
        \/ c.node = "cmp" /\ SelectEvalCmp(row, c)
        \/ c.node = "isnull" /\ EvalIsNull(row, c)
        \/ c.node = "isin" /\ SelectEvalIn(row, c)
    BY <1>4
  <2>2. eval[c] =
        \/ c.node = "logop" /\ Gate(c.gate, eval[c.left], eval[c.right])
        \/ c.node = "cmp" /\ SelectEvalCmp(row, c)
        \/ c.node = "isnull" /\ EvalIsNull(row, c)
        \/ c.node = "isin" /\ SelectEvalIn(row, c)
    BY <1>5
  <2> QED BY <1>7, <2>1, <2>2 DEF Joins
<1>8. G = Conditions
  <2>1. G \in SUBSET Conditions
    OBVIOUS
  <2> HIDE DEF G
  <2> QED BY ONLY <1>7, <2>1, CondInduction
<1> QED BY <1>3, <1>6, <1>8, ConditionForm

LEMMA LeafTruthType == \A row, c : LeafTruth(row, c) \in 0 .. 2
<1> SUFFICES ASSUME NEW row, NEW c PROVE LeafTruth(row, c) \in 0 .. 2
  OBVIOUS
<1>1. \A b : TruthOf(b) \in {0, 2}
  BY DEF TruthOf
<1>2. \A op, x, y : CmpTruth(row, op, x, y) \in {0, 1, 2}
  BY <1>1 DEF CmpTruth
<1>3. InTruth(row, c) \in {0, 1, 2}
  BY DEF InTruth
<1> QED BY <1>1, <1>2, <1>3 DEF LeafTruth

LEMMA TruthDef ==
  ASSUME NEW row
  PROVE  \A c \in Conditions :
           /\ Truth(row, c) \in (0 .. 2)
           /\ Truth(row, c) = IF Joins(c) THEN GateTruth(c.gate, Truth(row, c.left), Truth(row, c.right))
                             ELSE LeafTruth(row, c)
<1> DEFINE V == (0 .. 2)
           leaf == [c \in Conditions |-> LeafTruth(row, c)]
           join == [c \in Conditions |-> [v \in PairsOf(V) |-> IF Joins(c) THEN GateTruth(c.gate, v[1], v[2]) ELSE 0]]
<1>1. V # {} /\ leaf \in [Conditions -> V] /\ join \in [Conditions -> [PairsOf(V) -> V]]
  <2>1. \A c \in Conditions : LeafTruth(row, c) \in V
    BY LeafTruthType
  <2>2. ASSUME NEW c \in Conditions, NEW v \in PairsOf(V), Joins(c) PROVE GateTruth(c.gate, v[1], v[2]) \in V
    BY <2>2, ConditionForm DEF PairsOf, GateTruth, Least, Greatest, TruthOf
  <2> QED BY <2>1, <2>2
<1>2. PICK f \in [Conditions -> V] : \A c \in Conditions : f[c] = Composed(leaf, join, f, c)
  <2> HIDE DEF V, leaf, join
  <2> QED BY ONLY <1>1, CondRecursion
<1>3. ASSUME NEW c \in Conditions PROVE f[c] = IF Joins(c) THEN GateTruth(c.gate, f[c.left], f[c.right]) ELSE LeafTruth(row, c)
  <2>1. Joins(c) => <<f[c.left], f[c.right]>> \in PairsOf(V)
    BY ConditionForm DEF PairsOf
  <2> QED BY <1>2, <2>1 DEF Composed
<1> DEFINE truth[d \in Conditions] ==
        IF d.node = "logop" THEN GateTruth(d.gate, truth[d.left], truth[d.right]) ELSE LeafTruth(row, d)
<1>4. f = [d \in Conditions |->
        IF d.node = "logop" THEN GateTruth(d.gate, f[d.left], f[d.right]) ELSE LeafTruth(row, d)]
  <2>1. \A d \in Conditions : Joins(d) => GateTruth(d.gate, f[d.left], f[d.right]) \in V
    BY ConditionForm DEF GateTruth, Least, Greatest, TruthOf
  <2> HIDE DEF truth
  <2> QED BY <1>3, <2>1 DEF Joins
<1>5. truth = [d \in Conditions |->
        IF d.node = "logop" THEN GateTruth(d.gate, truth[d.left], truth[d.right]) ELSE LeafTruth(row, d)]
  BY <1>4
<1>6. \A c : Truth(row, c) = truth[c]
  BY DEF Truth
<1> HIDE DEF truth
<1> DEFINE G == {c \in Conditions : truth[c] = f[c]}
<1>7. ASSUME NEW c \in Conditions, Joins(c) => c.left \in G /\ c.right \in G PROVE c \in G
  <2>1. f[c] =
        IF c.node = "logop" THEN GateTruth(c.gate, f[c.left], f[c.right]) ELSE LeafTruth(row, c)
    BY <1>4
  <2>2. truth[c] =
        IF c.node = "logop" THEN GateTruth(c.gate, truth[c.left], truth[c.right]) ELSE LeafTruth(row, c)
    BY <1>5
  <2> QED BY <1>7, <2>1, <2>2 DEF Joins
<1>8. G = Conditions
  <2>1. G \in SUBSET Conditions
    OBVIOUS
  <2> HIDE DEF G
  <2> QED BY ONLY <1>7, <2>1, CondInduction
<1> QED BY <1>3, <1>6, <1>8, ConditionForm
-----------------------------------------------------------------------------
(* What the analysers ensure of the leaves of a condition *)

LEMMA LeafKinds ==
  ASSUME NEW c \in Conditions, NEW l \in Leaves[c]
  PROVE  l \in Conditions /\ IsCondition(l) /\ ~Joins(l) /\ l.node \in {"val", "isnull", "cmp", "isin"}
<1> DEFINE G == {d \in Conditions : \A m \in Leaves[d] : m \in Conditions /\ ~Joins(m) /\ m.node # "none"}
<1>1. ASSUME NEW d \in Conditions, Joins(d) => d.left \in G /\ d.right \in G PROVE d \in G
  BY <1>1, LeavesDef, ConditionForm
<1>2. G = Conditions
  <2>1. G \in SUBSET Conditions
    OBVIOUS
  <2> HIDE DEF G
  <2> QED BY ONLY <1>1, <2>1, CondInduction
<1>3. l \in Conditions /\ ~Joins(l) /\ l.node # "none"
  BY <1>2
<1> QED BY <1>3, ConditionForm DEF IsCondition, Joins

LEMMA AcceptedLeaves ==
  ASSUME NEW c \in Conditions, ValueTypes[c] = "accept", NEW l \in Leaves[c]
  PROVE  LeafVerdict(l) = "accept"
<1> DEFINE G == {d \in Conditions : ValueTypes[d] = "accept" => \A m \in Leaves[d] : LeafVerdict(m) = "accept"}
<1>1. ASSUME NEW d \in Conditions, Joins(d) => d.left \in G /\ d.right \in G PROVE d \in G
  BY <1>1, LeavesDef, ValueTypesDef
<1>2. G = Conditions
  <2>1. G \in SUBSET Conditions
    OBVIOUS
  <2> HIDE DEF G
  <2> QED BY ONLY <1>1, <2>1, CondInduction
<1> QED BY <1>2

LEMMA CrashingLeaf ==
  ASSUME NEW c \in Conditions, ValueTypes[c] = "crash"
  PROVE  \E l \in Leaves[c] : LeafVerdict(l) = "crash"
<1> DEFINE G == {d \in Conditions : ValueTypes[d] = "crash" => \E m \in Leaves[d] : LeafVerdict(m) = "crash"}
<1>1. ASSUME NEW d \in Conditions, Joins(d) => d.left \in G /\ d.right \in G PROVE d \in G
  BY <1>1, LeavesDef, ValueTypesDef
<1>2. G = Conditions
  <2>1. G \in SUBSET Conditions
    OBVIOUS
  <2> HIDE DEF G
  <2> QED BY ONLY <1>1, <2>1, CondInduction
<1> QED BY <1>2

\* A summary that is not invalid has no invalid leaf below it, unless two of
\* them were wrong in the same way.
LEMMA ValidLeaves ==
  ASSUME NEW c \in Conditions, NotTwiceWrong[c], ~SummaryOf[c].invalid, NEW l \in Leaves[c]
  PROVE  ~LeafSummary(l).invalid
<1> DEFINE G == {d \in Conditions : NotTwiceWrong[d] /\ ~SummaryOf[d].invalid => \A m \in Leaves[d] : ~LeafSummary(m).invalid}
<1>1. ASSUME NEW d \in Conditions, Joins(d) => d.left \in G /\ d.right \in G PROVE d \in G
  <2> SUFFICES ASSUME NotTwiceWrong[d], ~SummaryOf[d].invalid, NEW m \in Leaves[d] PROVE ~LeafSummary(m).invalid
    OBVIOUS
  <2>1. CASE Joins(d)
    <3>1. SummaryOf[d] = IF SummaryOf[d.left] = SummaryOf[d.right] THEN Agreed ELSE Disagreed
      BY <2>1, SummaryOfDef
    <3>2. Disagreed.invalid
      BY DEF Disagreed, Summary
    <3>3. SummaryOf[d.left] = SummaryOf[d.right]
      BY <3>1, <3>2
    <3>4. NotTwiceWrong[d.left] /\ NotTwiceWrong[d.right] /\ ~(SummaryOf[d.left].invalid /\ SummaryOf[d.right].invalid)
      BY <2>1, NotTwiceWrongDef
    <3>5. ~SummaryOf[d.left].invalid /\ ~SummaryOf[d.right].invalid
      BY <3>3, <3>4
    <3>6. m \in Leaves[d.left] \/ m \in Leaves[d.right]
      BY <2>1, LeavesDef
    <3> QED BY <1>1, <2>1, <3>4, <3>5, <3>6
  <2>2. CASE ~Joins(d)
    BY <2>2, LeavesDef, SummaryOfDef
  <2> QED BY <2>1, <2>2
<1>2. G = Conditions
  <2>1. G \in SUBSET Conditions
    OBVIOUS
  <2> HIDE DEF G
  <2> QED BY ONLY <1>1, <2>1, CondInduction
<1> QED BY <1>2

\* The field of an IN is one of its names.
LEMMA InFieldIsName ==
  ASSUME NEW l, IsCondition(l), l.node = "isin", InFields(l) # {}
  PROVE  InField(l) \in InFields(l) /\ InField(l) \in DOMAIN l.args /\ IsName(l.args[InField(l)])
<1>1. InFields(l) \in SUBSET Nat
  BY DEF InFields, IsCondition
<1>2. \E p \in InFields(l) : \A q \in InFields(l) : p <= q
  <2> DEFINE F == InFields(l)
  <2>1. F \in SUBSET Nat /\ F # {}
    BY <1>1
  <2> HIDE DEF F
  <2>2. \E p \in F : \A q \in F : p <= q
    BY <2>1, LeastNat
  <2> QED BY <2>2 DEF F
<1>3. InField(l) \in InFields(l)
  BY <1>2 DEF InField
<1> QED BY <1>3 DEF InFields

SameTypes(l) ==
  \A x, y \in Operands(l) : OperandType(x) = OperandType(y) \/ "null" \in {OperandType(x), OperandType(y)}

\* A comparison or an IN that DELETE and UPDATE accept is of one type.
LEMMA FittingLeaf ==
  ASSUME NEW l, IsCondition(l), l.node \in {"cmp", "isin"}, LeafVerdict(l) = "accept",
         l.node = "isin" => \A p, q \in InFields(l) : p = q
  PROVE  SameTypes(l)
<1>1. CASE l.node = "cmp"
  <2>1. CmpFits(l)
    BY <1>1 DEF LeafVerdict
  <2>2. OperandType(l.left) = OperandType(l.right) \/ "null" \in {OperandType(l.left), OperandType(l.right)}
    BY <2>1 DEF CmpFits, FieldToFieldFits, FieldToValueFits, ValueToValueFits, OperandType
  <2>3. Operands(l) = {l.left, l.right}
    BY <1>1 DEF Operands
  <2> HIDE DEF OperandType
  <2> QED BY <2>2, <2>3 DEF SameTypes
<1>2. CASE l.node = "isin"
  <2>1. InFits(l) /\ InFields(l) # {}
    BY <1>2 DEF LeafVerdict
  <2>2. InField(l) \in InFields(l) /\ InField(l) \in DOMAIN l.args /\ IsName(l.args[InField(l)])
    BY <1>2, <2>1, InFieldIsName
  <2> DEFINE t == TypeOf[l.args[InField(l)].name]
  <2>3. ASSUME NEW x \in Operands(l) PROVE OperandType(x) = t \/ OperandType(x) = "null"
    <3>1. PICK p \in DOMAIN l.args : x = l.args[p]
      BY <1>2 DEF Operands
    <3>2. CASE IsName(x)
      <4>1. p \in InFields(l)
        BY <3>1, <3>2 DEF InFields
      <4>2. p = InField(l)
        BY <1>2, <2>2, <4>1
      <4> QED BY <3>1, <3>2, <4>2 DEF OperandType
    <3>3. CASE ~IsName(x)
      <4>1. x \in InValues(l)
        BY <3>3 DEF InValues
      <4>2. FieldToValueFits(InOp(l), l.args[InField(l)], x)
        BY <2>1, <4>1 DEF InFits
      <4> QED BY <3>3, <4>2 DEF FieldToValueFits, OperandType
    <3> QED BY <3>2, <3>3
  <2> HIDE DEF t
  <2> QED BY <2>3 DEF SameTypes
<1> QED BY <1>1, <1>2

\* So is one that SELECT accepts.
LEMMA ValidLeaf ==
  ASSUME NEW l, IsCondition(l), l.node \in {"cmp", "isin"}, ~LeafSummary(l).invalid,
         l.node = "isin" => ~InTrips(l) /\ \A p, q \in InFields(l) : p = q
  PROVE  SameTypes(l)
<1>1. CASE l.node = "cmp"
  <2>1. ~CmpSummary(l).invalid
    BY <1>1 DEF LeafSummary
  <2>2. \/ OperandSummary(l.left).null \/ OperandSummary(l.right).null
        \/ OperandSummary(l.left) = OperandSummary(l.right)
    BY <2>1 DEF CmpSummary, Summary
  <2>3. \A x : IF OperandSummary(x).null THEN OperandType(x) = "null" ELSE OperandSummary(x).type = OperandType(x)
    BY DEF OperandSummary, OperandType, Summary
  <2>4. OperandType(l.left) = OperandType(l.right) \/ "null" \in {OperandType(l.left), OperandType(l.right)}
    BY <2>2, <2>3
  <2>5. Operands(l) = {l.left, l.right}
    BY <1>1 DEF Operands
  <2> QED BY <2>4, <2>5 DEF SameTypes
<1>2. CASE l.node = "isin"
  <2>1. ~InSummary(l).invalid
    BY <1>2 DEF LeafSummary
  <2>2. IsName(l.args[1])
    BY <1>2 DEF InTrips
  <2>3. \A p \in 2 .. Len(l.args) : l.args[p].type = TypeOf[l.args[1].name]
    BY <2>1 DEF InSummary, Summary
  <2>4. DOMAIN l.args = 1 .. Len(l.args) /\ Len(l.args) \in Nat
    BY <1>2 DEF IsCondition
  <2>5. ASSUME NEW x \in Operands(l) PROVE OperandType(x) = TypeOf[l.args[1].name]
    <3>1. PICK p \in DOMAIN l.args : x = l.args[p]
      BY <1>2 DEF Operands
    <3>2. CASE p = 1
      BY <2>2, <3>1, <3>2 DEF OperandType
    <3>3. CASE p # 1
      <4>1. p \in 2 .. Len(l.args) /\ 1 \in DOMAIN l.args
        BY <2>4, <3>3
      <4>2. ~IsName(x)
        BY <1>2, <2>2, <3>1, <3>3, <4>1 DEF InFields
      <4> QED BY <2>3, <3>1, <4>1, <4>2 DEF OperandType
    <3> QED BY <3>2, <3>3
  <2> QED BY <2>5 DEF SameTypes
<1> QED BY <1>1, <1>2

LEMMA AcceptedAlike ==
  ASSUME NEW stmt \in Statements, Analyse(stmt) = "accept", NoTwoWrongs(stmt)
  PROVE  ~Mixed(stmt.where)
<1> DEFINE c == stmt.where
<1>1. c \in Conditions /\ stmt.verb \in {"delete", "update", "select"}
  BY StatementsAssumption
<1>2. ASSUME NEW l \in Leaves[c], l.node \in {"cmp", "isin"} PROVE SameTypes(l)
  <2>1. IsCondition(l)
    BY <1>1, LeafKinds
  <2>2. CASE stmt.verb = "select"
    <3>1. AnalyseSelect(stmt) = "accept"
      BY <2>2 DEF Analyse
    <3>2. InEntriesRaw(c) /\ ~(\E m \in Leaves[c] : UnknownName(m) \/ (m.node = "isin" /\ InTrips(m))) /\ ~SummaryOf[c].invalid
      BY <3>1 DEF AnalyseSelect
    <3>3. NotTwiceWrong[c]
      BY <2>2 DEF NoTwoWrongs
    <3>4. ~LeafSummary(l).invalid
      BY <1>1, <3>2, <3>3, ValidLeaves
    <3>5. l.node = "isin" => ~InTrips(l) /\ \A p, q \in InFields(l) : p = q
      BY <3>2 DEF InEntriesRaw
    <3> QED BY <1>2, <2>1, <3>4, <3>5, ValidLeaf
  <2>3. CASE stmt.verb # "select"
    <3>1. InEntriesRaw(c) /\ ValueTypes[c] = "accept"
      BY <1>1, <2>3 DEF Analyse, AnalyseDelete, AnalyseUpdate
    <3>2. LeafVerdict(l) = "accept"
      BY <1>1, <3>1, AcceptedLeaves
    <3>3. l.node = "isin" => \A p, q \in InFields(l) : p = q
      BY <3>1 DEF InEntriesRaw
    <3> QED BY <1>2, <2>1, <3>2, <3>3, FittingLeaf
  <2> QED BY <2>2, <2>3
<1> HIDE DEF c
<1>3. ~Mixed(c)
  BY <1>2 DEF Mixed, SameTypes
<1> QED BY <1>3 DEF c
-----------------------------------------------------------------------------
(* What update_row stores *)

Tuples == [Columns -> Cells]

\* The assignments of an UPDATE.
Assignments(set) ==
  /\ Len(set) \in Nat /\ DOMAIN set = 1 .. Len(set)
  /\ \A p \in DOMAIN set : IsOperand(set[p].value)

LEMMA StoredType ==
  ASSUME NEW column \in Columns, NEW v, IsOperand(v)
  PROVE  Stored(column, v) \in Cells
<1>1. CASE IsName(v)
  BY <1>1 DEF Stored, NameBytes, Cells, Types
<1>2. CASE ~IsName(v)
  <2>1. v \in [type : Types \cup {"null"}, val : Int]
    BY <1>2 DEF IsOperand
  <2>2. v \in Cells
    BY <2>1 DEF Cells
  <2> QED BY <1>2, <2>2 DEF Stored
<1> QED BY <1>1, <1>2

\* The row after n assignments.
After(row, set, n, before) ==
  IF n = 0 THEN row ELSE [before EXCEPT ![set[n].field] = Stored(set[n].field, set[n].value)]

LEMMA AfterType ==
  ASSUME NEW row \in Tuples, NEW set, Assignments(set), NEW n \in 0 .. Len(set), NEW before \in Tuples
  PROVE  After(row, set, n, before) \in Tuples
<1>1. CASE n = 0
  BY <1>1 DEF After
<1>2. CASE n # 0
  <2>1. n \in DOMAIN set
    BY <1>2 DEF Assignments
  <2>2. set[n].field \in Columns => Stored(set[n].field, set[n].value) \in Cells
    BY <2>1, StoredType DEF Assignments
  <2> DEFINE v == Stored(set[n].field, set[n].value)
             c == set[n].field
  <2> HIDE DEF v, c
  <2>3. [before EXCEPT ![c] = v] \in Tuples
    BY <2>2 DEF Tuples, v, c
  <2> QED BY <1>2, <2>3 DEF After, v, c
<1> QED BY <1>1, <1>2

\* The value that a column has after the first n assignments.
FirstAssigned(row, set, n, c) ==
  LET mine == {p \in 1 .. n : set[p].field = c}
  IN  IF mine = {} THEN row[c] ELSE Stored(c, set[CHOOSE p \in mine : \A q \in mine : q <= p].value)

\* What holds before a loop and is kept by each of its N steps holds throughout.
LEMMA LoopInduction ==
  ASSUME NEW N \in Nat, NEW G \in SUBSET (0 .. N), 0 \in G,
         \A n \in 1 .. N : n - 1 \in G => n \in G
  PROVE  G = 0 .. N
<1> DEFINE S == 0 .. N
           rank == [n \in S |-> n]
<1>1. rank \in [S -> Nat] /\ G \in SUBSET S
  OBVIOUS
<1>2. ASSUME NEW e \in S, \A x \in S : rank[x] < rank[e] => x \in G PROVE e \in G
  <2>1. CASE e = 0
    BY <2>1
  <2>2. CASE e # 0
    <3>1. e \in 1 .. N /\ e - 1 \in S /\ e - 1 < e
      BY <2>2
    <3>2. e - 1 \in G
      BY <1>2, <3>1
    <3> QED BY <3>1, <3>2
  <2> QED BY <2>1, <2>2
<1>3. G = S
  <2> HIDE DEF rank, S
  <2> QED BY ONLY <1>1, <1>2, RankInduction
<1> QED BY <1>3

\* update_row assigns as many times as there are assignments; the last one counts.
LEMMA AssignedIsLast ==
  ASSUME NEW row \in Tuples, NEW set, Assignments(set)
  PROVE  /\ Assigned(row, set) \in Tuples
         /\ \A c \in Columns : Assigned(row, set)[c] = FirstAssigned(row, set, Len(set), c)
<1> DEFINE S == 0 .. Len(set)
           rank == [n \in S |-> n]
           F == [f \in [S -> Tuples] |-> [n \in S |-> After(row, set, n, f[IF n = 0 THEN 0 ELSE n - 1])]]
<1>0. Len(set) \in Nat
  BY DEF Assignments
<1>1. rank \in [S -> Nat] /\ Tuples # {}
  BY <1>0
<1>2. F \in [[S -> Tuples] -> [S -> Tuples]]
  <2>1. ASSUME NEW f \in [S -> Tuples], NEW n \in S PROVE After(row, set, n, f[IF n = 0 THEN 0 ELSE n - 1]) \in Tuples
    <3>1. (IF n = 0 THEN 0 ELSE n - 1) \in S
      BY <1>0
    <3>2. f[IF n = 0 THEN 0 ELSE n - 1] \in Tuples
      BY <3>1
    <3> QED BY <3>2, AfterType
  <2> QED BY <2>1
<1>3. ASSUME NEW f \in [S -> Tuples], NEW g \in [S -> Tuples], NEW n \in S,
             \A x \in S : rank[x] < rank[n] => f[x] = g[x]
      PROVE  F[f][n] = F[g][n]
  <2>1. CASE n = 0
    BY <2>1 DEF After
  <2>2. CASE n # 0
    <3>1. n - 1 \in S /\ rank[n - 1] < rank[n]
      BY <1>0, <2>2
    <3>2. f[n - 1] = g[n - 1]
      BY <1>3, <3>1
    <3> QED BY <2>2, <3>2
  <2> QED BY <2>1, <2>2
<1>4. FromLower(S, rank, Tuples, F)
  <2> HIDE DEF F, rank, S
  <2> QED BY <1>1, <1>2, <1>3 DEF FromLower
<1>5. PICK f \in [S -> Tuples] : f = F[f]
  <2> HIDE DEF F, rank, S
  <2> QED BY <1>4, Recursion
<1> DEFINE after[n \in 0 .. Len(set)] ==
             IF n = 0 THEN row ELSE [after[n - 1] EXCEPT ![set[n].field] = Stored(set[n].field, set[n].value)]
<1>6. f = [n \in 0 .. Len(set) |->
             IF n = 0 THEN row ELSE [f[n - 1] EXCEPT ![set[n].field] = Stored(set[n].field, set[n].value)]]
  <2> HIDE DEF after
  <2>1. ASSUME NEW n \in S
        PROVE f[n] = IF n = 0 THEN row ELSE [f[n - 1] EXCEPT ![set[n].field] = Stored(set[n].field, set[n].value)]
    BY <1>5 DEF After
  <2> QED BY <2>1
<1>7. after = [n \in 0 .. Len(set) |->
             IF n = 0 THEN row ELSE [after[n - 1] EXCEPT ![set[n].field] = Stored(set[n].field, set[n].value)]]
  BY <1>6
<1>8. Assigned(row, set) = after[Len(set)]
  BY DEF Assigned
<1> HIDE DEF after, F, rank
<1>9. ASSUME NEW n \in S PROVE after[n] = After(row, set, n, after[n - 1])
  BY <1>7 DEF After
<1> DEFINE G == {n \in S : after[n] \in Tuples /\ \A c \in Columns : after[n][c] = FirstAssigned(row, set, n, c)}
<1>10. 0 \in G
  <2>0. 0 \in S
    BY <1>0
  <2>1. after[0] = After(row, set, 0, after[0 - 1])
    BY <1>9, <2>0
  <2>3. after[0] = row
    BY <2>1 DEF After
  <2>2. \A c \in Columns : FirstAssigned(row, set, 0, c) = row[c]
    BY DEF FirstAssigned
  <2> QED BY <2>0, <2>2, <2>3
<1>11. ASSUME NEW n \in 1 .. Len(set), n - 1 \in G PROVE n \in G
  <2> DEFINE b == after[n - 1]
             d == set[n].field
             v == Stored(d, set[n].value)
  <2>1. n \in S /\ n # 0 /\ n \in DOMAIN set
    BY <1>0 DEF Assignments
  <2>2. b \in Tuples /\ \A c \in Columns : b[c] = FirstAssigned(row, set, n - 1, c)
    BY <1>11
  <2>3. after[n] \in Tuples
    BY <1>9, <2>1, <2>2, AfterType
  <2>4. after[n] = [b EXCEPT ![d] = v]
    BY <1>9, <2>1 DEF After
  <2>5. ASSUME NEW c \in Columns PROVE after[n][c] = FirstAssigned(row, set, n, c)
    <3> DEFINE mine == {p \in 1 .. n : set[p].field = c}
               less == {p \in 1 .. n - 1 : set[p].field = c}
    <3>1. CASE c = d
      <4>1. n \in mine /\ \A q \in mine : q <= n
        BY <2>1, <3>1
      <4>2. \A p \in mine : (\A q \in mine : q <= p) => p = n
        BY <2>1, <4>1
      <4>3. (CHOOSE p \in mine : \A q \in mine : q <= p) = n
        <5> HIDE DEF mine
        <5> QED BY <4>1, <4>2
      <4>4. FirstAssigned(row, set, n, c) = v
        <5>1. mine # {}
          BY <4>1
        <5> HIDE DEF mine
        <5>2. FirstAssigned(row, set, n, c) = IF mine = {} THEN row[c] ELSE Stored(c, set[CHOOSE p \in mine : \A q \in mine : q <= p].value)
          BY DEF FirstAssigned, mine
        <5> QED BY <3>1, <4>3, <5>1, <5>2
      <4>5. after[n][c] = v
        <5> HIDE DEF b, v, d
        <5> QED BY <2>2, <2>4, <3>1 DEF Tuples
      <4> QED BY <4>4, <4>5
    <3>2. CASE c # d
      <4>1. mine = less
        BY <2>1, <3>2
      <4>2. FirstAssigned(row, set, n, c) = FirstAssigned(row, set, n - 1, c)
        <5>1. /\ FirstAssigned(row, set, n, c) =
                   IF mine = {} THEN row[c] ELSE Stored(c, set[CHOOSE p \in mine : \A q \in mine : q <= p].value)
              /\ FirstAssigned(row, set, n - 1, c) =
                   IF less = {} THEN row[c] ELSE Stored(c, set[CHOOSE p \in less : \A q \in less : q <= p].value)
          BY DEF FirstAssigned
        <5> HIDE DEF mine, less
        <5> QED BY <4>1, <5>1
      <4>3. after[n][c] = b[c]
        <5> HIDE DEF b, v, d
        <5> QED BY <2>2, <2>4, <3>2 DEF Tuples
      <4> QED BY <2>2, <4>2, <4>3
    <3> QED BY <3>1, <3>2
  <2> QED BY <2>1, <2>3, <2>5
<1>12. G = S
  <2>1. G \in SUBSET S
    OBVIOUS
  <2> HIDE DEF G
  <2> QED BY ONLY <1>0, <1>10, <1>11, <2>1, LoopInduction DEF S
<1>13. Len(set) \in S
  BY <1>0
<1> QED BY <1>8, <1>12, <1>13
-----------------------------------------------------------------------------
(* The type invariant, and what each step changes *)

Slot == Tuples \cup {Gone}

NoStatement == [verb |-> "none"]

SessionState ==
  [stmt : Statements \cup {NoStatement}, phase : {"idle", "scan", "filter", "done", "refused"},
   at : Nat \ {0}, out : Seq(Slot), hits : Nat]

WhereTypeOK ==
  /\ slots \in Seq(Slot) /\ Len(slots) = Len(Rows)
  /\ sess \in [Sessions -> SessionState]
  /\ down \in BOOLEAN

State(stmt, phase, at, out, hits) ==
  [stmt |-> stmt, phase |-> phase, at |-> at, out |-> out, hits |-> hits]

\* From f to g the session s goes to state q, and no other session moves.
Moves(f, g, s, q) ==
  /\ g \in [Sessions -> SessionState] /\ g[s] = q
  /\ \A t \in Sessions : t # s => g[t] = f[t]

LEMMA SetPhase ==
  ASSUME NEW f \in [Sessions -> SessionState], NEW s \in Sessions, NEW g, NEW x \in {"idle", "scan", "filter", "done", "refused"},
         g = [f EXCEPT ![s].phase = x]
  PROVE  Moves(f, g, s, State(f[s].stmt, x, f[s].at, f[s].out, f[s].hits))
BY DEF Moves, SessionState, State

LEMMA SetAt ==
  ASSUME NEW f \in [Sessions -> SessionState], NEW s \in Sessions, NEW g, NEW x \in Nat \ {0},
         g = [f EXCEPT ![s].at = x]
  PROVE  Moves(f, g, s, State(f[s].stmt, f[s].phase, x, f[s].out, f[s].hits))
BY DEF Moves, SessionState, State

LEMMA SetOut ==
  ASSUME NEW f \in [Sessions -> SessionState], NEW s \in Sessions, NEW g, NEW x \in Seq(Slot),
         g = [f EXCEPT ![s].out = x]
  PROVE  Moves(f, g, s, State(f[s].stmt, f[s].phase, f[s].at, x, f[s].hits))
BY DEF Moves, SessionState, State

LEMMA SetHits ==
  ASSUME NEW f \in [Sessions -> SessionState], NEW s \in Sessions, NEW g, NEW x \in Nat,
         g = [f EXCEPT ![s].hits = x]
  PROVE  Moves(f, g, s, State(f[s].stmt, f[s].phase, f[s].at, f[s].out, x))
BY DEF Moves, SessionState, State

LEMMA StateFields ==
  \A stmt, phase, at, out, hits :
    /\ State(stmt, phase, at, out, hits).stmt = stmt /\ State(stmt, phase, at, out, hits).phase = phase
    /\ State(stmt, phase, at, out, hits).at = at /\ State(stmt, phase, at, out, hits).out = out
    /\ State(stmt, phase, at, out, hits).hits = hits
BY DEF State

\* A step that advances a session and sets one more field of it.
LEMMA SetAtAndOut ==
  ASSUME NEW f \in [Sessions -> SessionState], NEW s \in Sessions, NEW g, NEW x \in Seq(Slot),
         g = [f EXCEPT ![s].at = @ + 1, ![s].out = x]
  PROVE  Moves(f, g, s, State(f[s].stmt, f[s].phase, f[s].at + 1, x, f[s].hits))
<1> DEFINE e == [f EXCEPT ![s].at = @ + 1]
           n == f[s].at + 1
<1>1. n \in Nat \ {0}
  BY DEF SessionState
<1>2. e = [f EXCEPT ![s].at = n] /\ g = [e EXCEPT ![s].out = x]
  OBVIOUS
<1> HIDE DEF e, n
<1>3. Moves(f, e, s, State(f[s].stmt, f[s].phase, n, f[s].out, f[s].hits))
  BY ONLY f \in [Sessions -> SessionState], s \in Sessions, <1>1, <1>2, SetAt
<1>4. e \in [Sessions -> SessionState]
  BY <1>3 DEF Moves
<1>5. Moves(e, g, s, State(e[s].stmt, e[s].phase, e[s].at, x, e[s].hits))
  BY ONLY <1>4, s \in Sessions, x \in Seq(Slot), <1>2, SetOut
<1>6. e[s].stmt = f[s].stmt /\ e[s].phase = f[s].phase /\ e[s].at = n /\ e[s].hits = f[s].hits
  BY <1>3, StateFields DEF Moves
<1>7. Moves(e, g, s, State(f[s].stmt, f[s].phase, n, x, f[s].hits))
  BY <1>5, <1>6
<1> QED BY <1>3, <1>7 DEF Moves, n

LEMMA SetAtAndHits ==
  ASSUME NEW f \in [Sessions -> SessionState], NEW s \in Sessions, NEW g, NEW x \in Nat,
         g = [f EXCEPT ![s].at = @ + 1, ![s].hits = x]
  PROVE  Moves(f, g, s, State(f[s].stmt, f[s].phase, f[s].at + 1, f[s].out, x))
<1> DEFINE e == [f EXCEPT ![s].at = @ + 1]
           n == f[s].at + 1
<1>1. n \in Nat \ {0}
  BY DEF SessionState
<1>2. e = [f EXCEPT ![s].at = n] /\ g = [e EXCEPT ![s].hits = x]
  OBVIOUS
<1> HIDE DEF e, n
<1>3. Moves(f, e, s, State(f[s].stmt, f[s].phase, n, f[s].out, f[s].hits))
  BY ONLY f \in [Sessions -> SessionState], s \in Sessions, <1>1, <1>2, SetAt
<1>4. e \in [Sessions -> SessionState]
  BY <1>3 DEF Moves
<1>5. Moves(e, g, s, State(e[s].stmt, e[s].phase, e[s].at, e[s].out, x))
  BY ONLY <1>4, s \in Sessions, x \in Nat, <1>2, SetHits
<1>6. e[s].stmt = f[s].stmt /\ e[s].phase = f[s].phase /\ e[s].at = n /\ e[s].out = f[s].out
  BY <1>3, StateFields DEF Moves
<1>7. Moves(e, g, s, State(f[s].stmt, f[s].phase, n, f[s].out, x))
  BY <1>5, <1>6
<1> QED BY <1>3, <1>7 DEF Moves, n

LEMMA SetPhaseAndAt ==
  ASSUME NEW f \in [Sessions -> SessionState], NEW s \in Sessions, NEW g,
         g = [f EXCEPT ![s].phase = "filter", ![s].at = 1]
  PROVE  Moves(f, g, s, State(f[s].stmt, "filter", 1, f[s].out, f[s].hits))
<1> DEFINE e == [f EXCEPT ![s].phase = "filter"]
<1>1. "filter" \in {"idle", "scan", "filter", "done", "refused"} /\ 1 \in Nat \ {0}
  OBVIOUS
<1>2. e = [f EXCEPT ![s].phase = "filter"] /\ g = [e EXCEPT ![s].at = 1]
  OBVIOUS
<1> HIDE DEF e
<1>3. Moves(f, e, s, State(f[s].stmt, "filter", f[s].at, f[s].out, f[s].hits))
  BY ONLY f \in [Sessions -> SessionState], s \in Sessions, <1>1, <1>2, SetPhase
<1>4. e \in [Sessions -> SessionState]
  BY <1>3 DEF Moves
<1>5. Moves(e, g, s, State(e[s].stmt, e[s].phase, 1, e[s].out, e[s].hits))
  BY ONLY <1>4, s \in Sessions, <1>1, <1>2, SetAt
<1>6. e[s].stmt = f[s].stmt /\ e[s].phase = "filter" /\ e[s].out = f[s].out /\ e[s].hits = f[s].hits
  BY <1>3, StateFields DEF Moves
<1>7. Moves(e, g, s, State(f[s].stmt, "filter", 1, f[s].out, f[s].hits))
  BY <1>5, <1>6
<1> QED BY <1>3, <1>7 DEF Moves

LEMMA RowsAreSlots ==
  /\ Rows \in Seq(Slot) /\ Len(Rows) \in Nat /\ DOMAIN Rows = 1 .. Len(Rows)
  /\ \A p \in 1 .. Len(Rows) : Rows[p] \in Slot
  /\ Gone \notin Tuples
<1>1. Rows \in Seq(Slot) /\ Gone \notin Tuples
  BY TableAssumption DEF Slot, Tuples
<1> HIDE DEF Slot
<1>2. Len(Rows) \in Nat /\ DOMAIN Rows = 1 .. Len(Rows)
  BY ONLY <1>1, LenProperties
<1>3. \A p \in 1 .. Len(Rows) : Rows[p] \in Slot
  BY ONLY <1>1, ElementOfSeq
<1> QED BY <1>1, <1>2, <1>3

LEMMA InitTyped == Init => WhereTypeOK
<1> SUFFICES ASSUME Init PROVE WhereTypeOK
  OBVIOUS
<1>1. Idle \in SessionState
  BY EmptySeq DEF Idle, SessionState, NoStatement
<1>2. sess \in [Sessions -> SessionState]
  BY <1>1 DEF Init
<1> QED BY <1>2, RowsAreSlots DEF Init, WhereTypeOK

LEMMA SubmitMoves ==
  ASSUME WhereTypeOK, NEW s \in Sessions, NEW stmt \in Statements, Submit(s, stmt)
  PROVE  /\ slots' = slots /\ ~down /\ (down' <=> Analyse(stmt) = "crash") /\ down' \in BOOLEAN
         /\ sess[s].phase = "idle"
         /\ Moves(sess, sess', s,
                  State(stmt, IF Analyse(stmt) = "accept" THEN "scan" ELSE "refused", 1, <<>>, 0))
<1> DEFINE ph == IF Analyse(stmt) = "accept" THEN "scan" ELSE "refused"
           q == State(stmt, ph, 1, <<>>, 0)
<1>1. <<>> \in Seq(Slot)
  BY EmptySeq
<1>2. q \in SessionState
  BY <1>1 DEF SessionState, State
<1>3. [Idle EXCEPT !.stmt = stmt, !.phase = ph] = q
  <2>1. ph \in {"scan", "refused"}
    OBVIOUS
  <2> HIDE DEF ph
  <2>2. [Idle EXCEPT !.stmt = stmt] = State(stmt, "idle", 1, <<>>, 0)
    BY DEF Idle, State
  <2>3. [State(stmt, "idle", 1, <<>>, 0) EXCEPT !.phase = ph] = q
    BY DEF State
  <2> QED BY <2>2, <2>3
<1> HIDE DEF q
<1>4. sess' = [sess EXCEPT ![s] = q]
  BY <1>3 DEF Submit
<1>5. sess \in [Sessions -> SessionState]
  BY DEF WhereTypeOK
<1>6. Moves(sess, sess', s, q)
  BY <1>2, <1>4, <1>5 DEF Moves
<1> QED BY <1>6 DEF Submit, q

\* What is at hand at a step of a scan.
LEMMA ScanAt ==
  ASSUME WhereTypeOK, NEW s \in Sessions, sess[s].at <= Len(slots)
  PROVE  /\ sess[s].at \in 1 .. Len(slots) /\ slots[sess[s].at] \in Slot
         /\ Len(slots) \in Nat
<1>1. sess[s].at \in Nat \ {0}
  BY DEF WhereTypeOK, SessionState
<1>2. Len(slots) \in Nat
  BY LenProperties DEF WhereTypeOK
<1>3. sess[s].at \in 1 .. Len(slots)
  BY <1>1, <1>2
<1> QED BY <1>2, <1>3, ElementOfSeq DEF WhereTypeOK

LEMMA SessionForm ==
  ASSUME WhereTypeOK, NEW s \in Sessions
  PROVE  /\ sess \in [Sessions -> SessionState]
         /\ sess[s].stmt \in Statements \cup {NoStatement} /\ sess[s].at \in Nat \ {0}
         /\ sess[s].phase \in {"idle", "scan", "filter", "done", "refused"}
         /\ sess[s].out \in Seq(Slot) /\ sess[s].hits \in Nat
BY DEF WhereTypeOK, SessionState

LEMMA PassMoves ==
  ASSUME WhereTypeOK, NEW s \in Sessions, Pass(s)
  PROVE  /\ slots' = slots /\ ~down /\ ~down' /\ down' \in BOOLEAN /\ sess[s].phase = "scan"
         /\ sess[s].at \in 1 .. Len(slots) /\ slots[sess[s].at] = Gone
         /\ Moves(sess, sess', s, State(sess[s].stmt, "scan", sess[s].at + 1, sess[s].out, sess[s].hits))
<1> DEFINE n == sess[s].at + 1
<1>1. sess[s].at <= Len(slots) /\ sess[s].phase = "scan" /\ ~down /\ slots[sess[s].at] = Gone /\ UNCHANGED <<slots, down>>
  BY DEF Pass, At
<1>2. sess' = [sess EXCEPT ![s].at = n] /\ n \in Nat \ {0} /\ sess \in [Sessions -> SessionState]
  BY SessionForm DEF Pass
<1> HIDE DEF n
<1>3. Moves(sess, sess', s, State(sess[s].stmt, sess[s].phase, n, sess[s].out, sess[s].hits))
  BY ONLY <1>2, s \in Sessions, SetAt
<1>4. down' \in BOOLEAN
  BY <1>1 DEF WhereTypeOK
<1> QED BY <1>1, <1>3, <1>4, ScanAt DEF n

\* A statement that is on its way was submitted.
LEMMA VerbIsStatement ==
  ASSUME WhereTypeOK, NEW s \in Sessions, sess[s].stmt.verb # "none"
  PROVE  sess[s].stmt \in Statements
BY SessionForm DEF NoStatement

LEMMA AtRowForm ==
  ASSUME WhereTypeOK, NEW s \in Sessions, NEW verb \in {"delete", "update", "select"}, AtRow(s, verb)
  PROVE  /\ ~down /\ sess[s].phase = "scan" /\ sess[s].stmt.verb = verb /\ sess[s].stmt \in Statements
         /\ sess[s].at \in 1 .. Len(slots) /\ slots[sess[s].at] \in Tuples /\ slots[sess[s].at] # Gone
<1>1. /\ ~down /\ sess[s].phase = "scan" /\ sess[s].stmt.verb = verb /\ sess[s].at <= Len(slots)
      /\ slots[sess[s].at] # Gone
  BY DEF AtRow, At
<1>2. sess[s].at \in 1 .. Len(slots) /\ slots[sess[s].at] \in Slot
  BY <1>1, ScanAt
<1> QED BY <1>1, <1>2, VerbIsStatement DEF Slot

LEMMA DeleteMoves ==
  ASSUME WhereTypeOK, NEW s \in Sessions, DeleteStep(s),
         NEW chosen, chosen = (~Aborts(sess[s].stmt.where) /\ EvalRow(slots[sess[s].at], sess[s].stmt.where))
  PROVE  /\ AtRow(s, "delete") /\ (down' <=> Aborts(sess[s].stmt.where)) /\ down' \in BOOLEAN
         /\ slots' = IF chosen THEN [slots EXCEPT ![sess[s].at] = Gone] ELSE slots
         /\ Moves(sess, sess', s, State(sess[s].stmt, "scan", sess[s].at + 1, sess[s].out,
                                        IF chosen THEN sess[s].hits + 1 ELSE sess[s].hits))
<1> DEFINE n == IF chosen THEN sess[s].hits + 1 ELSE sess[s].hits
<1>1. /\ AtRow(s, "delete") /\ slots' = IF chosen THEN [slots EXCEPT ![sess[s].at] = Gone] ELSE slots
      /\ down' = Aborts(sess[s].stmt.where)
      /\ sess' = [sess EXCEPT ![s].at = @ + 1, ![s].hits = n]
  BY DEF DeleteStep
<1>2. n \in Nat /\ sess \in [Sessions -> SessionState]
  BY SessionForm
<1> HIDE DEF n
<1>3. Moves(sess, sess', s, State(sess[s].stmt, sess[s].phase, sess[s].at + 1, sess[s].out, n))
  BY ONLY <1>1, <1>2, s \in Sessions, SetAtAndHits
<1>4. down' \in BOOLEAN
  BY <1>1 DEF Aborts
<1> QED BY <1>1, <1>3, <1>4, AtRowForm DEF n

LEMMA UpdateMoves ==
  ASSUME WhereTypeOK, NEW s \in Sessions, UpdateStep(s),
         NEW chosen, chosen = (~Aborts(sess[s].stmt.where) /\ EvalRow(slots[sess[s].at], sess[s].stmt.where))
  PROVE  /\ AtRow(s, "update") /\ (down' <=> Aborts(sess[s].stmt.where)) /\ down' \in BOOLEAN
         /\ slots' = IF chosen THEN [slots EXCEPT ![sess[s].at] = Assigned(slots[sess[s].at], sess[s].stmt.set)] ELSE slots
         /\ Moves(sess, sess', s, State(sess[s].stmt, "scan", sess[s].at + 1, sess[s].out,
                                        IF chosen THEN sess[s].hits + 1 ELSE sess[s].hits))
<1> DEFINE n == IF chosen THEN sess[s].hits + 1 ELSE sess[s].hits
<1>1. /\ AtRow(s, "update")
      /\ slots' = IF chosen THEN [slots EXCEPT ![sess[s].at] = Assigned(slots[sess[s].at], sess[s].stmt.set)] ELSE slots
      /\ down' = Aborts(sess[s].stmt.where)
      /\ sess' = [sess EXCEPT ![s].at = @ + 1, ![s].hits = n]
  BY DEF UpdateStep
<1>2. n \in Nat /\ sess \in [Sessions -> SessionState]
  BY SessionForm
<1> HIDE DEF n
<1>3. Moves(sess, sess', s, State(sess[s].stmt, sess[s].phase, sess[s].at + 1, sess[s].out, n))
  BY ONLY <1>1, <1>2, s \in Sessions, SetAtAndHits
<1>4. down' \in BOOLEAN
  BY <1>1 DEF Aborts
<1> QED BY <1>1, <1>3, <1>4, AtRowForm DEF n

LEMMA CopyMoves ==
  ASSUME WhereTypeOK, NEW s \in Sessions, CopyStep(s)
  PROVE  /\ AtRow(s, "select") /\ ~down' /\ down' \in BOOLEAN /\ slots' = slots
         /\ Moves(sess, sess', s, State(sess[s].stmt, "scan", sess[s].at + 1,
                                        Append(sess[s].out, slots[sess[s].at]), sess[s].hits))
<1> DEFINE o == Append(sess[s].out, slots[sess[s].at])
<1>1. AtRow(s, "select") /\ sess' = [sess EXCEPT ![s].at = @ + 1, ![s].out = o] /\ UNCHANGED <<slots, down>>
  BY DEF CopyStep
<1>2. o \in Seq(Slot) /\ sess \in [Sessions -> SessionState]
  <2>1. slots[sess[s].at] \in Slot /\ sess[s].out \in Seq(Slot)
    BY <1>1, AtRowForm, SessionForm DEF Slot
  <2> HIDE DEF Slot
  <2> QED BY <2>1, SessionForm
<1> HIDE DEF o
<1>3. Moves(sess, sess', s, State(sess[s].stmt, sess[s].phase, sess[s].at + 1, o, sess[s].hits))
  BY ONLY <1>1, <1>2, s \in Sessions, SetAtAndOut
<1>4. ~down /\ down' \in BOOLEAN
  BY <1>1, AtRowForm DEF WhereTypeOK
<1> QED BY <1>1, <1>3, <1>4, AtRowForm DEF o

LEMMA ScanEndMoves ==
  ASSUME WhereTypeOK, NEW s \in Sessions, ScanEnd(s),
         NEW filters, filters = (sess[s].stmt.verb = "select" /\ sess[s].stmt.where.node # "none")
  PROVE  /\ ~down /\ sess[s].phase = "scan" /\ sess[s].at > Len(slots) /\ slots' = slots /\ down' \in BOOLEAN
         /\ down' <=> sess[s].stmt.verb = "select" /\ sess[s].stmt.where.node = "none" /\ sess[s].out = <<>>
         /\ filters => Moves(sess, sess', s, State(sess[s].stmt, "filter", 1, sess[s].out, sess[s].hits))
         /\ ~filters => Moves(sess, sess', s, State(sess[s].stmt, "done", sess[s].at, sess[s].out, sess[s].hits))
<1>1. /\ ~down /\ sess[s].phase = "scan" /\ sess[s].at > Len(slots) /\ slots' = slots
      /\ down' = (sess[s].stmt.verb = "select" /\ sess[s].stmt.where.node = "none" /\ sess[s].out = <<>>)
      /\ sess' = IF filters THEN [sess EXCEPT ![s].phase = "filter", ![s].at = 1]
                 ELSE [sess EXCEPT ![s].phase = "done"]
  BY DEF ScanEnd
<1>2. sess \in [Sessions -> SessionState] /\ "done" \in {"idle", "scan", "filter", "done", "refused"}
  BY SessionForm
<1>3. ASSUME filters PROVE Moves(sess, sess', s, State(sess[s].stmt, "filter", 1, sess[s].out, sess[s].hits))
  <2>1. sess' = [sess EXCEPT ![s].phase = "filter", ![s].at = 1]
    BY <1>1, <1>3
  <2> QED BY ONLY <1>2, <2>1, s \in Sessions, SetPhaseAndAt
<1>4. ASSUME ~filters PROVE Moves(sess, sess', s, State(sess[s].stmt, "done", sess[s].at, sess[s].out, sess[s].hits))
  <2>1. sess' = [sess EXCEPT ![s].phase = "done"]
    BY <1>1, <1>4
  <2> QED BY ONLY <1>2, <2>1, s \in Sessions, SetPhase
<1> QED BY <1>1, <1>3, <1>4

LEMMA FilterMoves ==
  ASSUME WhereTypeOK, NEW s \in Sessions, FilterStep(s)
  PROVE  /\ ~down /\ ~down' /\ down' \in BOOLEAN /\ slots' = slots /\ sess[s].phase = "filter"
         /\ sess[s].at \in 1 .. Len(sess[s].out)
         /\ \E keep \in BOOLEAN :
              /\ Mixed(sess[s].stmt.where) \/ keep = SelectEvalRow(sess[s].out[sess[s].at], sess[s].stmt.where)
              /\ Moves(sess, sess', s, State(sess[s].stmt, "filter", sess[s].at + 1,
                         IF keep THEN sess[s].out ELSE [sess[s].out EXCEPT ![sess[s].at] = Gone], sess[s].hits))
<1>1. ~down /\ sess[s].phase = "filter" /\ sess[s].at <= Len(sess[s].out) /\ UNCHANGED <<slots, down>>
  BY DEF FilterStep
<1>2. PICK keep \in BOOLEAN :
        /\ Mixed(sess[s].stmt.where) \/ keep = SelectEvalRow(sess[s].out[sess[s].at], sess[s].stmt.where)
        /\ sess' = [sess EXCEPT ![s].at = @ + 1,
                                ![s].out = IF keep THEN sess[s].out ELSE [sess[s].out EXCEPT ![sess[s].at] = Gone]]
  BY DEF FilterStep
<1> DEFINE o == IF keep THEN sess[s].out ELSE [sess[s].out EXCEPT ![sess[s].at] = Gone]
<1>3. sess \in [Sessions -> SessionState] /\ sess[s].out \in Seq(Slot) /\ sess[s].at \in Nat \ {0} /\ Gone \in Slot
  BY SessionForm DEF Slot
<1>4. Len(sess[s].out) \in Nat
  <2> HIDE DEF Slot
  <2> QED BY <1>3, LenProperties
<1>5. sess[s].at \in 1 .. Len(sess[s].out)
  BY <1>1, <1>3, <1>4
<1>6. o \in Seq(Slot)
  <2> DEFINE w == sess[s].out
             i == sess[s].at
  <2>1. w \in Seq(Slot) /\ i \in 1 .. Len(w) /\ Gone \in Slot
    BY <1>3, <1>5
  <2>2. [w EXCEPT ![i] = Gone] \in Seq(Slot)
    <3> HIDE DEF w, i
    <3> QED BY ONLY <2>1, ExceptSeq
  <2> QED BY <2>1, <2>2
<1>7. sess' = [sess EXCEPT ![s].at = @ + 1, ![s].out = o]
  BY <1>2
<1> HIDE DEF o
<1>8. Moves(sess, sess', s, State(sess[s].stmt, sess[s].phase, sess[s].at + 1, o, sess[s].hits))
  BY ONLY <1>3, <1>6, <1>7, s \in Sessions, SetAtAndOut
<1>9. down' \in BOOLEAN
  BY <1>1 DEF WhereTypeOK
<1> QED BY <1>1, <1>2, <1>5, <1>8, <1>9 DEF o

LEMMA FilterEndMoves ==
  ASSUME WhereTypeOK, NEW s \in Sessions, FilterEnd(s)
  PROVE  /\ ~down /\ (down' <=> sess[s].out = <<>>) /\ down' \in BOOLEAN /\ slots' = slots
         /\ sess[s].phase = "filter" /\ sess[s].at > Len(sess[s].out)
         /\ Moves(sess, sess', s, State(sess[s].stmt, "done", sess[s].at, sess[s].out, sess[s].hits))
<1>1. /\ ~down /\ down' = (sess[s].out = <<>>) /\ slots' = slots /\ sess[s].phase = "filter"
      /\ sess[s].at > Len(sess[s].out) /\ sess' = [sess EXCEPT ![s].phase = "done"]
  BY DEF FilterEnd
<1>2. sess \in [Sessions -> SessionState] /\ "done" \in {"idle", "scan", "filter", "done", "refused"}
  BY SessionForm
<1>3. Moves(sess, sess', s, State(sess[s].stmt, "done", sess[s].at, sess[s].out, sess[s].hits))
  BY ONLY <1>1, <1>2, s \in Sessions, SetPhase
<1> QED BY <1>1, <1>3

\* What a step leaves of the sessions: only one moves, and it keeps its statement
\* once it has one.
LEMMA MovesSessions ==
  ASSUME WhereTypeOK, Next
  PROVE  /\ ~down /\ down' \in BOOLEAN /\ sess' \in [Sessions -> SessionState]
         /\ \A t \in Sessions :
              \/ sess'[t] = sess[t]
              \/ sess[t].phase \in {"scan", "filter"} /\ sess'[t].stmt = sess[t].stmt
              \/ \E stmt \in Statements :
                   /\ sess'[t].stmt = stmt /\ sess'[t].at = 1 /\ sess'[t].out = <<>> /\ sess'[t].hits = 0
                   /\ sess'[t].phase = IF Analyse(stmt) = "accept" THEN "scan" ELSE "refused"
<1> DEFINE Fine(t) ==
              \/ sess'[t] = sess[t]
              \/ sess[t].phase \in {"scan", "filter"} /\ sess'[t].stmt = sess[t].stmt
              \/ \E stmt \in Statements :
                   /\ sess'[t].stmt = stmt /\ sess'[t].at = 1 /\ sess'[t].out = <<>> /\ sess'[t].hits = 0
                   /\ sess'[t].phase = IF Analyse(stmt) = "accept" THEN "scan" ELSE "refused"
<1> SUFFICES ASSUME NEW s \in Sessions,
                    \/ \E stmt \in Statements : Submit(s, stmt)
                    \/ Pass(s) \/ DeleteStep(s) \/ UpdateStep(s)
                    \/ CopyStep(s) \/ ScanEnd(s) \/ FilterStep(s) \/ FilterEnd(s)
             PROVE  ~down /\ down' \in BOOLEAN /\ sess' \in [Sessions -> SessionState] /\ \A t \in Sessions : Fine(t)
  BY DEF Next
<1>1. ASSUME NEW q, Moves(sess, sess', s, q), sess[s].phase \in {"scan", "filter"}, q.stmt = sess[s].stmt
      PROVE  sess' \in [Sessions -> SessionState] /\ \A t \in Sessions : Fine(t)
  BY <1>1 DEF Moves
<1>2. CASE \E stmt \in Statements : Submit(s, stmt)
  <2>1. PICK stmt \in Statements : Submit(s, stmt)
    BY <1>2
  <2> DEFINE q == State(stmt, IF Analyse(stmt) = "accept" THEN "scan" ELSE "refused", 1, <<>>, 0)
  <2>2. ~down /\ down' \in BOOLEAN /\ Moves(sess, sess', s, q)
    BY <2>1, SubmitMoves
  <2>3. /\ q.stmt = stmt /\ q.at = 1 /\ q.out = <<>> /\ q.hits = 0
        /\ q.phase = IF Analyse(stmt) = "accept" THEN "scan" ELSE "refused"
    BY StateFields
  <2> HIDE DEF q
  <2> QED BY <2>2, <2>3 DEF Moves
<1> HIDE DEF Fine
<1>3. CASE Pass(s)
  BY <1>1, <1>3, PassMoves, StateFields
<1>4. CASE DeleteStep(s)
  <2>1. PICK chosen : chosen = (~Aborts(sess[s].stmt.where) /\ EvalRow(slots[sess[s].at], sess[s].stmt.where))
    OBVIOUS
  <2> QED BY <1>1, <1>4, <2>1, DeleteMoves, AtRowForm, StateFields
<1>5. CASE UpdateStep(s)
  <2>1. PICK chosen : chosen = (~Aborts(sess[s].stmt.where) /\ EvalRow(slots[sess[s].at], sess[s].stmt.where))
    OBVIOUS
  <2> QED BY <1>1, <1>5, <2>1, UpdateMoves, AtRowForm, StateFields
<1>6. CASE CopyStep(s)
  BY <1>1, <1>6, CopyMoves, AtRowForm, StateFields
<1>7. CASE ScanEnd(s)
  <2>1. PICK filters : filters = (sess[s].stmt.verb = "select" /\ sess[s].stmt.where.node # "none")
    OBVIOUS
  <2>2. ~down /\ sess[s].phase = "scan" /\ down' \in BOOLEAN
    BY <1>7, <2>1, ScanEndMoves
  <2>3. \/ Moves(sess, sess', s, State(sess[s].stmt, "filter", 1, sess[s].out, sess[s].hits))
        \/ Moves(sess, sess', s, State(sess[s].stmt, "done", sess[s].at, sess[s].out, sess[s].hits))
    BY <1>7, <2>1, ScanEndMoves
  <2>4. ASSUME NEW phase, NEW at, Moves(sess, sess', s, State(sess[s].stmt, phase, at, sess[s].out, sess[s].hits))
        PROVE  sess' \in [Sessions -> SessionState] /\ \A t \in Sessions : Fine(t)
    <3> DEFINE q == State(sess[s].stmt, phase, at, sess[s].out, sess[s].hits)
    <3>1. q.stmt = sess[s].stmt /\ Moves(sess, sess', s, q) /\ sess[s].phase \in {"scan", "filter"}
      BY <2>2, <2>4, StateFields
    <3> HIDE DEF q
    <3> QED BY ONLY <1>1, <3>1
  <2>5. CASE Moves(sess, sess', s, State(sess[s].stmt, "filter", 1, sess[s].out, sess[s].hits))
    BY <2>2, <2>4, <2>5
  <2>6. CASE Moves(sess, sess', s, State(sess[s].stmt, "done", sess[s].at, sess[s].out, sess[s].hits))
    BY <2>2, <2>4, <2>6
  <2> QED BY <2>3, <2>5, <2>6
<1>8. CASE FilterStep(s)
  <2>1. ~down /\ down' \in BOOLEAN /\ sess[s].phase = "filter"
    BY <1>8, FilterMoves
  <2>2. PICK keep \in BOOLEAN :
          Moves(sess, sess', s, State(sess[s].stmt, "filter", sess[s].at + 1,
                IF keep THEN sess[s].out ELSE [sess[s].out EXCEPT ![sess[s].at] = Gone], sess[s].hits))
    BY <1>8, FilterMoves
  <2> DEFINE q == State(sess[s].stmt, "filter", sess[s].at + 1,
                        IF keep THEN sess[s].out ELSE [sess[s].out EXCEPT ![sess[s].at] = Gone], sess[s].hits)
  <2>3. q.stmt = sess[s].stmt /\ Moves(sess, sess', s, q) /\ sess[s].phase \in {"scan", "filter"}
    BY <2>1, <2>2, StateFields
  <2> HIDE DEF q
  <2>4. sess' \in [Sessions -> SessionState] /\ \A t \in Sessions : Fine(t)
    BY ONLY <1>1, <2>3
  <2> QED BY <2>1, <2>4
<1>9. CASE FilterEnd(s)
  BY <1>1, <1>9, FilterEndMoves, StateFields
<1> QED BY <1>2, <1>3, <1>4, <1>5, <1>6, <1>7, <1>8, <1>9

\* What a step does to the table: nothing, or a deletion or an update of the row
\* that the session stands on.
Writes(s) ==
  /\ sess[s].phase = "scan" /\ sess[s].stmt \in Statements
  /\ sess[s].at \in 1 .. Len(slots) /\ slots[sess[s].at] \in Tuples
  /\ \/ sess[s].stmt.verb = "delete" /\ slots' = [slots EXCEPT ![sess[s].at] = Gone]
     \/ /\ sess[s].stmt.verb = "update"
        /\ slots' = [slots EXCEPT ![sess[s].at] = Assigned(slots[sess[s].at], sess[s].stmt.set)]

LEMMA WritesOneRow ==
  ASSUME WhereTypeOK, Next
  PROVE  slots' = slots \/ \E s \in Sessions : Writes(s)
<1> SUFFICES ASSUME NEW s \in Sessions,
                    \/ \E stmt \in Statements : Submit(s, stmt)
                    \/ Pass(s) \/ DeleteStep(s) \/ UpdateStep(s)
                    \/ CopyStep(s) \/ ScanEnd(s) \/ FilterStep(s) \/ FilterEnd(s)
             PROVE  slots' = slots \/ Writes(s)
  BY DEF Next
<1>1. CASE DeleteStep(s)
  <2>1. PICK chosen : chosen = (~Aborts(sess[s].stmt.where) /\ EvalRow(slots[sess[s].at], sess[s].stmt.where))
    OBVIOUS
  <2>2. AtRow(s, "delete") /\ slots' = IF chosen THEN [slots EXCEPT ![sess[s].at] = Gone] ELSE slots
    BY <1>1, <2>1, DeleteMoves
  <2> QED BY <2>2, AtRowForm DEF Writes
<1>2. CASE UpdateStep(s)
  <2>1. PICK chosen : chosen = (~Aborts(sess[s].stmt.where) /\ EvalRow(slots[sess[s].at], sess[s].stmt.where))
    OBVIOUS
  <2>2. /\ AtRow(s, "update")
        /\ slots' = IF chosen THEN [slots EXCEPT ![sess[s].at] = Assigned(slots[sess[s].at], sess[s].stmt.set)] ELSE slots
    BY <1>2, <2>1, UpdateMoves
  <2> QED BY <2>2, AtRowForm DEF Writes
<1>3. CASE ~DeleteStep(s) /\ ~UpdateStep(s)
  BY <1>3 DEF Submit, Pass, CopyStep, ScanEnd, FilterStep, FilterEnd
<1> QED BY <1>1, <1>2, <1>3

LEMMA UpdateIsTyped ==
  ASSUME NEW stmt \in Statements, stmt.verb = "update" PROVE Assignments(stmt.set)
BY StatementsAssumption DEF Assignments

LEMMA WrittenRow ==
  ASSUME WhereTypeOK, NEW s \in Sessions, Writes(s)
  PROVE  \E x \in Slot :
           /\ x = Gone \/ (sess[s].stmt.verb = "update" /\ x = Assigned(slots[sess[s].at], sess[s].stmt.set) /\ x \in Tuples)
           /\ x = Gone => sess[s].stmt.verb = "delete"
           /\ slots' \in Seq(Slot) /\ Len(slots') = Len(slots)
           /\ \A p \in 1 .. Len(slots) : slots'[p] = IF p = sess[s].at THEN x ELSE slots[p]
<1>1. PICK x \in Slot :
        /\ x = Gone \/ (sess[s].stmt.verb = "update" /\ x = Assigned(slots[sess[s].at], sess[s].stmt.set) /\ x \in Tuples)
        /\ x = Gone => sess[s].stmt.verb = "delete"
        /\ slots' = [slots EXCEPT ![sess[s].at] = x]
  <2>1. CASE sess[s].stmt.verb = "delete"
    BY <2>1 DEF Writes, Slot
  <2>2. CASE sess[s].stmt.verb # "delete"
    <3>1. sess[s].stmt.verb = "update" /\ slots' = [slots EXCEPT ![sess[s].at] = Assigned(slots[sess[s].at], sess[s].stmt.set)]
      BY <2>2 DEF Writes
    <3>2. Assigned(slots[sess[s].at], sess[s].stmt.set) \in Tuples
      BY <3>1, UpdateIsTyped, AssignedIsLast DEF Writes
    <3> QED BY <3>1, <3>2, RowsAreSlots DEF Slot
  <2> QED BY <2>1, <2>2
<1>2. slots \in Seq(Slot) /\ sess[s].at \in 1 .. Len(slots)
  BY DEF WhereTypeOK, Writes
<1> DEFINE i == sess[s].at
<1>3. /\ [slots EXCEPT ![i] = x] \in Seq(Slot) /\ Len([slots EXCEPT ![i] = x]) = Len(slots)
      /\ \A j \in 1 .. Len(slots) : [slots EXCEPT ![i] = x][j] = IF j = i THEN x ELSE slots[j]
  <2>1. i \in 1 .. Len(slots)
    BY <1>2
  <2> HIDE DEF i
  <2> QED BY ONLY <1>2, <2>1, x \in Slot, ExceptSeq
<1> HIDE DEF Slot
<1> QED BY <1>1, <1>3

LEMMA NextTyped == ASSUME WhereTypeOK, [Next]_vars PROVE WhereTypeOK'
<1>1. CASE UNCHANGED vars
  BY <1>1 DEF vars, WhereTypeOK
<1>2. CASE Next
  <2>1. sess' \in [Sessions -> SessionState] /\ down' \in BOOLEAN
    BY <1>2, MovesSessions
  <2>2. slots' \in Seq(Slot) /\ Len(slots') = Len(Rows)
    BY <1>2, WritesOneRow, WrittenRow DEF WhereTypeOK
  <2> QED BY <2>1, <2>2 DEF WhereTypeOK
<1> QED BY <1>1, <1>2

\* A session in a scan or behind it runs a statement that was accepted.
AcceptedRun ==
  \A s \in Sessions :
    sess[s].phase \in {"scan", "filter", "done"} =>
      sess[s].stmt \in Statements /\ Analyse(sess[s].stmt) = "accept"

LEMMA InitAccepted == Init => AcceptedRun
BY DEF Init, Idle, AcceptedRun

LEMMA NextAccepted == ASSUME WhereTypeOK, AcceptedRun, [Next]_vars PROVE AcceptedRun'
<1>1. CASE UNCHANGED vars
  BY <1>1 DEF vars, AcceptedRun
<1>2. CASE Next
  <2> SUFFICES ASSUME NEW t \in Sessions, sess'[t].phase \in {"scan", "filter", "done"}
               PROVE  sess'[t].stmt \in Statements /\ Analyse(sess'[t].stmt) = "accept"
    BY DEF AcceptedRun
  <2> QED BY <1>2, MovesSessions DEF AcceptedRun
<1> QED BY <1>1, <1>2

WhereTyped == WhereTypeOK /\ AcceptedRun

LEMMA WhereTypedAlways == Spec => []WhereTyped
<1>1. Init => WhereTyped
  BY InitTyped, InitAccepted DEF WhereTyped
<1>2. WhereTyped /\ [Next]_vars => WhereTyped'
  BY NextTyped, NextAccepted DEF WhereTyped
<1> QED BY <1>1, <1>2, PTL DEF Spec

\* Every session runs a statement as it was submitted, on a table whose slots
\* hold rows or nothing.
THEOREM WhereTypeCorrect == Spec => []WhereTypeOK
<1>1. WhereTyped => WhereTypeOK
  BY DEF WhereTyped
<1> QED BY <1>1, WhereTypedAlways, PTL

\* No comparison of a DELETE, UPDATE or SELECT that was accepted reads a value as
\* another type, whatever its condition, unless a SELECT joins two conditions
\* that are both of the wrong type.
THEOREM ComparisonsAlike ==
  ASSUME \A stmt \in Statements : NoTwoWrongs(stmt)
  PROVE  Spec => []ComparedAlike
<1>1. WhereTyped => ComparedAlike
  BY AcceptedAlike DEF WhereTyped, AcceptedRun, ComparedAlike
<1> QED BY <1>1, WhereTypedAlways, PTL
-----------------------------------------------------------------------------
(* The types of stored values *)

LEMMA LastOne ==
  ASSUME NEW N \in Nat, NEW M \in SUBSET (1 .. N), M # {}
  PROVE  \E p \in M : (\A q \in M : q <= p) /\ (CHOOSE r \in M : \A q \in M : q <= r) = p
<1> DEFINE F == {N - p : p \in M}
<1>1. F \in SUBSET Nat /\ F # {}
  <2>1. ASSUME NEW p \in M PROVE N - p \in Nat
    <3>1. p \in 1 .. N
      OBVIOUS
    <3> QED BY <3>1
  <2>2. F \in SUBSET Nat
    BY <2>1
  <2>3. F # {}
    OBVIOUS
  <2> QED BY <2>2, <2>3
<1>2. PICK f \in F : \A g \in F : f <= g
  <2> HIDE DEF F
  <2> QED BY <1>1, LeastNat
<1>3. PICK p \in M : f = N - p
  BY <1>2
<1>4. ASSUME NEW q \in M PROVE q <= p
  <2>1. N - q \in F /\ q \in Nat /\ p \in Nat
    OBVIOUS
  <2>2. f <= N - q
    BY <1>2, <2>1
  <2> HIDE DEF F
  <2> QED BY <1>3, <2>1, <2>2
<1> HIDE DEF F
<1>5. ASSUME NEW r \in M, \A q \in M : q <= r PROVE r = p
  <2>1. p \in Nat /\ r \in Nat /\ r <= p /\ p <= r
    BY <1>4, <1>5
  <2> QED BY <2>1
<1> QED BY <1>4, <1>5

\* What an accepted UPDATE assigns suits its column.
LEMMA AssignedTyped ==
  ASSUME NEW stmt \in Statements, stmt.verb = "update", Analyse(stmt) = "accept", SetsLiterals(stmt),
         NEW row \in Tuples, \A c \in Columns : row[c].type \in {"null", TypeOf[c]},
         NEW c \in Columns
  PROVE  Assigned(row, stmt.set)[c].type \in {"null", TypeOf[c]}
<1>1. Assignments(stmt.set) /\ Len(stmt.set) \in Nat /\ DOMAIN stmt.set = 1 .. Len(stmt.set)
  BY UpdateIsTyped DEF Assignments
<1>2. Assigned(row, stmt.set)[c] = FirstAssigned(row, stmt.set, Len(stmt.set), c)
  BY <1>1, AssignedIsLast
<1> DEFINE mine == {p \in 1 .. Len(stmt.set) : stmt.set[p].field = c}
<1>3. CASE mine = {}
  BY <1>2, <1>3 DEF FirstAssigned
<1>4. CASE mine # {}
  <2>1. PICK p \in mine : (CHOOSE r \in mine : \A q \in mine : q <= r) = p
    <3>1. mine \in SUBSET (1 .. Len(stmt.set))
      OBVIOUS
    <3> HIDE DEF mine
    <3> QED BY <1>1, <1>4, <3>1, LastOne
  <2>2. FirstAssigned(row, stmt.set, Len(stmt.set), c) = Stored(c, stmt.set[p].value)
    <3>1. FirstAssigned(row, stmt.set, Len(stmt.set), c)
            = IF mine = {} THEN row[c] ELSE Stored(c, stmt.set[CHOOSE r \in mine : \A q \in mine : q <= r].value)
      BY DEF FirstAssigned
    <3> HIDE DEF mine
    <3> QED BY <1>4, <2>1, <3>1
  <2>3. p \in DOMAIN stmt.set /\ stmt.set[p].field = c
    BY <1>1
  <2> DEFINE v == stmt.set[p].value
  <2>4. ~IsName(v) /\ AssignFits(c, v)
    BY <2>3 DEF SetsLiterals, Analyse, AnalyseUpdate
  <2>5. FieldToValueFits("<>", [name |-> c], v)
    BY <2>4 DEF AssignFits
  <2>6. v.type \in {"null", TypeOf[c]}
    BY <2>5 DEF FieldToValueFits
  <2>7. Stored(c, v) = v
    BY <2>4 DEF Stored
  <2> QED BY <1>2, <2>2, <2>6, <2>7
<1> QED BY <1>3, <1>4

\* The rows of the table at first.
LEMMA RowForm ==
  \A p \in DOMAIN Rows : Rows[p] # Gone => Rows[p] \in Tuples /\ \A c \in Columns : Rows[p][c].type \in {"null", TypeOf[c]}
BY RowsAreSlots, TableAssumption DEF Slot

\* An UPDATE from literals leaves only values of the column's type, and NULL,
\* whatever else runs against the table.
THEOREM CellsStayTyped ==
  ASSUME \A stmt \in Statements : SetsLiterals(stmt)
  PROVE  Spec => []CellsTyped
<1> DEFINE IInv == WhereTyped /\ CellsTyped
<1>1. Init => CellsTyped
  BY RowForm DEF Init, CellsTyped
<1>2. ASSUME WhereTyped, CellsTyped, Next PROVE CellsTyped'
  <2>1. CASE slots' = slots
    BY <1>2, <2>1 DEF CellsTyped
  <2>2. CASE \E s \in Sessions : Writes(s)
    <3>1. PICK s \in Sessions : Writes(s)
      BY <2>2
    <3>2. WhereTypeOK
      BY <1>2 DEF WhereTyped
    <3>3. PICK x \in Slot :
            /\ x = Gone \/ (sess[s].stmt.verb = "update" /\ x = Assigned(slots[sess[s].at], sess[s].stmt.set) /\ x \in Tuples)
            /\ slots' \in Seq(Slot) /\ Len(slots') = Len(slots)
            /\ \A p \in 1 .. Len(slots) : slots'[p] = IF p = sess[s].at THEN x ELSE slots[p]
      BY <3>1, <3>2, WrittenRow
    <3>4. DOMAIN slots = 1 .. Len(slots) /\ DOMAIN slots' = 1 .. Len(slots)
      <4>1. slots \in Seq(Slot)
        BY <3>2 DEF WhereTypeOK
      <4> HIDE DEF Slot
      <4> QED BY <3>3, <4>1, LenProperties
    <3>5. /\ sess[s].stmt \in Statements /\ Analyse(sess[s].stmt) = "accept"
          /\ sess[s].at \in 1 .. Len(slots) /\ slots[sess[s].at] \in Tuples
      BY <1>2, <3>1 DEF Writes, WhereTyped, AcceptedRun
    <3>6. x = Gone \/ \A c \in Columns : x[c].type \in {"null", TypeOf[c]}
      <4>1. slots[sess[s].at] # Gone
        BY <3>5, RowsAreSlots
      <4>2. \A c \in Columns : slots[sess[s].at][c].type \in {"null", TypeOf[c]}
        BY <1>2, <3>4, <3>5, <4>1 DEF CellsTyped
      <4>3. SetsLiterals(sess[s].stmt)
        BY <3>5
      <4> QED BY <3>3, <3>5, <4>2, <4>3, AssignedTyped
    <3>7. ASSUME NEW p \in 1 .. Len(slots), slots'[p] # Gone, NEW c \in Columns
          PROVE  slots'[p][c].type \in {"null", TypeOf[c]}
      <4>1. CASE p = sess[s].at
        BY <3>3, <3>6, <3>7, <4>1
      <4>2. CASE p # sess[s].at
        BY <1>2, <3>3, <3>4, <3>7, <4>2 DEF CellsTyped
      <4> QED BY <4>1, <4>2
    <3> QED BY <3>4, <3>7 DEF CellsTyped
  <2>3. slots' = slots \/ \E s \in Sessions : Writes(s)
    BY <1>2, WritesOneRow DEF WhereTyped
  <2> QED BY <2>1, <2>2, <2>3
<1>3. ASSUME CellsTyped, UNCHANGED vars PROVE CellsTyped'
  BY <1>3 DEF CellsTyped, vars
<1>4. CellsTyped /\ WhereTyped /\ [Next]_vars => CellsTyped'
  BY <1>2, <1>3
<1> QED BY <1>1, <1>4, WhereTypedAlways, PTL DEF Spec
-----------------------------------------------------------------------------
(* Whatever is accepted is carried out *)

LEMMA KnownNames ==
  ASSUME NEW c, ColumnsExist(c), NEW l \in Leaves[c]
  PROVE  ~UnknownName(l)
BY DEF ColumnsExist, UnknownName

LEMMA AnalyseReturns ==
  ASSUME NEW stmt \in Statements, NoTraps(stmt)
  PROVE  Analyse(stmt) # "crash"
<1> DEFINE c == stmt.where
<1>1. c \in Conditions /\ stmt.verb \in {"delete", "update", "select"}
  BY StatementsAssumption
<1>2. CASE stmt.verb = "select"
  <2> SUFFICES ASSUME AnalyseSelect(stmt) = "crash" PROVE FALSE
    BY <1>2 DEF Analyse
  <2>1. /\ ColumnsExist(c) /\ InEntriesRaw(c)
        /\ \E l \in Leaves[c] : UnknownName(l) \/ (l.node = "isin" /\ InTrips(l))
    BY DEF AnalyseSelect
  <2>2. PICK l \in Leaves[c] : UnknownName(l) \/ (l.node = "isin" /\ InTrips(l))
    BY <2>1
  <2>3. l.node = "isin" /\ InTrips(l)
    BY <2>1, <2>2, KnownNames
  <2>4. IsName(l.args[1]) /\ \A p \in DOMAIN l.args : IsName(l.args[p]) \/ l.args[p].type # "null"
    BY <1>2, <2>3 DEF NoTraps
  <2>5. Len(l.args) \in Nat \ {0, 1} /\ DOMAIN l.args = 1 .. Len(l.args)
    BY <1>1, <2>3, LeafKinds DEF IsCondition
  <2>6. PICK p \in 2 .. Len(l.args) : l.args[p].type = "null"
    BY <2>3, <2>4 DEF InTrips
  <2>7. p \in DOMAIN l.args /\ 1 \in DOMAIN l.args /\ p # 1
    BY <2>5
  <2>8. 1 \in InFields(l) /\ p \in InFields(l)
    BY <2>4, <2>6, <2>7 DEF InFields
  <2> QED BY <2>1, <2>3, <2>7, <2>8 DEF InEntriesRaw
<1>3. CASE stmt.verb # "select"
  <2> SUFFICES ASSUME Analyse(stmt) = "crash" PROVE FALSE
    OBVIOUS
  <2>1. ColumnsExist(c) /\ ValueTypes[c] = "crash"
    BY <1>1, <1>3 DEF Analyse, AnalyseDelete, AnalyseUpdate
  <2>2. PICK l \in Leaves[c] : LeafVerdict(l) = "crash"
    BY <1>1, <2>1, CrashingLeaf
  <2>3. l.node = "isin" /\ InFields(l) = {}
    BY <2>1, <2>2, KnownNames DEF LeafVerdict
  <2> QED BY <2>3 DEF NoTraps
<1> QED BY <1>2, <1>3

LEMMA AcceptedDoesNotAbort ==
  ASSUME NEW stmt \in Statements, NoTraps(stmt), Analyse(stmt) = "accept", stmt.verb # "select"
  PROVE  ~Aborts(stmt.where)
<1>1. ColumnsExist(stmt.where)
  BY StatementsAssumption DEF Analyse, AnalyseDelete, AnalyseUpdate
<1> SUFFICES ASSUME NEW l \in Leaves[stmt.where] PROVE ~LeafAborts(l)
  BY DEF Aborts
<1> QED BY <1>1, KnownNames DEF LeafAborts, NoTraps

Step(s) ==
  \/ \E stmt \in Statements : Submit(s, stmt)
  \/ Pass(s) \/ DeleteStep(s) \/ UpdateStep(s)
  \/ CopyStep(s) \/ ScanEnd(s) \/ FilterStep(s) \/ FilterEnd(s)

LEMMA NextIsStep == Next <=> \E s \in Sessions : Step(s)
BY DEF Next, Step

\* A step moves one session.
LEMMA StepMoves ==
  ASSUME WhereTypeOK, NEW s \in Sessions, Step(s)
  PROVE  \A t \in Sessions : t # s => sess'[t] = sess[t]
<1> SUFFICES \E q : Moves(sess, sess', s, q)
  BY DEF Moves
<1>1. CASE \E stmt \in Statements : Submit(s, stmt)
  BY <1>1, SubmitMoves
<1>2. CASE Pass(s)
  BY <1>2, PassMoves
<1>3. CASE DeleteStep(s)
  <2>1. PICK chosen : chosen = (~Aborts(sess[s].stmt.where) /\ EvalRow(slots[sess[s].at], sess[s].stmt.where))
    OBVIOUS
  <2> QED BY <1>3, <2>1, DeleteMoves
<1>4. CASE UpdateStep(s)
  <2>1. PICK chosen : chosen = (~Aborts(sess[s].stmt.where) /\ EvalRow(slots[sess[s].at], sess[s].stmt.where))
    OBVIOUS
  <2> QED BY <1>4, <2>1, UpdateMoves
<1>5. CASE CopyStep(s)
  BY <1>5, CopyMoves
<1>6. CASE ScanEnd(s)
  <2>1. PICK filters : filters = (sess[s].stmt.verb = "select" /\ sess[s].stmt.where.node # "none")
    OBVIOUS
  <2> QED BY <1>6, <2>1, ScanEndMoves
<1>7. CASE FilterStep(s)
  BY <1>7, FilterMoves
<1>8. CASE FilterEnd(s)
  BY <1>8, FilterEndMoves
<1> QED BY <1>1, <1>2, <1>3, <1>4, <1>5, <1>6, <1>7, <1>8 DEF Step

\* A session that runs a statement goes on with it.
LEMMA StepKeepsStatement ==
  ASSUME WhereTypeOK, NEW s \in Sessions, Step(s), sess[s].phase # "idle"
  PROVE  sess'[s].phase # "idle" /\ sess'[s].stmt = sess[s].stmt
<1> DEFINE Kept(q) == q.phase # "idle" /\ q.stmt = sess[s].stmt
<1> SUFFICES \E q : Moves(sess, sess', s, q) /\ Kept(q)
  BY DEF Moves
<1>0. ASSUME NEW phase, phase # "idle", NEW at, NEW out, NEW hits PROVE Kept(State(sess[s].stmt, phase, at, out, hits))
  BY <1>0, StateFields
<1> HIDE DEF Kept
<1>1. CASE \E stmt \in Statements : Submit(s, stmt)
  BY <1>1, SubmitMoves
<1>2. CASE Pass(s)
  BY <1>0, <1>2, PassMoves
<1>3. CASE DeleteStep(s)
  <2>1. PICK chosen : chosen = (~Aborts(sess[s].stmt.where) /\ EvalRow(slots[sess[s].at], sess[s].stmt.where))
    OBVIOUS
  <2>2. Moves(sess, sess', s, State(sess[s].stmt, "scan", sess[s].at + 1, sess[s].out,
                                    IF chosen THEN sess[s].hits + 1 ELSE sess[s].hits))
    BY <1>3, <2>1, DeleteMoves
  <2> QED BY <1>0, <2>2
<1>4. CASE UpdateStep(s)
  <2>1. PICK chosen : chosen = (~Aborts(sess[s].stmt.where) /\ EvalRow(slots[sess[s].at], sess[s].stmt.where))
    OBVIOUS
  <2>2. Moves(sess, sess', s, State(sess[s].stmt, "scan", sess[s].at + 1, sess[s].out,
                                    IF chosen THEN sess[s].hits + 1 ELSE sess[s].hits))
    BY <1>4, <2>1, UpdateMoves
  <2> QED BY <1>0, <2>2
<1>5. CASE CopyStep(s)
  BY <1>0, <1>5, CopyMoves
<1>6. CASE ScanEnd(s)
  <2>1. PICK filters : filters = (sess[s].stmt.verb = "select" /\ sess[s].stmt.where.node # "none")
    OBVIOUS
  <2>2. \/ Moves(sess, sess', s, State(sess[s].stmt, "filter", 1, sess[s].out, sess[s].hits))
        \/ Moves(sess, sess', s, State(sess[s].stmt, "done", sess[s].at, sess[s].out, sess[s].hits))
    BY <1>6, <2>1, ScanEndMoves
  <2> QED BY <1>0, <2>2
<1>7. CASE FilterStep(s)
  <2>1. PICK keep \in BOOLEAN :
          Moves(sess, sess', s, State(sess[s].stmt, "filter", sess[s].at + 1,
                IF keep THEN sess[s].out ELSE [sess[s].out EXCEPT ![sess[s].at] = Gone], sess[s].hits))
    BY <1>7, FilterMoves
  <2> QED BY <1>0, <2>1
<1>8. CASE FilterEnd(s)
  BY <1>0, <1>8, FilterEndMoves
<1> QED BY <1>1, <1>2, <1>3, <1>4, <1>5, <1>6, <1>7, <1>8 DEF Step

\* A slot without a row stays without one, and only a DELETE makes one so.
LEMMA SlotsLost ==
  ASSUME WhereTypeOK, Next
  PROVE  /\ Len(slots') = Len(slots) /\ Len(slots) \in Nat
         /\ \A p \in 1 .. Len(slots) : slots[p] = Gone => slots'[p] = Gone
         /\ \A p \in 1 .. Len(slots) : slots'[p] = Gone /\ slots[p] # Gone =>
              \E s \in Sessions : sess[s].phase = "scan" /\ sess[s].stmt.verb = "delete" /\ sess[s].stmt \in Statements
<1>0. Len(slots) \in Nat
  BY RowsAreSlots DEF WhereTypeOK
<1>1. CASE slots' = slots
  BY <1>0, <1>1
<1>2. CASE \E s \in Sessions : Writes(s)
  <2>1. PICK s \in Sessions : Writes(s)
    BY <1>2
  <2>2. PICK x \in Slot :
          /\ x = Gone => sess[s].stmt.verb = "delete"
          /\ Len(slots') = Len(slots)
          /\ \A p \in 1 .. Len(slots) : slots'[p] = IF p = sess[s].at THEN x ELSE slots[p]
    BY <2>1, WrittenRow
  <2>3. /\ sess[s].phase = "scan" /\ sess[s].stmt \in Statements
        /\ sess[s].at \in 1 .. Len(slots) /\ slots[sess[s].at] # Gone
    BY <2>1, RowsAreSlots DEF Writes
  <2> QED BY <1>0, <2>2, <2>3
<1> QED BY <1>1, <1>2, WritesOneRow

\* A row that is gone was deleted by a statement.
DeletedByStatement ==
  \A p \in 1 .. Len(slots) :
    Rows[p] # Gone /\ slots[p] = Gone =>
      \E s \in Sessions : sess[s].phase # "idle" /\ sess[s].stmt.verb = "delete" /\ sess[s].stmt \in Statements

LEMMA NextDeleted ==
  ASSUME WhereTypeOK, DeletedByStatement, [Next]_vars
  PROVE  DeletedByStatement'
<1>1. CASE UNCHANGED vars
  BY <1>1 DEF vars, DeletedByStatement
<1>2. CASE Next
  <2>1. /\ Len(slots') = Len(slots)
        /\ \A p \in 1 .. Len(slots) : slots'[p] = Gone /\ slots[p] # Gone =>
             \E s \in Sessions : sess[s].phase = "scan" /\ sess[s].stmt.verb = "delete" /\ sess[s].stmt \in Statements
    BY <1>2, SlotsLost
  <2>2. ASSUME NEW p \in 1 .. Len(slots), Rows[p] # Gone, slots'[p] = Gone
        PROVE  \E s \in Sessions : sess[s].phase # "idle" /\ sess[s].stmt.verb = "delete" /\ sess[s].stmt \in Statements
    BY <2>1, <2>2 DEF DeletedByStatement
  <2>3. ASSUME NEW s \in Sessions, sess[s].phase # "idle"
        PROVE  sess'[s].phase # "idle" /\ sess'[s].stmt = sess[s].stmt
    <3>1. PICK t \in Sessions : Step(t)
      BY <1>2, NextIsStep
    <3>2. CASE t # s
      BY <2>3, <3>1, <3>2, StepMoves
    <3>3. CASE t = s
      BY <2>3, <3>1, <3>3, StepKeepsStatement
    <3> QED BY <3>2, <3>3
  <2> QED BY <2>1, <2>2, <2>3 DEF DeletedByStatement
<1> QED BY <1>1, <1>2

\* While the copy of a SELECT is empty, it has met no row; it goes on to its
\* WHERE clause with a copy that is not.
CopyMeetsRows ==
  \A s \in Sessions :
    /\ sess[s].phase = "scan" /\ sess[s].stmt.verb = "select" /\ sess[s].out = <<>> =>
         \A p \in 1 .. Len(slots) : p < sess[s].at => slots[p] = Gone
    /\ sess[s].phase = "filter" => sess[s].out # <<>>

LEMMA SelectMeetsRow ==
  ASSUME WhereTypeOK, AcceptedRun, DeletedByStatement, \A stmt \in Statements : MeetsRows(stmt),
         NEW s \in Sessions, sess[s].phase = "scan", sess[s].stmt.verb = "select"
  PROVE  \E p \in 1 .. Len(slots) : slots[p] # Gone
<1>1. MeetsRows(sess[s].stmt)
  BY DEF AcceptedRun
<1>2. PICK p \in 1 .. Len(slots) : Rows[p] # Gone
  BY <1>1, RowsAreSlots DEF MeetsRows, WhereTypeOK
<1>3. SUFFICES ASSUME slots[p] = Gone PROVE FALSE
  BY <1>2
<1>4. PICK t \in Sessions : sess[t].stmt.verb = "delete" /\ sess[t].stmt \in Statements
  BY <1>2, <1>3 DEF DeletedByStatement
<1> QED BY <1>1, <1>4 DEF MeetsRows, OneSession

LEMMA NextMeets ==
  ASSUME WhereTypeOK, AcceptedRun, DeletedByStatement, CopyMeetsRows, [Next]_vars,
         \A stmt \in Statements : MeetsRows(stmt)
  PROVE  CopyMeetsRows'
<1>1. CASE UNCHANGED vars
  BY <1>1 DEF vars, CopyMeetsRows
<1>2. CASE Next
  <2> DEFINE Met(q, table) ==
               /\ q.phase = "scan" /\ q.stmt.verb = "select" /\ q.out = <<>> =>
                    \A p \in 1 .. Len(slots) : p < q.at => table[p] = Gone
               /\ q.phase = "filter" => q.out # <<>>
  <2>1. /\ Len(slots') = Len(slots) /\ Len(slots) \in Nat
        /\ \A p \in 1 .. Len(slots) : slots[p] = Gone => slots'[p] = Gone
    BY <1>2, SlotsLost
  <2>2. SUFFICES ASSUME NEW t \in Sessions PROVE Met(sess'[t], slots')
    BY <2>1 DEF CopyMeetsRows
  <2>3. Met(sess[t], slots)
    BY DEF CopyMeetsRows
  <2>4. PICK s \in Sessions : Step(s)
    BY <1>2, NextIsStep
  <2>5. CASE s # t
    BY <2>1, <2>3, <2>4, <2>5, StepMoves
  <2>6. CASE s = t
    <3>1. SUFFICES \E q : Moves(sess, sess', s, q) /\ Met(q, slots')
      BY <2>6 DEF Moves
    <3>2. CASE \E stmt \in Statements : Submit(s, stmt)
      <4>1. PICK stmt \in Statements : Submit(s, stmt)
        BY <3>2
      <4>2. Moves(sess, sess', s, State(stmt, IF Analyse(stmt) = "accept" THEN "scan" ELSE "refused", 1, <<>>, 0))
        BY <4>1, SubmitMoves
      <4>3. Met(State(stmt, IF Analyse(stmt) = "accept" THEN "scan" ELSE "refused", 1, <<>>, 0), slots')
        BY <2>1, StateFields
      <4> QED BY <4>2, <4>3
    <3>3. CASE Pass(s)
      <4>1. /\ slots' = slots /\ sess[s].phase = "scan" /\ slots[sess[s].at] = Gone
            /\ Moves(sess, sess', s, State(sess[s].stmt, "scan", sess[s].at + 1, sess[s].out, sess[s].hits))
        BY <3>3, PassMoves
      <4>2. ASSUME sess[s].stmt.verb = "select", sess[s].out = <<>>, NEW p \in 1 .. Len(slots), p < sess[s].at + 1
            PROVE  slots[p] = Gone
        <5>1. sess[s].at \in Nat
          BY SessionForm
        <5>2. p < sess[s].at \/ p = sess[s].at
          BY <2>1, <4>2, <5>1
        <5> QED BY <2>3, <2>6, <4>1, <4>2, <5>2
      <4>3. Met(State(sess[s].stmt, "scan", sess[s].at + 1, sess[s].out, sess[s].hits), slots')
        BY <4>1, <4>2, StateFields
      <4> QED BY <4>1, <4>3
    <3>4. CASE DeleteStep(s) \/ UpdateStep(s)
      <4>1. PICK chosen : chosen = (~Aborts(sess[s].stmt.where) /\ EvalRow(slots[sess[s].at], sess[s].stmt.where))
        OBVIOUS
      <4>2. Moves(sess, sess', s, State(sess[s].stmt, "scan", sess[s].at + 1, sess[s].out,
                                        IF chosen THEN sess[s].hits + 1 ELSE sess[s].hits))
        BY <3>4, <4>1, DeleteMoves, UpdateMoves
      <4>3. sess[s].stmt.verb # "select"
        BY <3>4 DEF DeleteStep, UpdateStep, AtRow, At
      <4>4. Met(State(sess[s].stmt, "scan", sess[s].at + 1, sess[s].out,
                      IF chosen THEN sess[s].hits + 1 ELSE sess[s].hits), slots')
        BY <4>3, StateFields
      <4> QED BY <4>2, <4>4
    <3>5. CASE CopyStep(s)
      <4> DEFINE o == Append(sess[s].out, slots[sess[s].at])
      <4>1. Moves(sess, sess', s, State(sess[s].stmt, "scan", sess[s].at + 1, o, sess[s].hits))
        BY <3>5, CopyMoves
      <4>2. o # <<>>
        <5>1. sess[s].out \in Seq(Slot)
          BY SessionForm
        <5>2. slots[sess[s].at] \in Slot
          BY <3>5, CopyMoves, AtRowForm DEF Slot
        <5> HIDE DEF Slot
        <5>3. Len(o) = Len(sess[s].out) + 1 /\ Len(sess[s].out) \in Nat
          BY <5>1, <5>2, AppendProperties, LenProperties
        <5>4. Len(<<>>) = 0
          BY EmptySeq
        <5> QED BY <5>3, <5>4
      <4> HIDE DEF o
      <4>3. Met(State(sess[s].stmt, "scan", sess[s].at + 1, o, sess[s].hits), slots')
        BY <4>2, StateFields
      <4> QED BY <4>1, <4>3
    <3>6. CASE ScanEnd(s)
      <4>1. PICK filters : filters = (sess[s].stmt.verb = "select" /\ sess[s].stmt.where.node # "none")
        OBVIOUS
      <4>2. /\ sess[s].phase = "scan" /\ sess[s].at > Len(slots)
            /\ filters => Moves(sess, sess', s, State(sess[s].stmt, "filter", 1, sess[s].out, sess[s].hits))
            /\ ~filters => Moves(sess, sess', s, State(sess[s].stmt, "done", sess[s].at, sess[s].out, sess[s].hits))
        BY <3>6, <4>1, ScanEndMoves
      <4>3. ASSUME filters PROVE sess[s].out # <<>>
        <5>1. PICK p \in 1 .. Len(slots) : slots[p] # Gone
          BY <4>1, <4>2, <4>3, SelectMeetsRow
        <5>2. p < sess[s].at
          BY <2>1, <4>2, SessionForm
        <5> QED BY <2>3, <2>6, <4>1, <4>2, <4>3, <5>1, <5>2
      <4>4. filters => Met(State(sess[s].stmt, "filter", 1, sess[s].out, sess[s].hits), slots')
        BY <4>3, StateFields
      <4>5. Met(State(sess[s].stmt, "done", sess[s].at, sess[s].out, sess[s].hits), slots')
        BY StateFields
      <4> QED BY <4>2, <4>4, <4>5
    <3>7. CASE FilterStep(s)
      <4>1. PICK keep \in BOOLEAN :
              Moves(sess, sess', s, State(sess[s].stmt, "filter", sess[s].at + 1,
                    IF keep THEN sess[s].out ELSE [sess[s].out EXCEPT ![sess[s].at] = Gone], sess[s].hits))
        BY <3>7, FilterMoves
      <4> DEFINE o == IF keep THEN sess[s].out ELSE [sess[s].out EXCEPT ![sess[s].at] = Gone]
      <4>2. o # <<>>
        <5>1. sess[s].phase = "filter" /\ sess[s].at \in 1 .. Len(sess[s].out)
          BY <3>7, FilterMoves
        <5>2. sess[s].out # <<>>
          BY <2>3, <2>6, <5>1
        <5>3. sess[s].out \in Seq(Slot) /\ Gone \in Slot
          BY SessionForm DEF Slot
        <5> DEFINE w == sess[s].out
                   i == sess[s].at
        <5>4. Len([w EXCEPT ![i] = Gone]) = Len(w)
          <6>1. w \in Seq(Slot) /\ i \in 1 .. Len(w)
            BY <5>1, <5>3
          <6> HIDE DEF w, i
          <6> QED BY ONLY <5>3, <6>1, ExceptSeq
        <5>5. Len(w) # 0 /\ Len(<<>>) = 0
          BY <5>1, <5>3, EmptySeq
        <5> QED BY <5>2, <5>4, <5>5
      <4> HIDE DEF o
      <4>3. Met(State(sess[s].stmt, "filter", sess[s].at + 1, o, sess[s].hits), slots')
        BY <4>2, StateFields
      <4> QED BY <4>1, <4>3 DEF o
    <3>8. CASE FilterEnd(s)
      <4>1. Moves(sess, sess', s, State(sess[s].stmt, "done", sess[s].at, sess[s].out, sess[s].hits))
        BY <3>8, FilterEndMoves
      <4>2. Met(State(sess[s].stmt, "done", sess[s].at, sess[s].out, sess[s].hits), slots')
        BY StateFields
      <4> QED BY <4>1, <4>2
    <3> QED BY <2>4, <3>2, <3>3, <3>4, <3>5, <3>6, <3>7, <3>8 DEF Step
  <2> QED BY <2>5, <2>6
<1> QED BY <1>1, <1>2

\* A step ends the process for one of three reasons.
LEMMA NextUp ==
  ASSUME WhereTypeOK, AcceptedRun, DeletedByStatement, CopyMeetsRows, Next,
         \A stmt \in Statements : NoTraps(stmt) /\ MeetsRows(stmt)
  PROVE  ~down'
<1>1. PICK s \in Sessions : Step(s)
  BY NextIsStep
<1>2. CASE \E stmt \in Statements : Submit(s, stmt)
  BY <1>2, SubmitMoves, AnalyseReturns
<1>3. CASE DeleteStep(s) \/ UpdateStep(s)
  <2>1. PICK chosen : chosen = (~Aborts(sess[s].stmt.where) /\ EvalRow(slots[sess[s].at], sess[s].stmt.where))
    OBVIOUS
  <2>2. (down' <=> Aborts(sess[s].stmt.where)) /\ sess[s].phase = "scan" /\ sess[s].stmt.verb # "select"
    BY <1>3, <2>1, DeleteMoves, UpdateMoves, AtRowForm
  <2>3. sess[s].stmt \in Statements /\ Analyse(sess[s].stmt) = "accept"
    BY <2>2 DEF AcceptedRun
  <2> QED BY <2>2, <2>3, AcceptedDoesNotAbort
<1>4. CASE ScanEnd(s)
  <2>1. PICK filters : filters = (sess[s].stmt.verb = "select" /\ sess[s].stmt.where.node # "none")
    OBVIOUS
  <2>2. /\ sess[s].phase = "scan" /\ sess[s].at > Len(slots)
        /\ down' <=> sess[s].stmt.verb = "select" /\ sess[s].stmt.where.node = "none" /\ sess[s].out = <<>>
    BY <1>4, <2>1, ScanEndMoves
  <2> SUFFICES ASSUME sess[s].stmt.verb = "select", sess[s].out = <<>> PROVE FALSE
    BY <2>2
  <2>3. PICK p \in 1 .. Len(slots) : slots[p] # Gone
    BY <2>2, SelectMeetsRow
  <2>4. p < sess[s].at
    BY <2>2, SessionForm, RowsAreSlots DEF WhereTypeOK
  <2> QED BY <2>2, <2>3, <2>4 DEF CopyMeetsRows
<1>5. CASE FilterEnd(s)
  BY <1>5, FilterEndMoves DEF CopyMeetsRows
<1>6. CASE Pass(s) \/ CopyStep(s) \/ FilterStep(s)
  BY <1>6, PassMoves, CopyMoves, FilterMoves
<1> QED BY <1>1, <1>2, <1>3, <1>4, <1>5, <1>6 DEF Step

\* No statement that is accepted, and none that is refused, ends the process, if
\* it sets none of the traps that NoTraps and MeetsRows exclude.
THEOREM AcceptedNeverDown ==
  ASSUME \A stmt \in Statements : NoTraps(stmt) /\ MeetsRows(stmt)
  PROVE  Spec => []NeverDown
<1>1. Init => DeletedByStatement /\ CopyMeetsRows /\ NeverDown
  BY DEF Init, Idle, DeletedByStatement, CopyMeetsRows, NeverDown
<1>2. WhereTyped /\ DeletedByStatement /\ CopyMeetsRows /\ NeverDown /\ [Next]_vars
        => DeletedByStatement' /\ CopyMeetsRows' /\ NeverDown'
  <2> SUFFICES ASSUME WhereTyped, DeletedByStatement, CopyMeetsRows, NeverDown, [Next]_vars
               PROVE  DeletedByStatement' /\ CopyMeetsRows' /\ NeverDown'
    OBVIOUS
  <2>1. WhereTypeOK /\ AcceptedRun
    BY DEF WhereTyped
  <2>2. NeverDown'
    BY <2>1, NextUp DEF NeverDown, vars
  <2> QED BY <2>1, <2>2, NextDeleted, NextMeets
<1> QED BY <1>1, <1>2, WhereTypedAlways, PTL DEF Spec
-----------------------------------------------------------------------------
(* A row is chosen when its condition is true in SQL *)

LEMMA AsIntKeeps ==
  ASSUME NEW v \in Int, IsInt(v) PROVE AsInt(v) = v
<1>1. IntHalf \in Nat \ {0}
  BY TableAssumption
<1>2. -IntHalf <= v /\ v < IntHalf
  BY DEF IsInt
<1>3. ((v + IntHalf) % (2 * IntHalf)) - IntHalf = v
  BY ONLY <1>1, <1>2, v \in Int
<1> QED BY <1>3 DEF AsInt

\* What can be read without loss: a row of narrow values, a column or a narrow literal.
NarrowRow(row) == row \in Tuples /\ \A c \in Columns : IsInt(row[c].val)

NarrowOperand(x) ==
  IF IsName(x) THEN x.name \in Columns ELSE x \in [type : Types \cup {"null"}, val : Int] /\ IsInt(x.val)

LEMMA ReadValue ==
  ASSUME NEW row, NarrowRow(row), NEW x, NarrowOperand(x)
  PROVE  ValueIn(row, x).val \in Int /\ AsInt(ValueIn(row, x).val) = ValueIn(row, x).val
<1>1. ValueIn(row, x).val \in Int /\ IsInt(ValueIn(row, x).val)
  <2>1. CASE IsName(x)
    <3>1. row[x.name] \in Cells /\ IsInt(row[x.name].val)
      BY <2>1 DEF NarrowRow, NarrowOperand, Tuples
    <3>2. row[x.name].val \in Int
      BY <3>1 DEF Cells
    <3> QED BY <2>1, <3>1, <3>2 DEF ValueIn
  <2>2. CASE ~IsName(x)
    BY <2>2 DEF NarrowOperand, ValueIn
  <2> QED BY <2>1, <2>2
<1> QED BY <1>1, AsIntKeeps

LEMMA CompareIsTruth ==
  ASSUME NEW row, NarrowRow(row), NEW x, NarrowOperand(x), NEW y, NarrowOperand(y), NEW op
  PROVE  Compare(row, op, x, y) <=> CmpTruth(row, op, x, y) = 2
<1> DEFINE v == ValueIn(row, x)
           w == ValueIn(row, y)
<1>1. AsInt(v.val) = v.val /\ AsInt(w.val) = w.val
  BY ReadValue
<1>2. Compare(row, op, x, y) <=> v.type # "null" /\ w.type # "null" /\ CompareAs(v.type, op, v.val, w.val)
  BY DEF Compare
<1>3. CmpTruth(row, op, x, y)
        = IF v.type = "null" \/ w.type = "null" THEN 1
          ELSE TruthOf((v.type = "int" \/ op \in Equality) /\ Holds(op, v.val, w.val))
  BY DEF CmpTruth
<1> HIDE DEF v, w
<1>4. CompareAs(v.type, op, v.val, w.val) <=> (v.type = "int" \/ op \in Equality) /\ Holds(op, v.val, w.val)
  BY <1>1 DEF CompareAs
<1> QED BY <1>2, <1>3, <1>4 DEF TruthOf

\* Equality and inequality do not ask which operand is first.
LEMMA TurnedCompare ==
  ASSUME NEW row, NarrowRow(row), NEW x, NarrowOperand(x), NEW y, NarrowOperand(y), NEW op \in Equality
  PROVE  Compare(row, op, y, x) <=> Compare(row, op, x, y)
<1> DEFINE v == ValueIn(row, x)
           w == ValueIn(row, y)
<1>1. AsInt(v.val) = v.val /\ AsInt(w.val) = w.val
  BY ReadValue
<1>2. /\ Compare(row, op, x, y) <=> v.type # "null" /\ w.type # "null" /\ CompareAs(v.type, op, v.val, w.val)
      /\ Compare(row, op, y, x) <=> v.type # "null" /\ w.type # "null" /\ CompareAs(w.type, op, w.val, v.val)
  BY DEF Compare
<1> HIDE DEF v, w
<1>3. CompareAs(v.type, op, v.val, w.val) <=> CompareAs(w.type, op, w.val, v.val)
  BY <1>1 DEF CompareAs, Equality, Holds
<1> QED BY <1>2, <1>3

\* x <> y is true when x = y is false.
LEMMA UnequalTruth ==
  ASSUME NEW row, NEW x, NEW y
  PROVE  /\ CmpTruth(row, "<>", x, y) = 2 <=> CmpTruth(row, "=", x, y) = 0
         /\ CmpTruth(row, "=", x, y) \in {0, 1, 2}
BY DEF CmpTruth, TruthOf, Equality, Holds
-----------------------------------------------------------------------------
(* IN: a comparison of its field with each of its values *)

\* An IN of which at most one operand is a name.
LEMMA InForm ==
  ASSUME NEW l, IsCondition(l), l.node = "isin", InFields(l) # {}, \A p, q \in InFields(l) : p = q
  PROVE  /\ InField(l) \in DOMAIN l.args /\ InFields(l) = {InField(l)}
         /\ \A v : v \in InValues(l) <=> \E p \in DOMAIN l.args : p # InField(l) /\ v = l.args[p]
<1>1. InField(l) \in InFields(l) /\ InField(l) \in DOMAIN l.args
  BY InFieldIsName
<1>2. InFields(l) = {InField(l)}
  BY <1>1
<1>3. \A p \in DOMAIN l.args : IsName(l.args[p]) <=> p = InField(l)
  BY <1>1, <1>2 DEF InFields
<1>4. \A v : v \in InValues(l) <=> \E p \in DOMAIN l.args : ~IsName(l.args[p]) /\ v = l.args[p]
  BY DEF InValues, Operands
<1> QED BY <1>1, <1>2, <1>3, <1>4

\* Of two operands, one is the field and the other its value.
LEMMA InOfOneValue ==
  ASSUME NEW l, IsCondition(l), l.node = "isin", InFields(l) # {}, \A p, q \in InFields(l) : p = q,
         Len(l.args) = 2, \A x \in Operands(l) : NarrowOperand(x), NEW row, NarrowRow(row)
  PROVE  /\ EvalIn(row, l) <=> InTruth(row, l) = 2
         /\ SelectEvalIn(row, l) <=> InTruth(row, l) = 2
<1> DEFINE x == l.args[1]
           y == l.args[2]
<1>1. DOMAIN l.args = {1, 2} /\ l.neg \in BOOLEAN
  BY DEF IsCondition
<1>2. NarrowOperand(x) /\ NarrowOperand(y)
  BY <1>1 DEF Operands
<1>3. InTruth(row, l) = 2 <=> CmpTruth(row, InOp(l), x, y) = 2
  <2>1. {CmpTruth(row, "=", l.args[1], l.args[p]) : p \in 2 .. Len(l.args)} = {CmpTruth(row, "=", x, y)}
    <3>1. 2 .. Len(l.args) = {2}
      OBVIOUS
    <3> QED BY <3>1
  <2>2. InTruth(row, l) = IF l.neg THEN 2 - CmpTruth(row, "=", x, y) ELSE CmpTruth(row, "=", x, y)
    <3>1. CmpTruth(row, "=", x, y) \in {0, 1, 2}
      BY UnequalTruth
    <3> HIDE DEF x, y
    <3> QED BY <2>1, <3>1 DEF InTruth
  <2> HIDE DEF x, y
  <2> QED BY <1>1, <2>2, UnequalTruth DEF InOp
<1>4. InOp(l) \in Equality
  BY DEF InOp, Equality
<1>5. \E i \in {1, 2} : \E j \in {1, 2} :
        /\ i # j /\ InField(l) = i
        /\ EvalIn(row, l) <=> Compare(row, InOp(l), l.args[i], l.args[j])
        /\ SelectEvalIn(row, l) <=> Compare(row, InOp(l), l.args[i], l.args[j])
  <2>1. InField(l) \in {1, 2} /\ \A v : v \in InValues(l) <=> \E p \in DOMAIN l.args : p # InField(l) /\ v = l.args[p]
    BY <1>1, InForm
  <2>2. PICK i \in {1, 2}, j \in {1, 2} : i # j /\ InField(l) = i
    BY <2>1
  <2>3. \A v : v \in InValues(l) <=> v = l.args[j]
    BY <1>1, <2>1, <2>2
  <2> QED BY <2>2, <2>3 DEF EvalIn, SelectEvalIn
<1>6. /\ Compare(row, InOp(l), x, y) <=> CmpTruth(row, InOp(l), x, y) = 2
      /\ Compare(row, InOp(l), y, x) <=> Compare(row, InOp(l), x, y)
  <2> HIDE DEF x, y
  <2> QED BY <1>2, <1>4, CompareIsTruth, TurnedCompare
<1> QED BY <1>3, <1>5, <1>6

\* An IN that starts with its column is true when the column is equal to one of
\* the values.
LEMMA InOfColumn ==
  ASSUME NEW l, IsCondition(l), l.node = "isin", \A p, q \in InFields(l) : p = q,
         IsName(l.args[1]), ~l.neg, \A x \in Operands(l) : NarrowOperand(x), NEW row, NarrowRow(row)
  PROVE  EvalIn(row, l) <=> InTruth(row, l) = 2
<1>1. DOMAIN l.args = 1 .. Len(l.args) /\ Len(l.args) \in Nat \ {0, 1}
  BY DEF IsCondition
<1>2. 1 \in InFields(l)
  BY <1>1 DEF InFields
<1>3. InField(l) = 1 /\ \A v : v \in InValues(l) <=> \E p \in DOMAIN l.args : p # 1 /\ v = l.args[p]
  <2>1. InFields(l) = {InField(l)}
    BY <1>2, InForm
  <2> QED BY <1>2, <2>1, InForm
<1>4. \A v : v \in InValues(l) <=> \E p \in 2 .. Len(l.args) : v = l.args[p]
  BY <1>1, <1>3
<1>5. InOp(l) = "="
  BY DEF InOp
<1>6. EvalIn(row, l) <=> \E p \in 2 .. Len(l.args) : Compare(row, "=", l.args[1], l.args[p])
  BY <1>3, <1>4, <1>5 DEF EvalIn
<1>7. \A p \in 2 .. Len(l.args) : Compare(row, "=", l.args[1], l.args[p]) <=> CmpTruth(row, "=", l.args[1], l.args[p]) = 2
  <2>1. \A p \in 1 .. Len(l.args) : NarrowOperand(l.args[p])
    BY <1>1 DEF Operands
  <2> QED BY <1>1, <2>1, CompareIsTruth
<1>8. InTruth(row, l) = 2 <=> \E p \in 2 .. Len(l.args) : CmpTruth(row, "=", l.args[1], l.args[p]) = 2
  <2> DEFINE truths == {CmpTruth(row, "=", l.args[1], l.args[p]) : p \in 2 .. Len(l.args)}
  <2>1. InTruth(row, l) = IF 2 \in truths THEN 2 ELSE IF 1 \in truths THEN 1 ELSE 0
    BY DEF InTruth
  <2>2. 2 \in truths <=> \E p \in 2 .. Len(l.args) : CmpTruth(row, "=", l.args[1], l.args[p]) = 2
    OBVIOUS
  <2> HIDE DEF truths
  <2> QED BY <2>1, <2>2
<1> QED BY <1>6, <1>7, <1>8
-----------------------------------------------------------------------------
(* The whole condition *)

\* What the statements below it keep clear of.
PlainlyMeant(stmt) == NarrowLiterals(stmt) /\ EvaluatedAsSQL(stmt)

LEMMA AcceptedForm ==
  ASSUME NEW stmt \in Statements, Analyse(stmt) = "accept"
  PROVE  /\ stmt.where \in Conditions /\ stmt.verb \in {"delete", "update", "select"}
         /\ ColumnsExist(stmt.where) /\ InEntriesRaw(stmt.where) /\ NullEntriesFields(stmt.where)
         /\ stmt.verb # "select" => ValueTypes[stmt.where] = "accept"
         /\ stmt.verb = "select" => \A l \in Leaves[stmt.where] : l.node # "val" /\ (l.node = "isin" => ~InTrips(l))
<1>1. stmt.where \in Conditions /\ stmt.verb \in {"delete", "update", "select"}
  BY StatementsAssumption
<1>2. CASE stmt.verb = "select"
  <2>1. AnalyseSelect(stmt) = "accept"
    BY <1>2 DEF Analyse
  <2>2. /\ ColumnsExist(stmt.where) /\ InEntriesRaw(stmt.where) /\ NullEntriesFields(stmt.where)
        /\ ~\E l \in Leaves[stmt.where] : l.node = "val"
        /\ ~\E l \in Leaves[stmt.where] : UnknownName(l) \/ (l.node = "isin" /\ InTrips(l))
    BY <2>1 DEF AnalyseSelect
  <2> QED BY <1>1, <1>2, <2>2
<1>3. CASE stmt.verb # "select"
  BY <1>1, <1>3 DEF Analyse, AnalyseDelete, AnalyseUpdate
<1> QED BY <1>2, <1>3

LEMMA NarrowOperands ==
  ASSUME NEW stmt \in Statements, Analyse(stmt) = "accept", NarrowLiterals(stmt),
         NEW l \in Leaves[stmt.where], NEW x \in Operands(l)
  PROVE  NarrowOperand(x)
<1>1. IsCondition(l) /\ l.node \in {"val", "isnull", "cmp", "isin"}
  BY AcceptedForm, LeafKinds
<1>2. IsOperand(x)
  BY <1>1 DEF IsCondition, Operands
<1>3. IsName(x) => x.name \in Columns
  BY AcceptedForm DEF ColumnsExist, Names
<1>4. ~IsName(x) => IsInt(x.val)
  BY DEF NarrowLiterals
<1> QED BY <1>2, <1>3, <1>4 DEF NarrowOperand, IsOperand

\* A leaf, as DELETE and UPDATE evaluate it.
LEMMA LeafAsSQL ==
  ASSUME NEW stmt \in Statements, Analyse(stmt) = "accept", PlainlyMeant(stmt), stmt.verb # "select",
         NEW row, NarrowRow(row), NEW l \in Leaves[stmt.where], l.node # "val"
  PROVE  LeafHolds(row, l) <=> LeafTruth(row, l) = 2
<1>1. IsCondition(l) /\ ~Joins(l) /\ l.node \in {"isnull", "cmp", "isin"}
  BY AcceptedForm, LeafKinds
<1>2. \A x \in Operands(l) : NarrowOperand(x)
  BY NarrowOperands DEF PlainlyMeant
<1>3. AsInSQL(stmt.verb, l)
  BY DEF PlainlyMeant, EvaluatedAsSQL
<1>4. CASE l.node = "cmp"
  <2>1. NarrowOperand(l.left) /\ NarrowOperand(l.right)
    BY <1>2, <1>4 DEF Operands
  <2>2. EvalCmp(row, l) <=> Compare(row, l.op, l.left, l.right)
    <3>1. CASE ~IsName(l.left) /\ IsName(l.right)
      <4>1. l.op \in Equality
        BY <1>3, <1>4, <3>1 DEF AsInSQL
      <4>2. Compare(row, l.op, l.right, l.left) <=> Compare(row, l.op, l.left, l.right)
        BY <2>1, <4>1, TurnedCompare
      <4> QED BY <3>1, <4>2 DEF EvalCmp
    <3>2. CASE ~(~IsName(l.left) /\ IsName(l.right))
      BY <3>2 DEF EvalCmp
    <3> QED BY <3>1, <3>2
  <2>3. EvalCmp(row, l) <=> CmpTruth(row, l.op, l.left, l.right) = 2
    BY <2>1, <2>2, CompareIsTruth
  <2> QED BY <1>4, <2>3 DEF LeafHolds, LeafTruth
<1>5. CASE l.node = "isnull"
  <2>1. IsName(l.arg)
    BY <1>5, AcceptedForm DEF NullEntriesFields
  <2> QED BY <1>5, <2>1 DEF LeafHolds, LeafTruth, EvalIsNull, ValueIn, TruthOf
<1>6. CASE l.node = "isin"
  <2>1. LeafVerdict(l) = "accept"
    BY AcceptedForm, AcceptedLeaves
  <2>2. InFields(l) # {}
    BY <1>6, <2>1 DEF LeafVerdict
  <2>3. \A p, q \in InFields(l) : p = q
    BY <1>6, AcceptedForm DEF InEntriesRaw
  <2>4. EvalIn(row, l) <=> InTruth(row, l) = 2
    <3>1. CASE Len(l.args) = 2
      BY <1>1, <1>2, <1>6, <2>2, <2>3, <3>1, InOfOneValue
    <3>2. CASE Len(l.args) # 2
      <4>1. IsName(l.args[1]) /\ ~l.neg
        BY <1>3, <1>6, <3>2 DEF AsInSQL
      <4> QED BY <1>1, <1>2, <1>6, <2>3, <4>1, InOfColumn
    <3> QED BY <3>1, <3>2
  <2> QED BY <1>6, <2>4 DEF LeafHolds, LeafTruth
<1> QED BY <1>1, <1>4, <1>5, <1>6

\* And as SELECT does.
LEMMA SelectLeafAsSQL ==
  ASSUME NEW stmt \in Statements, Analyse(stmt) = "accept", PlainlyMeant(stmt), stmt.verb = "select",
         NEW row, NarrowRow(row), NEW l \in Leaves[stmt.where]
  PROVE  SelectLeafHolds(row, l) <=> LeafTruth(row, l) = 2
<1>1. IsCondition(l) /\ ~Joins(l) /\ l.node \in {"isnull", "cmp", "isin"}
  BY AcceptedForm, LeafKinds
<1>2. \A x \in Operands(l) : NarrowOperand(x)
  BY NarrowOperands DEF PlainlyMeant
<1>3. AsInSQL(stmt.verb, l)
  BY DEF PlainlyMeant, EvaluatedAsSQL
<1>4. CASE l.node = "cmp"
  <2>1. NarrowOperand(l.left) /\ NarrowOperand(l.right)
    BY <1>2, <1>4 DEF Operands
  <2>2. SelectEvalCmp(row, l) <=> CmpTruth(row, l.op, l.left, l.right) = 2
    BY <2>1, CompareIsTruth DEF SelectEvalCmp
  <2> QED BY <1>4, <2>2 DEF SelectLeafHolds, LeafTruth
<1>5. CASE l.node = "isnull"
  <2>1. IsName(l.arg)
    BY <1>5, AcceptedForm DEF NullEntriesFields
  <2> QED BY <1>5, <2>1 DEF SelectLeafHolds, LeafTruth, EvalIsNull, ValueIn, TruthOf
<1>6. CASE l.node = "isin"
  <2>1. Len(l.args) = 2
    BY <1>3, <1>6 DEF AsInSQL
  <2>2. 1 \in InFields(l)
    BY <1>1, <1>6, AcceptedForm DEF InTrips, InFields, IsCondition
  <2>3. \A p, q \in InFields(l) : p = q
    BY <1>6, AcceptedForm DEF InEntriesRaw
  <2>4. SelectEvalIn(row, l) <=> InTruth(row, l) = 2
    BY <1>1, <1>2, <1>6, <2>1, <2>2, <2>3, InOfOneValue
  <2> QED BY <1>6, <2>4 DEF SelectLeafHolds, LeafTruth
<1> QED BY <1>1, <1>4, <1>5, <1>6

\* A gate of two values agrees with one of three, where true is all that counts
\* and XOR knows both sides.
LEMMA GateIsTruth ==
  ASSUME NEW gate \in {"and", "or", "xor"}, NEW l \in BOOLEAN, NEW r \in BOOLEAN, NEW t \in 0 .. 2, NEW u \in 0 .. 2,
         l <=> t = 2, r <=> u = 2, gate = "xor" => 1 \notin {t, u}
  PROVE  Gate(gate, l, r) <=> GateTruth(gate, t, u) = 2
<1>1. CASE gate = "and"
  BY <1>1 DEF Gate, GateTruth, Least
<1>2. CASE gate = "or"
  BY <1>2 DEF Gate, GateTruth, Greatest
<1>3. CASE gate = "xor"
  BY <1>3 DEF Gate, GateTruth, TruthOf
<1> QED BY <1>1, <1>2, <1>3

LEMMA EvalIsTruth ==
  ASSUME NEW p \in DOMAIN Rows, Rows[p] # Gone, NEW c \in Conditions, XorDecided[c],
         \A l \in Leaves[c] : LeafHolds(Rows[p], l) <=> LeafTruth(Rows[p], l) = 2
  PROVE  EvalRow(Rows[p], c) <=> Truth(Rows[p], c) = 2
<1> DEFINE row == Rows[p]
           Agrees(d) == XorDecided[d] /\ (\A l \in Leaves[d] : LeafHolds(row, l) <=> LeafTruth(row, l) = 2)
                          => (EvalRow(row, d) <=> Truth(row, d) = 2)
           G == {d \in Conditions : Agrees(d)}
<1>1. ASSUME NEW d \in Conditions, Joins(d) => d.left \in G /\ d.right \in G PROVE d \in G
  <2> SUFFICES ASSUME XorDecided[d], \A l \in Leaves[d] : LeafHolds(row, l) <=> LeafTruth(row, l) = 2
               PROVE  EvalRow(row, d) <=> Truth(row, d) = 2
    OBVIOUS
  <2>1. CASE Joins(d)
    <3>1. /\ d.left \in Conditions /\ d.right \in Conditions /\ d.gate \in {"and", "or", "xor"}
          /\ XorDecided[d.left] /\ XorDecided[d.right] /\ (d.gate = "xor" => Decided(d))
          /\ Leaves[d] = Leaves[d.left] \cup Leaves[d.right]
      BY <2>1, ConditionForm, XorDecidedDef, LeavesDef
    <3>2. /\ EvalRow(row, d.left) <=> Truth(row, d.left) = 2
          /\ EvalRow(row, d.right) <=> Truth(row, d.right) = 2
      BY <1>1, <2>1, <3>1
    <3>3. d.gate = "xor" => 1 \notin {Truth(row, d.left), Truth(row, d.right)}
      BY <3>1 DEF Decided
    <3>4. /\ EvalRow(row, d.left) \in BOOLEAN /\ EvalRow(row, d.right) \in BOOLEAN
          /\ EvalRow(row, d) = Gate(d.gate, EvalRow(row, d.left), EvalRow(row, d.right))
      BY <2>1, <3>1, EvalRowDef
    <3>5. /\ Truth(row, d.left) \in 0 .. 2 /\ Truth(row, d.right) \in 0 .. 2
          /\ Truth(row, d) = GateTruth(d.gate, Truth(row, d.left), Truth(row, d.right))
      BY <2>1, <3>1, TruthDef
    <3>6. Gate(d.gate, EvalRow(row, d.left), EvalRow(row, d.right))
            <=> GateTruth(d.gate, Truth(row, d.left), Truth(row, d.right)) = 2
      BY <3>1, <3>2, <3>3, <3>4, <3>5, GateIsTruth
    <3> QED BY <3>4, <3>5, <3>6
  <2>2. CASE ~Joins(d)
    <3>1. EvalRow(row, d) = LeafHolds(row, d) /\ Truth(row, d) = LeafTruth(row, d)
      BY <2>2, EvalRowDef, TruthDef
    <3>2. CASE d.node = "none"
      BY <3>1, <3>2 DEF LeafHolds, LeafTruth
    <3>3. CASE d.node # "none"
      BY <2>2, <3>1, <3>3, LeavesDef
    <3> QED BY <3>2, <3>3
  <2> QED BY <2>1, <2>2
<1>2. G = Conditions
  <2>1. G \in SUBSET Conditions
    OBVIOUS
  <2> HIDE DEF G
  <2> QED BY ONLY <1>1, <2>1, CondInduction
<1> QED BY <1>2

LEMMA SelectEvalIsTruth ==
  ASSUME NEW p \in DOMAIN Rows, Rows[p] # Gone, NEW c \in Conditions, XorDecided[c], c.node # "none",
         \A l \in Leaves[c] : SelectLeafHolds(Rows[p], l) <=> LeafTruth(Rows[p], l) = 2
  PROVE  SelectEvalRow(Rows[p], c) <=> Truth(Rows[p], c) = 2
<1> DEFINE row == Rows[p]
           Agrees(d) == d.node # "none" /\ XorDecided[d] /\ (\A l \in Leaves[d] : SelectLeafHolds(row, l) <=> LeafTruth(row, l) = 2)
                          => (SelectEvalRow(row, d) <=> Truth(row, d) = 2)
           G == {d \in Conditions : Agrees(d)}
<1>1. ASSUME NEW d \in Conditions, Joins(d) => d.left \in G /\ d.right \in G PROVE d \in G
  <2> SUFFICES ASSUME d.node # "none", XorDecided[d], \A l \in Leaves[d] : SelectLeafHolds(row, l) <=> LeafTruth(row, l) = 2
               PROVE  SelectEvalRow(row, d) <=> Truth(row, d) = 2
    OBVIOUS
  <2>1. CASE Joins(d)
    <3>1. /\ d.left \in Conditions /\ d.right \in Conditions /\ d.gate \in {"and", "or", "xor"}
          /\ d.left.node # "none" /\ d.right.node # "none"
          /\ XorDecided[d.left] /\ XorDecided[d.right] /\ (d.gate = "xor" => Decided(d))
          /\ Leaves[d] = Leaves[d.left] \cup Leaves[d.right]
      BY <2>1, ConditionForm, XorDecidedDef, LeavesDef
    <3>2. /\ SelectEvalRow(row, d.left) <=> Truth(row, d.left) = 2
          /\ SelectEvalRow(row, d.right) <=> Truth(row, d.right) = 2
      BY <1>1, <2>1, <3>1
    <3>3. d.gate = "xor" => 1 \notin {Truth(row, d.left), Truth(row, d.right)}
      BY <3>1 DEF Decided
    <3>4. /\ SelectEvalRow(row, d.left) \in BOOLEAN /\ SelectEvalRow(row, d.right) \in BOOLEAN
          /\ SelectEvalRow(row, d) = Gate(d.gate, SelectEvalRow(row, d.left), SelectEvalRow(row, d.right))
      BY <2>1, <3>1, SelectEvalRowDef
    <3>5. /\ Truth(row, d.left) \in 0 .. 2 /\ Truth(row, d.right) \in 0 .. 2
          /\ Truth(row, d) = GateTruth(d.gate, Truth(row, d.left), Truth(row, d.right))
      BY <2>1, <3>1, TruthDef
    <3>6. Gate(d.gate, SelectEvalRow(row, d.left), SelectEvalRow(row, d.right))
            <=> GateTruth(d.gate, Truth(row, d.left), Truth(row, d.right)) = 2
      BY <3>1, <3>2, <3>3, <3>4, <3>5, GateIsTruth
    <3> QED BY <3>4, <3>5, <3>6
  <2>2. CASE ~Joins(d)
    <3>1. SelectEvalRow(row, d) = SelectLeafHolds(row, d) /\ Truth(row, d) = LeafTruth(row, d)
      BY <2>2, SelectEvalRowDef, TruthDef
    <3> QED BY <2>2, <3>1, LeavesDef
  <2> QED BY <2>1, <2>2
<1>2. G = Conditions
  <2>1. G \in SUBSET Conditions
    OBVIOUS
  <2> HIDE DEF G
  <2> QED BY ONLY <1>1, <2>1, CondInduction
<1> QED BY <1>2

LEMMA NarrowRowAt ==
  ASSUME NarrowRows, NEW p \in DOMAIN Rows, Rows[p] # Gone
  PROVE  NarrowRow(Rows[p])
BY RowForm DEF NarrowRow, NarrowRows

\* DELETE and UPDATE take the rows that SQL means.
LEMMA ChosenIsWanted ==
  ASSUME NarrowRows, NEW stmt \in Statements, Analyse(stmt) = "accept", PlainlyMeant(stmt), stmt.verb # "select",
         ~Aborts(stmt.where), NEW p \in DOMAIN Rows, Rows[p] # Gone
  PROVE  EvalRow(Rows[p], stmt.where) <=> Wants(Rows[p], stmt)
<1>1. stmt.where \in Conditions /\ XorDecided[stmt.where]
  BY AcceptedForm DEF PlainlyMeant, EvaluatedAsSQL
<1>2. \A l \in Leaves[stmt.where] : LeafHolds(Rows[p], l) <=> LeafTruth(Rows[p], l) = 2
  BY NarrowRowAt, LeafAsSQL DEF Aborts, LeafAborts
<1> QED BY <1>1, <1>2, EvalIsTruth DEF Wants

\* So does the WHERE clause of SELECT.
LEMMA KeptIsWanted ==
  ASSUME NarrowRows, NEW stmt \in Statements, Analyse(stmt) = "accept", PlainlyMeant(stmt), stmt.verb = "select",
         stmt.where.node # "none", NEW p \in DOMAIN Rows, Rows[p] # Gone
  PROVE  SelectEvalRow(Rows[p], stmt.where) <=> Wants(Rows[p], stmt)
<1>1. stmt.where \in Conditions /\ XorDecided[stmt.where]
  BY AcceptedForm DEF PlainlyMeant, EvaluatedAsSQL
<1>2. \A l \in Leaves[stmt.where] : SelectLeafHolds(Rows[p], l) <=> LeafTruth(Rows[p], l) = 2
  BY NarrowRowAt, SelectLeafAsSQL
<1> QED BY <1>1, <1>2, SelectEvalIsTruth DEF Wants
-----------------------------------------------------------------------------
(* What an UPDATE assigns, and how many rows there are up to a slot *)

LEMMA AssignedIsReplaced ==
  ASSUME NEW stmt \in Statements, stmt.verb = "update", SetsLiterals(stmt), NEW row \in Tuples
  PROVE  Assigned(row, stmt.set) = Replaced(row, stmt.set)
<1> DEFINE set == stmt.set
<1>1. Assignments(set) /\ Len(set) \in Nat /\ DOMAIN set = 1 .. Len(set) /\ \A p \in DOMAIN set : ~IsName(set[p].value)
  BY UpdateIsTyped DEF Assignments, SetsLiterals
<1> HIDE DEF set
<1>2. /\ Assigned(row, set) \in [Columns -> Cells]
      /\ \A c \in Columns : Assigned(row, set)[c] = FirstAssigned(row, set, Len(set), c)
  BY <1>1, AssignedIsLast DEF Tuples
<1>3. ASSUME NEW c \in Columns PROVE FirstAssigned(row, set, Len(set), c) = Replaced(row, set)[c]
  <2> DEFINE mine == {p \in 1 .. Len(set) : set[p].field = c}
  <2>1. FirstAssigned(row, set, Len(set), c)
          = IF mine = {} THEN row[c] ELSE Stored(c, set[CHOOSE p \in mine : \A q \in mine : q <= p].value)
    BY DEF FirstAssigned
  <2>2. Replaced(row, set)[c]
          = IF mine = {} THEN row[c] ELSE ValueIn(row, set[CHOOSE p \in mine : \A q \in mine : q <= p].value)
    BY <1>1 DEF Replaced
  <2>3. CASE mine = {}
    BY <2>1, <2>2, <2>3
  <2>4. CASE mine # {}
    <3>1. PICK p \in mine : (CHOOSE r \in mine : \A q \in mine : q <= r) = p
      <4>1. mine \in SUBSET (1 .. Len(set))
        OBVIOUS
      <4> HIDE DEF mine
      <4> QED BY <1>1, <2>4, <4>1, LastOne
    <3>2. ~IsName(set[p].value)
      BY <1>1
    <3> HIDE DEF mine
    <3> QED BY <2>1, <2>2, <2>4, <3>1, <3>2 DEF Stored, ValueIn
  <2> QED BY <2>3, <2>4
<1>4. Assigned(row, set) = [c \in Columns |-> Replaced(row, set)[c]]
  BY <1>2, <1>3
<1>5. Replaced(row, set) = [c \in Columns |-> Replaced(row, set)[c]]
  BY DEF Replaced
<1> QED BY <1>4, <1>5 DEF set

Below(W, n) == {q \in 1 .. n : q \in W}

LEMMA CountBelow ==
  ASSUME NEW W, NEW n \in Nat
  PROVE  /\ IsFiniteSet(Below(W, n)) /\ Cardinality(Below(W, n)) \in Nat
         /\ n = 0 => Cardinality(Below(W, n)) = 0
         /\ n # 0 => Cardinality(Below(W, n))
                       = IF n \in W THEN Cardinality(Below(W, n - 1)) + 1 ELSE Cardinality(Below(W, n - 1))
         /\ \A m \in 0 .. n : Cardinality(Below(W, m)) <= Cardinality(Below(W, n))
<1>1. ASSUME NEW m \in Nat PROVE IsFiniteSet(Below(W, m)) /\ Cardinality(Below(W, m)) \in Nat
  <2>1. IsFiniteSet(1 .. m)
    BY FS_Interval
  <2>2. Below(W, m) \subseteq 1 .. m
    BY DEF Below
  <2> QED BY <2>1, <2>2, FS_Subset, FS_CardinalityType
<1>2. n = 0 => Cardinality(Below(W, n)) = 0
  <2>1. n = 0 => Below(W, n) = {}
    BY DEF Below
  <2> QED BY <2>1, FS_EmptySet
<1>3. ASSUME n # 0
      PROVE Cardinality(Below(W, n)) = IF n \in W THEN Cardinality(Below(W, n - 1)) + 1 ELSE Cardinality(Below(W, n - 1))
  <2>1. n - 1 \in Nat
    BY <1>3
  <2>2. CASE n \in W
    <3>1. Below(W, n) = Below(W, n - 1) \cup {n} /\ n \notin Below(W, n - 1)
      BY <1>3, <2>2 DEF Below
    <3> QED BY <1>1, <2>1, <2>2, <3>1, FS_AddElement
  <2>3. CASE n \notin W
    <3>1. Below(W, n) = Below(W, n - 1)
      BY <1>3, <2>3 DEF Below
    <3> QED BY <2>3, <3>1
  <2> QED BY <2>2, <2>3
<1>4. ASSUME NEW m \in 0 .. n PROVE Cardinality(Below(W, m)) <= Cardinality(Below(W, n))
  <2>1. Below(W, m) \subseteq Below(W, n)
    BY DEF Below
  <2> QED BY <1>1, <2>1, FS_Subset
<1> QED BY <1>1, <1>2, <1>3, <1>4

\* The place of a row among the rows: one more than those before it.
LEMMA PlaceIsCount ==
  /\ Place(0) = 0
  /\ \A p \in 1 .. Len(Rows) : Place(p) = IF Rows[p] = Gone THEN Place(p - 1) ELSE Place(p - 1) + 1
  /\ \A q \in 0 .. Len(Rows) : Place(q) \in Nat /\ \A p \in 0 .. q : Place(p) <= Place(q)
<1> DEFINE Live == {q \in 1 .. Len(Rows) : Rows[q] # Gone}
<1>1. Len(Rows) \in Nat
  BY RowsAreSlots
<1>2. ASSUME NEW p \in 0 .. Len(Rows) PROVE Place(p) = Cardinality(Below(Live, p))
  <2>1. {q \in 1 .. p : Rows[q] # Gone} = Below(Live, p)
    BY <1>1 DEF Below
  <2> QED BY <2>1 DEF Place
<1>3. \A p \in 1 .. Len(Rows) : p \in Live <=> Rows[p] # Gone
  OBVIOUS
<1> HIDE DEF Live
<1>4. Place(0) = 0
  BY <1>1, <1>2, CountBelow
<1>5. ASSUME NEW p \in 1 .. Len(Rows) PROVE Place(p) = IF Rows[p] = Gone THEN Place(p - 1) ELSE Place(p - 1) + 1
  <2>1. p \in Nat /\ p # 0 /\ p \in 0 .. Len(Rows) /\ p - 1 \in 0 .. Len(Rows)
    BY <1>1
  <2>2. Cardinality(Below(Live, p)) = IF p \in Live THEN Cardinality(Below(Live, p - 1)) + 1 ELSE Cardinality(Below(Live, p - 1))
    BY <2>1, CountBelow
  <2> QED BY <1>2, <1>3, <2>1, <2>2
<1>6. ASSUME NEW q \in 0 .. Len(Rows) PROVE Place(q) \in Nat /\ \A p \in 0 .. q : Place(p) <= Place(q)
  <2>1. q \in Nat /\ \A p \in 0 .. q : p \in 0 .. Len(Rows)
    BY <1>1
  <2> QED BY <1>2, <2>1, CountBelow
<1> QED BY <1>4, <1>5, <1>6
-----------------------------------------------------------------------------
(* How far a statement has come *)

UnchangedTable(table) == \A p \in 1 .. Len(Rows) : table[p] = Rows[p]

\* DELETE and UPDATE have dealt with the slots before n.
ChangedBelow(table, stmt, n) ==
  \A p \in 1 .. Len(Rows) : table[p] = IF p < n THEN Effect(Rows, stmt)[p] ELSE Rows[p]

WantedRows(stmt) == {p \in 1 .. Len(Rows) : Wants(Rows[p], stmt)}

WantedBelow(stmt, n) == Cardinality(Below(WantedRows(stmt), n - 1))

\* SELECT has copied the slots before n.
CopiedBelow(out, n) ==
  /\ Len(out) = Place(n - 1)
  /\ \A p \in 1 .. n - 1 : Rows[p] # Gone => out[Place(p)] = Rows[p]

\* Its WHERE clause has dealt with the copies before n.
FilteredBelow(out, stmt, n) ==
  /\ Len(out) = Place(Len(Rows))
  /\ \A p \in 1 .. Len(Rows) :
       Rows[p] # Gone => out[Place(p)] = IF Place(p) < n /\ ~Wants(Rows[p], stmt) THEN Gone ELSE Rows[p]

LEMMA NothingBelowOne ==
  ASSUME NEW stmt
  PROVE  WantedBelow(stmt, 1) = 0 /\ CopiedBelow(<<>>, 1)
<1>1. WantedBelow(stmt, 1) = 0
  BY CountBelow DEF WantedBelow
<1>2. Len(<<>>) = Place(0)
  BY EmptySeq, PlaceIsCount
<1> QED BY <1>1, <1>2 DEF CopiedBelow

LEMMA EffectAt ==
  ASSUME NEW stmt, stmt.verb \in {"delete", "update"}, NEW p \in 1 .. Len(Rows)
  PROVE  Effect(Rows, stmt)[p] =
           IF Wants(Rows[p], stmt) THEN IF stmt.verb = "delete" THEN Gone ELSE Replaced(Rows[p], stmt.set)
           ELSE Rows[p]
<1>1. p \in DOMAIN Rows
  BY RowsAreSlots
<1>2. CASE stmt.verb = "delete"
  BY <1>1, <1>2 DEF Effect
<1>3. CASE stmt.verb = "update"
  BY <1>1, <1>3 DEF Effect
<1> QED BY <1>2, <1>3

\* One more slot.
LEMMA ChangeOneMore ==
  ASSUME NEW stmt, stmt.verb \in {"delete", "update"}, NEW n \in 1 .. Len(Rows), NEW table, NEW after,
         ChangedBelow(table, stmt, n),
         \A p \in 1 .. Len(Rows) :
           after[p] = IF p = n /\ Wants(Rows[n], stmt) THEN Effect(Rows, stmt)[n] ELSE table[p]
  PROVE  /\ ChangedBelow(after, stmt, n + 1)
         /\ WantedBelow(stmt, n + 1) = IF Wants(Rows[n], stmt) THEN WantedBelow(stmt, n) + 1 ELSE WantedBelow(stmt, n)
<1>0. Len(Rows) \in Nat
  BY RowsAreSlots
<1>1. table[n] = Rows[n]
  BY <1>0 DEF ChangedBelow
<1>2. ASSUME NEW p \in 1 .. Len(Rows) PROVE after[p] = IF p < n + 1 THEN Effect(Rows, stmt)[p] ELSE Rows[p]
  <2>1. CASE p = n
    <3>1. ~Wants(Rows[n], stmt) => Effect(Rows, stmt)[n] = Rows[n]
      BY EffectAt
    <3> QED BY <1>1, <2>1, <3>1
  <2>2. CASE p # n
    <3>1. p < n + 1 <=> p < n
      BY <1>0, <2>2
    <3>2. after[p] = table[p]
      BY <2>2
    <3> QED BY <3>1, <3>2 DEF ChangedBelow
  <2> QED BY <2>1, <2>2
<1>3. n \in Nat /\ n # 0 /\ (n + 1) - 1 = n
  BY <1>0
<1>4. n \in WantedRows(stmt) <=> Wants(Rows[n], stmt)
  BY DEF WantedRows
<1> QED BY <1>2, <1>3, <1>4, CountBelow DEF ChangedBelow, WantedBelow

LEMMA CopyOneMore ==
  ASSUME NEW n \in 1 .. Len(Rows), NEW out \in Seq(Slot), CopiedBelow(out, n)
  PROVE  /\ Rows[n] = Gone => CopiedBelow(out, n + 1)
         /\ Rows[n] # Gone => CopiedBelow(Append(out, Rows[n]), n + 1)
<1>0. Len(Rows) \in Nat /\ Rows[n] \in Slot
  BY RowsAreSlots
<1>1. (n + 1) - 1 = n /\ n - 1 \in 0 .. Len(Rows) /\ n \in 0 .. Len(Rows)
  BY <1>0
<1>2. Place(n) = IF Rows[n] = Gone THEN Place(n - 1) ELSE Place(n - 1) + 1
  BY PlaceIsCount
<1>3. Len(out) = Place(n - 1) /\ Place(n - 1) \in Nat
  BY <1>1, PlaceIsCount DEF CopiedBelow
<1>4. CASE Rows[n] = Gone
  <2>1. ASSUME NEW p \in 1 .. n, Rows[p] # Gone PROVE out[Place(p)] = Rows[p]
    <3>1. p \in 1 .. n - 1
      BY <1>0, <1>4, <2>1
    <3> QED BY <2>1, <3>1 DEF CopiedBelow
  <2> QED BY <1>1, <1>2, <1>3, <1>4, <2>1 DEF CopiedBelow
<1>5. CASE Rows[n] # Gone
  <2> DEFINE o == Append(out, Rows[n])
  <2>1. Len(o) = Place(n) /\ o[Place(n)] = Rows[n] /\ \A k \in 1 .. Place(n - 1) : o[k] = out[k]
    <3> HIDE DEF Slot
    <3>1. Len(o) = Len(out) + 1 /\ o[Len(out) + 1] = Rows[n] /\ \A k \in 1 .. Len(out) : o[k] = out[k]
      BY <1>0, AppendProperties
    <3> QED BY <1>2, <1>3, <1>5, <3>1
  <2> HIDE DEF o
  <2>2. ASSUME NEW p \in 1 .. n, Rows[p] # Gone PROVE o[Place(p)] = Rows[p]
    <3>1. CASE p = n
      BY <2>1, <3>1
    <3>2. CASE p # n
      <4>1. p \in 1 .. n - 1 /\ p \in 1 .. Len(Rows) /\ p \in 0 .. n - 1 /\ p - 1 \in 0 .. Len(Rows)
        BY <1>0, <3>2
      <4>2. Place(p) \in 1 .. Place(n - 1)
        <5>1. Place(p) = Place(p - 1) + 1 /\ Place(p - 1) \in Nat
          BY <2>2, <4>1, PlaceIsCount
        <5>2. Place(p) <= Place(n - 1)
          BY <1>1, <4>1, PlaceIsCount
        <5> QED BY <1>3, <5>1, <5>2
      <4>3. out[Place(p)] = Rows[p]
        BY <2>2, <4>1 DEF CopiedBelow
      <4> QED BY <2>1, <4>2, <4>3
    <3> QED BY <3>1, <3>2
  <2>3. CopiedBelow(o, n + 1)
    BY <1>1, <2>1, <2>2 DEF CopiedBelow
  <2> QED BY <1>5, <2>3 DEF o
<1> QED BY <1>4, <1>5

\* A copy of the whole table, before its WHERE clause and without one.
LEMMA CopyIsUnfiltered ==
  ASSUME NEW out, CopiedBelow(out, Len(Rows) + 1), NEW stmt
  PROVE  /\ FilteredBelow(out, stmt, 1)
         /\ (\A p \in 1 .. Len(Rows) : Rows[p] # Gone => Wants(Rows[p], stmt)) => \A n : FilteredBelow(out, stmt, n)
<1>1. Len(Rows) \in Nat
  BY RowsAreSlots
<1>2. /\ Len(out) = Place(Len(Rows))
      /\ \A p \in 1 .. Len(Rows) : Rows[p] # Gone => out[Place(p)] = Rows[p]
  BY <1>1 DEF CopiedBelow
<1>3. ASSUME NEW p \in 1 .. Len(Rows), Rows[p] # Gone PROVE ~(Place(p) < 1)
  <2>1. p - 1 \in 0 .. Len(Rows) /\ p - 1 \in Nat
    BY <1>1
  <2>2. Place(p) = Place(p - 1) + 1 /\ Place(p - 1) \in Nat
    BY <1>3, <2>1, PlaceIsCount
  <2> QED BY <2>2
<1> QED BY <1>2, <1>3 DEF FilteredBelow

LEMMA FilterOneMore ==
  ASSUME NEW stmt, NEW out \in Seq(Slot), NEW n \in 1 .. Len(out), FilteredBelow(out, stmt, n), NEW keep \in BOOLEAN,
         \A p \in 1 .. Len(Rows) : Rows[p] # Gone /\ out[n] = Rows[p] => (keep <=> Wants(Rows[p], stmt))
  PROVE  FilteredBelow(IF keep THEN out ELSE [out EXCEPT ![n] = Gone], stmt, n + 1)
<1> DEFINE o == IF keep THEN out ELSE [out EXCEPT ![n] = Gone]
<1>1. Len(o) = Len(out) /\ \A k \in 1 .. Len(out) : o[k] = IF k = n /\ ~keep THEN Gone ELSE out[k]
  <2>1. Gone \in Slot
    BY DEF Slot
  <2> HIDE DEF Slot
  <2>2. Len([out EXCEPT ![n] = Gone]) = Len(out)
        /\ \A k \in 1 .. Len(out) : [out EXCEPT ![n] = Gone][k] = IF k = n THEN Gone ELSE out[k]
    BY ONLY <2>1, out \in Seq(Slot), n \in 1 .. Len(out), ExceptSeq
  <2>3. CASE keep
    BY <2>3
  <2>4. CASE ~keep
    BY <2>2, <2>4
  <2> QED BY <2>3, <2>4
<1> HIDE DEF o
<1>2. Len(out) = Place(Len(Rows)) /\ Len(Rows) \in Nat /\ Len(out) \in Nat
  <2>1. Len(Rows) \in Nat
    BY RowsAreSlots
  <2>2. Len(Rows) \in 0 .. Len(Rows)
    BY <2>1
  <2> QED BY <2>1, <2>2, PlaceIsCount DEF FilteredBelow
<1>3. ASSUME NEW p \in 1 .. Len(Rows), Rows[p] # Gone
      PROVE  o[Place(p)] = IF Place(p) < n + 1 /\ ~Wants(Rows[p], stmt) THEN Gone ELSE Rows[p]
  <2>1. p - 1 \in 0 .. Len(Rows) /\ p \in 0 .. Len(Rows) /\ Len(Rows) \in 0 .. Len(Rows)
    BY <1>2
  <2>2. Place(p) \in 1 .. Len(out)
    <3>1. Place(p) = Place(p - 1) + 1 /\ Place(p - 1) \in Nat /\ Place(p) <= Place(Len(Rows))
      BY <1>3, <2>1, PlaceIsCount
    <3> QED BY <1>2, <3>1
  <2>3. out[Place(p)] = IF Place(p) < n /\ ~Wants(Rows[p], stmt) THEN Gone ELSE Rows[p]
    BY <1>3 DEF FilteredBelow
  <2>4. CASE Place(p) = n
    <3>1. out[n] = Rows[p]
      BY <1>2, <2>3, <2>4
    <3>2. keep <=> Wants(Rows[p], stmt)
      BY <1>3, <3>1
    <3> QED BY <1>1, <1>2, <2>2, <2>4, <3>1, <3>2
  <2>5. CASE Place(p) # n
    <3>1. Place(p) < n + 1 <=> Place(p) < n
      BY <1>2, <2>2, <2>5
    <3> QED BY <1>1, <2>2, <2>3, <2>5, <3>1
  <2> QED BY <2>4, <2>5
<1>4. FilteredBelow(o, stmt, n + 1)
  BY <1>1, <1>2, <1>3 DEF FilteredBelow
<1> QED BY <1>4 DEF o

\* What a statement that runs by itself has done, at each point: the slots before
\* the one it is at are as SQL wants them, the others are as they were at first.
AskedSoFar(q, table, dead) ==
  /\ q.phase \in {"idle", "refused"} => UnchangedTable(table)
  /\ q.phase = "scan" => q.at <= Len(Rows) + 1
  /\ q.phase = "scan" /\ q.stmt.verb # "select" /\ ~dead =>
       ChangedBelow(table, q.stmt, q.at) /\ q.hits = WantedBelow(q.stmt, q.at)
  /\ q.phase = "scan" /\ q.stmt.verb = "select" => UnchangedTable(table) /\ CopiedBelow(q.out, q.at)
  /\ q.phase = "filter" =>
       /\ q.stmt.verb = "select" /\ q.stmt.where.node # "none"
       /\ UnchangedTable(table) /\ FilteredBelow(q.out, q.stmt, q.at)
  /\ q.phase = "done" =>
       IF q.stmt.verb = "select" THEN UnchangedTable(table) /\ FilteredBelow(q.out, q.stmt, Len(q.out) + 1)
       ELSE ChangedBelow(table, q.stmt, Len(Rows) + 1) /\ q.hits = WantedBelow(q.stmt, Len(Rows) + 1)

\* What is asked of a state, by its fields.
LEMMA AskedFields ==
  \A stmt, phase, at, out, hits, table, dead :
    AskedSoFar(State(stmt, phase, at, out, hits), table, dead) <=>
      /\ phase \in {"idle", "refused"} => UnchangedTable(table)
      /\ phase = "scan" => at <= Len(Rows) + 1
      /\ phase = "scan" /\ stmt.verb # "select" /\ ~dead =>
           ChangedBelow(table, stmt, at) /\ hits = WantedBelow(stmt, at)
      /\ phase = "scan" /\ stmt.verb = "select" => UnchangedTable(table) /\ CopiedBelow(out, at)
      /\ phase = "filter" =>
           /\ stmt.verb = "select" /\ stmt.where.node # "none"
           /\ UnchangedTable(table) /\ FilteredBelow(out, stmt, at)
      /\ phase = "done" =>
           IF stmt.verb = "select" THEN UnchangedTable(table) /\ FilteredBelow(out, stmt, Len(out) + 1)
           ELSE ChangedBelow(table, stmt, Len(Rows) + 1) /\ hits = WantedBelow(stmt, Len(Rows) + 1)
BY StateFields DEF AskedSoFar

\* The statements that the theorem is about.
Asked ==
  /\ NarrowRows
  /\ \A stmt \in Statements : NoTwoWrongs(stmt) /\ SetsLiterals(stmt) /\ PlainlyMeant(stmt)

LEMMA SubmitAsked ==
  ASSUME WhereTypeOK, NEW s \in Sessions, NEW stmt \in Statements, Submit(s, stmt), AskedSoFar(sess[s], slots, down)
  PROVE  AskedSoFar(sess'[s], slots', down')
<1> DEFINE ph == IF Analyse(stmt) = "accept" THEN "scan" ELSE "refused"
<1>1. /\ slots' = slots /\ sess[s].phase = "idle"
      /\ sess'[s] = State(stmt, ph, 1, <<>>, 0)
  BY SubmitMoves DEF Moves
<1>2. UnchangedTable(slots)
  BY <1>1 DEF AskedSoFar
<1>3. ChangedBelow(slots, stmt, 1) /\ WantedBelow(stmt, 1) = 0 /\ CopiedBelow(<<>>, 1) /\ 1 <= Len(Rows) + 1
  <2>1. \A p \in 1 .. Len(Rows) : ~(p < 1)
    BY RowsAreSlots
  <2> QED BY <1>2, <2>1, NothingBelowOne, RowsAreSlots DEF ChangedBelow, UnchangedTable
<1>4. ph \in {"scan", "refused"}
  OBVIOUS
<1> HIDE DEF ph
<1>5. AskedSoFar(State(stmt, ph, 1, <<>>, 0), slots, down')
  BY <1>2, <1>3, <1>4, AskedFields
<1> QED BY <1>1, <1>5

\* What is at hand in a scan, by AcceptedRun and WhereTypeOK.
LEMMA ScanIsAsked ==
  ASSUME Asked, WhereTypeOK, AcceptedRun, NEW s \in Sessions, sess[s].phase \in {"scan", "filter"}
  PROVE  /\ sess[s].stmt \in Statements /\ Analyse(sess[s].stmt) = "accept"
         /\ PlainlyMeant(sess[s].stmt) /\ NarrowRows /\ NoTwoWrongs(sess[s].stmt)
         /\ sess[s].stmt.verb \in {"delete", "update", "select"} /\ SetsLiterals(sess[s].stmt)
         /\ Len(slots) = Len(Rows) /\ Len(Rows) \in Nat /\ sess[s].at \in Nat \ {0}
BY StatementsAssumption, SessionForm, RowsAreSlots DEF Asked, AcceptedRun, WhereTypeOK

LEMMA PassAsked ==
  ASSUME Asked, WhereTypeOK, AcceptedRun, NEW s \in Sessions, Pass(s), AskedSoFar(sess[s], slots, down)
  PROVE  AskedSoFar(sess'[s], slots', down')
<1> DEFINE n == sess[s].at
           stmt == sess[s].stmt
<1>1. /\ slots' = slots /\ ~down /\ ~down' /\ sess[s].phase = "scan" /\ n \in 1 .. Len(slots) /\ slots[n] = Gone
      /\ sess'[s] = State(stmt, "scan", n + 1, sess[s].out, sess[s].hits)
  BY PassMoves DEF Moves
<1>2. /\ stmt.verb \in {"delete", "update", "select"} /\ n \in 1 .. Len(Rows) /\ n + 1 <= Len(Rows) + 1
  BY <1>1, ScanIsAsked
<1>3. CASE stmt.verb # "select"
  <2>1. ChangedBelow(slots, stmt, n) /\ sess[s].hits = WantedBelow(stmt, n)
    BY <1>1, <1>3 DEF AskedSoFar
  <2>2. Rows[n] = Gone
    <3>1. ~(n < n)
      BY <1>2
    <3> QED BY <1>1, <1>2, <2>1, <3>1 DEF ChangedBelow
  <2>3. ~Wants(Rows[n], stmt)
    BY <2>2 DEF Wants
  <2>4. ChangedBelow(slots, stmt, n + 1) /\ WantedBelow(stmt, n + 1) = WantedBelow(stmt, n)
    <3>1. stmt.verb \in {"delete", "update"} /\ n \in 1 .. Len(Rows) /\ ChangedBelow(slots, stmt, n)
      BY <1>2, <1>3, <2>1
    <3>2. \A p \in 1 .. Len(Rows) :
            slots[p] = IF p = n /\ Wants(Rows[n], stmt) THEN Effect(Rows, stmt)[n] ELSE slots[p]
      BY <2>3
    <3> HIDE DEF n, stmt
    <3>3. /\ ChangedBelow(slots, stmt, n + 1)
          /\ WantedBelow(stmt, n + 1) = IF Wants(Rows[n], stmt) THEN WantedBelow(stmt, n) + 1 ELSE WantedBelow(stmt, n)
      BY ONLY <3>1, <3>2, ChangeOneMore
    <3> QED BY <2>3, <3>3
  <2> QED BY <1>1, <1>2, <1>3, <2>1, <2>4, AskedFields
<1>4. CASE stmt.verb = "select"
  <2>1. UnchangedTable(slots) /\ CopiedBelow(sess[s].out, n)
    BY <1>1, <1>4 DEF AskedSoFar
  <2>2. Rows[n] = Gone
    BY <1>1, <1>2, <2>1 DEF UnchangedTable
  <2>3. CopiedBelow(sess[s].out, n + 1)
    BY <1>2, <2>1, <2>2, CopyOneMore, SessionForm
  <2> QED BY <1>1, <1>2, <1>4, <2>1, <2>3, AskedFields
<1> QED BY <1>3, <1>4

\* A row that DELETE or UPDATE stands on, and what it makes of it.
LEMMA ChangeAsked ==
  ASSUME Asked, WhereTypeOK, AcceptedRun, NEW s \in Sessions, AskedSoFar(sess[s], slots, down),
         NEW verb \in {"delete", "update"}, AtRow(s, verb), NEW chosen, NEW new,
         chosen = (~Aborts(sess[s].stmt.where) /\ EvalRow(slots[sess[s].at], sess[s].stmt.where)),
         down' <=> Aborts(sess[s].stmt.where),
         slots' = IF chosen THEN [slots EXCEPT ![sess[s].at] = new] ELSE slots,
         new = IF verb = "delete" THEN Gone ELSE Assigned(slots[sess[s].at], sess[s].stmt.set),
         sess'[s] = State(sess[s].stmt, "scan", sess[s].at + 1, sess[s].out,
                          IF chosen THEN sess[s].hits + 1 ELSE sess[s].hits)
  PROVE  AskedSoFar(sess'[s], slots', down')
<1> DEFINE n == sess[s].at
           stmt == sess[s].stmt
           h == IF chosen THEN sess[s].hits + 1 ELSE sess[s].hits
<1>1. /\ ~down /\ sess[s].phase = "scan" /\ stmt.verb = verb /\ stmt \in Statements
      /\ n \in 1 .. Len(slots) /\ slots[n] \in Tuples /\ slots[n] # Gone
  BY AtRowForm
<1>2. /\ Analyse(stmt) = "accept" /\ PlainlyMeant(stmt) /\ NarrowRows /\ SetsLiterals(stmt)
      /\ Len(slots) = Len(Rows) /\ Len(Rows) \in Nat /\ n \in 1 .. Len(Rows) /\ n + 1 <= Len(Rows) + 1
  BY <1>1, ScanIsAsked
<1>3. stmt.verb # "select" /\ stmt.verb \in {"delete", "update"}
  BY <1>1
<1>4. CASE Aborts(stmt.where)
  <2>1. down'
    BY <1>4
  <2>2. AskedSoFar(State(stmt, "scan", n + 1, sess[s].out, h), slots', down')
    BY <1>2, <1>3, <2>1, AskedFields
  <2> QED BY <2>2
<1>5. CASE ~Aborts(stmt.where)
  <2>1. ChangedBelow(slots, stmt, n) /\ sess[s].hits = WantedBelow(stmt, n)
    BY <1>1, <1>3 DEF AskedSoFar
  <2>2. slots[n] = Rows[n]
    <3>1. ~(n < n)
      BY <1>2
    <3> QED BY <1>2, <2>1, <3>1 DEF ChangedBelow
  <2>3. EvalRow(Rows[n], stmt.where) <=> Wants(Rows[n], stmt)
    <3>1. n \in DOMAIN Rows /\ Rows[n] # Gone
      BY <1>1, <1>2, <2>2, RowsAreSlots
    <3> HIDE DEF n, stmt
    <3> QED BY <1>1, <1>2, <1>3, <1>5, <3>1, ChosenIsWanted
  <2>4. chosen <=> Wants(Rows[n], stmt)
    BY <1>5, <2>2, <2>3
  <2>5. Wants(Rows[n], stmt) => new = Effect(Rows, stmt)[n]
    <3>1. verb = "update" => Assigned(slots[n], stmt.set) = Replaced(slots[n], stmt.set)
      <4> HIDE DEF n, stmt
      <4> QED BY <1>1, <1>2, AssignedIsReplaced
    <3>2. Effect(Rows, stmt)[n] =
            IF Wants(Rows[n], stmt) THEN IF stmt.verb = "delete" THEN Gone ELSE Replaced(Rows[n], stmt.set)
            ELSE Rows[n]
      <4> HIDE DEF n, stmt
      <4> QED BY <1>2, <1>3, EffectAt
    <3> QED BY <1>1, <2>2, <3>1, <3>2
  <2>6. \A p \in 1 .. Len(Rows) :
          slots'[p] = IF p = n /\ Wants(Rows[n], stmt) THEN Effect(Rows, stmt)[n] ELSE slots[p]
    <3>1. slots \in Seq(Slot)
      BY DEF WhereTypeOK
    <3>2. DOMAIN slots = 1 .. Len(slots)
      <4> HIDE DEF Slot
      <4> QED BY <3>1, LenProperties
    <3>3. \A p \in 1 .. Len(slots) : [slots EXCEPT ![n] = new][p] = IF p = n THEN new ELSE slots[p]
      <4> HIDE DEF n
      <4> QED BY <3>2
    <3> HIDE DEF n, stmt
    <3>4. CASE chosen
      BY <1>2, <2>4, <2>5, <3>3, <3>4 DEF n
    <3>5. CASE ~chosen
      BY <2>4, <3>5
    <3> QED BY <3>4, <3>5
  <2>7. /\ ChangedBelow(slots', stmt, n + 1)
        /\ WantedBelow(stmt, n + 1) = IF Wants(Rows[n], stmt) THEN WantedBelow(stmt, n) + 1 ELSE WantedBelow(stmt, n)
    <3>1. stmt.verb \in {"delete", "update"} /\ n \in 1 .. Len(Rows) /\ ChangedBelow(slots, stmt, n)
      BY <1>2, <1>3, <2>1
    <3> HIDE DEF n, stmt
    <3> QED BY ONLY <3>1, <2>6, ChangeOneMore
  <2>8. h = WantedBelow(stmt, n + 1)
    BY <2>1, <2>4, <2>7
  <2>9. AskedSoFar(State(stmt, "scan", n + 1, sess[s].out, h), slots', down')
    <3> HIDE DEF n, stmt, h
    <3> QED BY <1>2, <1>3, <2>7, <2>8, AskedFields
  <2> QED BY <2>9
<1> QED BY <1>4, <1>5

LEMMA CopyAsked ==
  ASSUME Asked, WhereTypeOK, AcceptedRun, NEW s \in Sessions, CopyStep(s), AskedSoFar(sess[s], slots, down)
  PROVE  AskedSoFar(sess'[s], slots', down')
<1> DEFINE n == sess[s].at
           stmt == sess[s].stmt
           o == Append(sess[s].out, slots[sess[s].at])
<1>1. AtRow(s, "select") /\ slots' = slots /\ sess'[s] = State(stmt, "scan", n + 1, o, sess[s].hits)
  BY CopyMoves DEF Moves
<1>2. /\ sess[s].phase = "scan" /\ stmt.verb = "select" /\ slots[n] # Gone
      /\ n \in 1 .. Len(Rows) /\ n + 1 <= Len(Rows) + 1
  BY <1>1, AtRowForm, ScanIsAsked
<1>3. UnchangedTable(slots) /\ CopiedBelow(sess[s].out, n)
  BY <1>2 DEF AskedSoFar
<1>4. slots[n] = Rows[n]
  BY <1>2, <1>3 DEF UnchangedTable
<1>5. CopiedBelow(o, n + 1)
  BY <1>2, <1>3, <1>4, CopyOneMore, SessionForm
<1> HIDE DEF o, n, stmt
<1> QED BY <1>1, <1>2, <1>3, <1>5, AskedFields

LEMMA ScanEndAsked ==
  ASSUME Asked, WhereTypeOK, AcceptedRun, NEW s \in Sessions, ScanEnd(s), AskedSoFar(sess[s], slots, down)
  PROVE  AskedSoFar(sess'[s], slots', down')
<1> DEFINE n == sess[s].at
           stmt == sess[s].stmt
           out == sess[s].out
<1>0. PICK filters : filters = (stmt.verb = "select" /\ stmt.where.node # "none")
  OBVIOUS
<1>1. /\ ~down /\ sess[s].phase = "scan" /\ n > Len(slots) /\ slots' = slots
      /\ filters => sess'[s] = State(stmt, "filter", 1, out, sess[s].hits)
      /\ ~filters => sess'[s] = State(stmt, "done", n, out, sess[s].hits)
  BY <1>0, ScanEndMoves DEF Moves
<1>2. n = Len(Rows) + 1 /\ stmt.verb \in {"delete", "update", "select"}
  <2>1. n <= Len(Rows) + 1 /\ Len(slots) = Len(Rows) /\ Len(Rows) \in Nat /\ n \in Nat
    BY <1>1, ScanIsAsked DEF AskedSoFar
  <2> QED BY <1>1, <2>1, ScanIsAsked
<1>3. CASE stmt.verb = "select"
  <2>1. UnchangedTable(slots) /\ CopiedBelow(out, Len(Rows) + 1)
    BY <1>1, <1>2, <1>3 DEF AskedSoFar
  <2>2. /\ FilteredBelow(out, stmt, 1)
        /\ (\A p \in 1 .. Len(Rows) : Rows[p] # Gone => Wants(Rows[p], stmt)) => FilteredBelow(out, stmt, Len(out) + 1)
    BY <2>1, CopyIsUnfiltered
  <2>3. CASE filters
    <3>1. stmt.where.node # "none" /\ sess'[s] = State(stmt, "filter", 1, out, sess[s].hits)
      BY <1>0, <1>1, <2>3
    <3> HIDE DEF n, stmt, out
    <3>2. AskedSoFar(State(stmt, "filter", 1, out, sess[s].hits), slots, down')
      BY <1>3, <2>1, <2>2, <3>1, AskedFields
    <3> QED BY <1>1, <3>1, <3>2
  <2>4. CASE ~filters
    <3>1. stmt.where \in Conditions /\ stmt.where.node = "none"
      BY <1>0, <1>1, <1>3, <2>4, ScanIsAsked, AcceptedForm
    <3>2. \A p \in 1 .. Len(Rows) : Rows[p] # Gone => Wants(Rows[p], stmt)
      BY <3>1, TruthDef DEF Wants, LeafTruth, Joins
    <3> HIDE DEF n, stmt, out
    <3> QED BY <1>1, <1>3, <2>1, <2>2, <2>4, <3>2, AskedFields
  <2> QED BY <2>3, <2>4
<1>4. CASE stmt.verb # "select"
  <2>1. ChangedBelow(slots, stmt, Len(Rows) + 1) /\ sess[s].hits = WantedBelow(stmt, Len(Rows) + 1)
    BY <1>1, <1>2, <1>4 DEF AskedSoFar
  <2>2. sess'[s] = State(stmt, "done", n, out, sess[s].hits)
    BY <1>0, <1>1, <1>4
  <2>3. AskedSoFar(State(stmt, "done", n, out, sess[s].hits), slots, down')
    <3> HIDE DEF n, stmt, out
    <3> QED BY <1>4, <2>1, AskedFields
  <2> QED BY <1>1, <2>2, <2>3
<1> QED BY <1>3, <1>4

LEMMA FilterAsked ==
  ASSUME Asked, WhereTypeOK, AcceptedRun, NEW s \in Sessions, FilterStep(s), AskedSoFar(sess[s], slots, down)
  PROVE  AskedSoFar(sess'[s], slots', down')
<1> DEFINE n == sess[s].at
           stmt == sess[s].stmt
           out == sess[s].out
<1>1. slots' = slots /\ sess[s].phase = "filter" /\ n \in 1 .. Len(out)
  BY FilterMoves
<1>2. PICK keep \in BOOLEAN :
        /\ Mixed(stmt.where) \/ keep = SelectEvalRow(out[n], stmt.where)
        /\ Moves(sess, sess', s, State(stmt, "filter", n + 1, IF keep THEN out ELSE [out EXCEPT ![n] = Gone], sess[s].hits))
  BY FilterMoves
<1>3. /\ stmt \in Statements /\ Analyse(stmt) = "accept" /\ PlainlyMeant(stmt) /\ NarrowRows /\ NoTwoWrongs(stmt)
      /\ out \in Seq(Slot)
  BY <1>1, ScanIsAsked, SessionForm
<1>4. /\ stmt.verb = "select" /\ stmt.where.node # "none" /\ UnchangedTable(slots) /\ FilteredBelow(out, stmt, n)
  BY <1>1 DEF AskedSoFar
<1>5. keep = SelectEvalRow(out[n], stmt.where)
  <2>1. ~Mixed(stmt.where)
    <3> HIDE DEF stmt
    <3> QED BY <1>3, AcceptedAlike
  <2> QED BY <1>2, <2>1
<1> DEFINE o == IF keep THEN out ELSE [out EXCEPT ![n] = Gone]
<1>6. sess'[s] = State(stmt, "filter", n + 1, o, sess[s].hits)
  BY <1>2 DEF Moves
<1>7. FilteredBelow(o, stmt, n + 1)
  <2>1. ASSUME NEW p \in 1 .. Len(Rows), Rows[p] # Gone, out[n] = Rows[p] PROVE keep <=> Wants(Rows[p], stmt)
    <3>1. p \in DOMAIN Rows
      BY RowsAreSlots
    <3>2. SelectEvalRow(Rows[p], stmt.where) <=> Wants(Rows[p], stmt)
      <4> HIDE DEF stmt
      <4> QED BY <1>3, <1>4, <2>1, <3>1, KeptIsWanted
    <3>3. keep = SelectEvalRow(Rows[p], stmt.where)
      BY <1>5, <2>1
    <3> QED BY <3>2, <3>3
  <2> HIDE DEF n, stmt, out
  <2> QED BY <1>1, <1>3, <1>4, <2>1, FilterOneMore
<1> HIDE DEF n, stmt, out, o
<1> QED BY <1>1, <1>4, <1>6, <1>7, AskedFields

LEMMA FilterEndAsked ==
  ASSUME Asked, WhereTypeOK, AcceptedRun, NEW s \in Sessions, FilterEnd(s), AskedSoFar(sess[s], slots, down)
  PROVE  AskedSoFar(sess'[s], slots', down')
<1> DEFINE n == sess[s].at
           stmt == sess[s].stmt
           out == sess[s].out
<1>1. /\ slots' = slots /\ sess[s].phase = "filter" /\ n > Len(out)
      /\ sess'[s] = State(stmt, "done", n, out, sess[s].hits)
  BY FilterEndMoves DEF Moves
<1>2. /\ stmt.verb = "select" /\ UnchangedTable(slots) /\ FilteredBelow(out, stmt, n)
  BY <1>1 DEF AskedSoFar
<1>3. FilteredBelow(out, stmt, Len(out) + 1)
  <2>1. Len(Rows) \in Nat /\ Len(out) = Place(Len(Rows))
    BY <1>2, RowsAreSlots DEF FilteredBelow
  <2>2. \A p \in 1 .. Len(Rows) : Place(p) \in Nat /\ Place(p) <= Len(out)
    <3>1. Len(Rows) \in 0 .. Len(Rows) /\ \A p \in 1 .. Len(Rows) : p \in 0 .. Len(Rows)
      BY <2>1
    <3> QED BY <2>1, <3>1, PlaceIsCount
  <2>3. n \in Nat /\ Len(out) \in Nat
    <3>1. Len(Rows) \in 0 .. Len(Rows)
      BY <2>1
    <3> QED BY <2>1, <3>1, PlaceIsCount, SessionForm
  <2>4. \A p \in 1 .. Len(Rows) : Place(p) < n /\ Place(p) < Len(out) + 1
    BY <1>1, <2>2, <2>3
  <2> QED BY <1>2, <2>4 DEF FilteredBelow
<1> HIDE DEF n, stmt, out
<1> QED BY <1>1, <1>2, <1>3, AskedFields

AllAsked == \A s \in Sessions : AskedSoFar(sess[s], slots, down)

LEMMA InitAsked == ASSUME Init PROVE AllAsked
<1>1. UnchangedTable(slots) /\ \A s \in Sessions : sess[s].phase = "idle"
  BY DEF Init, Idle, UnchangedTable
<1> QED BY <1>1 DEF AllAsked, AskedSoFar

\* Where no other session runs, each step brings the statement one slot further.
LEMMA NextAsked ==
  ASSUME OneSession, Asked, WhereTyped, AllAsked, [Next]_vars
  PROVE  AllAsked'
<1>1. CASE UNCHANGED vars
  BY <1>1 DEF vars, AllAsked
<1>2. CASE Next
  <2>1. PICK s \in Sessions : Step(s)
    BY <1>2, NextIsStep
  <2>2. WhereTypeOK /\ AcceptedRun /\ AskedSoFar(sess[s], slots, down)
    BY DEF WhereTyped, AllAsked
  <2>3. AskedSoFar(sess'[s], slots', down')
    <3>1. CASE \E stmt \in Statements : Submit(s, stmt)
      BY <2>2, <3>1, SubmitAsked
    <3>2. CASE Pass(s)
      BY <2>2, <3>2, PassAsked
    <3>3. CASE DeleteStep(s)
      <4>1. PICK chosen : chosen = (~Aborts(sess[s].stmt.where) /\ EvalRow(slots[sess[s].at], sess[s].stmt.where))
        OBVIOUS
      <4>2. /\ AtRow(s, "delete") /\ (down' <=> Aborts(sess[s].stmt.where))
            /\ slots' = IF chosen THEN [slots EXCEPT ![sess[s].at] = Gone] ELSE slots
            /\ sess'[s] = State(sess[s].stmt, "scan", sess[s].at + 1, sess[s].out,
                                IF chosen THEN sess[s].hits + 1 ELSE sess[s].hits)
        BY <2>2, <3>3, <4>1, DeleteMoves DEF Moves
      <4>3. PICK verb \in {"delete", "update"} : verb = "delete"
        OBVIOUS
      <4>4. AtRow(s, verb) /\ Gone = IF verb = "delete" THEN Gone ELSE Assigned(slots[sess[s].at], sess[s].stmt.set)
        BY <4>2, <4>3
      <4> QED BY ONLY Asked, s \in Sessions, <2>2, <4>1, <4>2, <4>4, ChangeAsked
    <3>4. CASE UpdateStep(s)
      <4>1. PICK chosen : chosen = (~Aborts(sess[s].stmt.where) /\ EvalRow(slots[sess[s].at], sess[s].stmt.where))
        OBVIOUS
      <4>2. /\ AtRow(s, "update") /\ (down' <=> Aborts(sess[s].stmt.where))
            /\ slots' = IF chosen THEN [slots EXCEPT ![sess[s].at] = Assigned(slots[sess[s].at], sess[s].stmt.set)] ELSE slots
            /\ sess'[s] = State(sess[s].stmt, "scan", sess[s].at + 1, sess[s].out,
                                IF chosen THEN sess[s].hits + 1 ELSE sess[s].hits)
        BY <2>2, <3>4, <4>1, UpdateMoves DEF Moves
      <4>3. PICK verb \in {"delete", "update"} : verb = "update"
        OBVIOUS
      <4>4. PICK new : new = Assigned(slots[sess[s].at], sess[s].stmt.set)
        OBVIOUS
      <4>5. /\ AtRow(s, verb) /\ new = IF verb = "delete" THEN Gone ELSE Assigned(slots[sess[s].at], sess[s].stmt.set)
            /\ slots' = IF chosen THEN [slots EXCEPT ![sess[s].at] = new] ELSE slots
        BY <4>2, <4>3, <4>4
      <4> QED BY ONLY Asked, s \in Sessions, <2>2, <4>1, <4>2, <4>5, ChangeAsked
    <3>5. CASE CopyStep(s)
      BY <2>2, <3>5, CopyAsked
    <3>6. CASE ScanEnd(s)
      BY <2>2, <3>6, ScanEndAsked
    <3>7. CASE FilterStep(s)
      BY <2>2, <3>7, FilterAsked
    <3>8. CASE FilterEnd(s)
      BY <2>2, <3>8, FilterEndAsked
    <3> QED BY <2>1, <3>1, <3>2, <3>3, <3>4, <3>5, <3>6, <3>7, <3>8 DEF Step
  <2>4. \A t \in Sessions : t = s
    BY DEF OneSession
  <2> QED BY <2>3, <2>4 DEF AllAsked
<1> QED BY <1>1, <1>2

LEMMA AskedIsDone ==
  ASSUME WhereTypeOK, AllAsked, NEW s \in Sessions, sess[s].phase = "done"
  PROVE  IF sess[s].stmt.verb = "select" THEN Selects(sess[s]) ELSE DeletesOrUpdates(sess[s])
<1> DEFINE stmt == sess[s].stmt
           out == sess[s].out
<1>0. /\ slots \in Seq(Slot) /\ Rows \in Seq(Slot) /\ Len(slots) = Len(Rows) /\ Len(Rows) \in Nat
      /\ DOMAIN Rows = 1 .. Len(Rows)
  BY RowsAreSlots DEF WhereTypeOK
<1>1. AskedSoFar(sess[s], slots, down)
  BY DEF AllAsked
<1>2. CASE stmt.verb = "select"
  <2>1. UnchangedTable(slots) /\ FilteredBelow(out, stmt, Len(out) + 1)
    BY <1>1, <1>2 DEF AskedSoFar
  <2>2. slots = Rows
    <3>1. \A p \in 1 .. Len(slots) : slots[p] = Rows[p]
      BY <1>0, <2>1 DEF UnchangedTable
    <3> HIDE DEF Slot
    <3> QED BY ONLY <1>0, <3>1, SeqEqual
  <2>3. Len(out) = Place(Len(Rows)) /\ \A p \in 1 .. Len(Rows) : Place(p) < Len(out) + 1
    <3>1. Len(out) = Place(Len(Rows))
      BY <2>1 DEF FilteredBelow
    <3>2. Len(Rows) \in 0 .. Len(Rows) /\ \A p \in 1 .. Len(Rows) : p \in 0 .. Len(Rows)
      BY <1>0
    <3>3. \A p \in 1 .. Len(Rows) : Place(p) \in Nat /\ Place(p) <= Len(out)
      BY <3>1, <3>2, PlaceIsCount
    <3>4. Len(out) \in Nat
      BY <3>1, <3>2, PlaceIsCount
    <3> QED BY <3>1, <3>3, <3>4
  <2>4. \A p \in DOMAIN Rows : Rows[p] # Gone => out[Place(p)] = IF Wants(Rows[p], stmt) THEN Rows[p] ELSE Gone
    BY <1>0, <2>1, <2>3 DEF FilteredBelow
  <2> QED BY <1>2, <2>2, <2>3, <2>4 DEF Selects
<1>3. CASE stmt.verb # "select"
  <2>1. ChangedBelow(slots, stmt, Len(Rows) + 1) /\ sess[s].hits = WantedBelow(stmt, Len(Rows) + 1)
    BY <1>1, <1>3 DEF AskedSoFar
  <2>2. \A p \in 1 .. Len(Rows) : slots[p] = Effect(Rows, stmt)[p]
    <3>1. \A p \in 1 .. Len(Rows) : p < Len(Rows) + 1
      BY <1>0
    <3> QED BY <2>1, <3>1 DEF ChangedBelow
  <2>3. slots = [p \in 1 .. Len(Rows) |-> slots[p]]
    <3>1. slots \in [1 .. Len(slots) -> Slot]
      <4> HIDE DEF Slot
      <4> QED BY <1>0, LenProperties
    <3> QED BY <1>0, <3>1
  <2>4. Effect(Rows, stmt) = [p \in 1 .. Len(Rows) |-> Effect(Rows, stmt)[p]]
    BY <1>0 DEF Effect
  <2>5. slots = Effect(Rows, stmt)
    BY <2>2, <2>3, <2>4
  <2>6. sess[s].hits = Cardinality({p \in DOMAIN Rows : Wants(Rows[p], stmt)})
    <3>1. (Len(Rows) + 1) - 1 = Len(Rows)
      BY <1>0
    <3>2. Below(WantedRows(stmt), Len(Rows)) = {p \in DOMAIN Rows : Wants(Rows[p], stmt)}
      BY <1>0 DEF Below, WantedRows
    <3> QED BY <2>1, <3>1, <3>2 DEF WantedBelow
  <2> QED BY <1>3, <2>5, <2>6 DEF DeletesOrUpdates
<1> QED BY <1>2, <1>3

\* Any one DELETE, UPDATE or SELECT, with any condition, that runs by itself
\* against any table takes exactly the rows for which its condition is true in
\* SQL, for all statements but those in which the README says that the code
\* departs from it.
THEOREM StatementsDoAsAsked ==
  ASSUME OneSession, NarrowRows,
         \A stmt \in Statements : NoTwoWrongs(stmt) /\ SetsLiterals(stmt) /\ NarrowLiterals(stmt) /\ EvaluatedAsSQL(stmt)
  PROVE  Spec => []DoesAsAsked
<1>1. Asked
  BY DEF Asked, PlainlyMeant
<1>2. Init => AllAsked
  BY InitAsked
<1>3. WhereTyped /\ AllAsked /\ [Next]_vars => AllAsked'
  BY <1>1, NextAsked
<1>4. WhereTyped /\ AllAsked => DoesAsAsked
  BY AskedIsDone DEF WhereTyped, DoesAsAsked
<1> QED BY <1>2, <1>3, <1>4, WhereTypedAlways, PTL DEF Spec
=============================================================================
