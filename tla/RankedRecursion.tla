--------------------------- MODULE RankedRecursion ---------------------------
(***************************************************************************)
(* Induction and recursion over a set whose elements have a rank: what     *)
(* proofs about recursively defined functions over trees rest on.          *)
(***************************************************************************)
EXTENDS Integers, WellFoundedInduction, TLAPS

\* Every nonempty set of natural numbers has a least element.
LEMMA LeastNat ==
  ASSUME NEW T \in SUBSET Nat, T # {}
  PROVE  \E x \in T : \A y \in T : x <= y
<1> DEFINE Less == OpToRel(<, Nat)
<1>1. IsWellFoundedOn(Less, Nat)
  BY NatLessThanWellFounded
<1>2. Less = {ss \in Nat \X Nat : ss[1] < ss[2]}
  BY DEF OpToRel
<1> HIDE DEF Less
<1>3. PICK x \in T : \A y \in T : <<y, x>> \notin Less
  BY <1>1, WFMin
<1>4. \A y \in T : <<y, x>> \in Less <=> y < x
  BY <1>2
<1>5. \A y \in T : ~(y < x)
  BY <1>3, <1>4
<1>6. \A y \in T : x \in Nat /\ y \in Nat
  OBVIOUS
<1> QED BY <1>5, <1>6

\* A set of natural numbers with 0 and the successor of each member has all.
LEMMA NatInductionOnSets ==
  ASSUME NEW T \in SUBSET Nat, 0 \in T, \A n \in T : n + 1 \in T
  PROVE  T = Nat
<1> SUFFICES ASSUME Nat \ T # {} PROVE FALSE
  OBVIOUS
<1>1. PICK m \in Nat \ T : \A k \in Nat \ T : m <= k
  BY LeastNat
<1>2. m # 0 /\ m - 1 \in Nat /\ ~(m <= m - 1) /\ m - 1 + 1 = m
  BY <1>1
<1>3. m - 1 \in T
  BY <1>1, <1>2
<1> QED BY <1>1, <1>2, <1>3

\* What holds of an element when it holds of all elements of lower rank holds
\* of every element.
LEMMA RankInduction ==
  ASSUME NEW S, NEW rank \in [S -> Nat], NEW G \in SUBSET S,
         \A e \in S : (\A x \in S : rank[x] < rank[e] => x \in G) => e \in G
  PROVE  G = S
<1> SUFFICES ASSUME S \ G # {} PROVE FALSE
  OBVIOUS
<1> DEFINE T == {rank[e] : e \in S \ G}
<1>1. T \in SUBSET Nat /\ T # {}
  OBVIOUS
<1>2. PICK n \in T : \A m \in T : n <= m
  <2> HIDE DEF T
  <2> QED BY <1>1, LeastNat
<1>3. PICK e \in S \ G : rank[e] = n
  BY <1>2
<1>4. \A x \in S : rank[x] \in Nat /\ (x \notin G => rank[e] <= rank[x])
  BY <1>2, <1>3
<1> QED BY <1>3, <1>4

\* F gives the value of a function at an element from its values at elements of
\* lower rank.
FromLower(S, rank, V, F) ==
  /\ rank \in [S -> Nat] /\ V # {} /\ F \in [[S -> V] -> [S -> V]]
  /\ \A f, g \in [S -> V] : \A e \in S :
       (\A x \in S : rank[x] < rank[e] => f[x] = g[x]) => F[f][e] = F[g][e]

\* A recursive definition of that form has a solution.
LEMMA Recursion ==
  ASSUME NEW S, NEW rank, NEW V, NEW F, FromLower(S, rank, V, F)
  PROVE  \E f \in [S -> V] : f = F[f]
<1> rank \in [S -> Nat] /\ V # {} /\ F \in [[S -> V] -> [S -> V]]
  BY DEF FromLower
<1>0. \A f, g \in [S -> V] : \A e \in S :
        (\A x \in S : rank[x] < rank[e] => f[x] = g[x]) => F[f][e] = F[g][e]
  BY DEF FromLower
<1> DEFINE Solves(f, n) == \A e \in S : rank[e] < n => f[e] = F[f][e]
           T == {n \in Nat : \E f \in [S -> V] : Solves(f, n)}
<1>1. 0 \in T
  <2>1. PICK v \in V : TRUE
    OBVIOUS
  <2>2. [e \in S |-> v] \in [S -> V]
    OBVIOUS
  <2>3. Solves([e \in S |-> v], 0)
    OBVIOUS
  <2> QED BY <2>2, <2>3
<1>2. ASSUME NEW n \in T PROVE n + 1 \in T
  <2>1. PICK f \in [S -> V] : Solves(f, n)
    OBVIOUS
  <2>2. F[f] \in [S -> V]
    OBVIOUS
  <2>3. ASSUME NEW e \in S, rank[e] < n + 1 PROVE F[f][e] = F[F[f]][e]
    <3>1. \A x \in S : rank[x] < rank[e] => rank[x] < n
      BY <2>3
    <3>2. \A x \in S : rank[x] < rank[e] => f[x] = F[f][x]
      BY <2>1, <3>1
    <3> QED BY <1>0, <2>2, <3>2
  <2>4. Solves(F[f], n + 1)
    BY <2>3
  <2> QED BY <2>2, <2>4
<1>3. ASSUME NEW n \in Nat PROVE n \in T
  <2>1. T \in SUBSET Nat
    OBVIOUS
  <2> HIDE DEF T
  <2> QED BY <1>1, <1>2, <2>1, NatInductionOnSets
<1>4. ASSUME NEW f \in [S -> V], NEW g \in [S -> V], NEW n \in Nat, Solves(f, n), Solves(g, n)
      PROVE  \A e \in S : rank[e] < n => f[e] = g[e]
  <2> DEFINE G == {e \in S : rank[e] < n => f[e] = g[e]}
  <2>1. ASSUME NEW e \in S, \A x \in S : rank[x] < rank[e] => x \in G PROVE e \in G
    <3> SUFFICES ASSUME rank[e] < n PROVE f[e] = g[e]
      OBVIOUS
    <3>1. \A x \in S : rank[x] < rank[e] => rank[x] < n
      OBVIOUS
    <3>2. \A x \in S : rank[x] < rank[e] => f[x] = g[x]
      BY <2>1, <3>1
    <3>3. F[f][e] = F[g][e]
      BY <1>0, <3>2
    <3>4. f[e] = F[f][e] /\ g[e] = F[g][e]
      BY <1>4
    <3> QED BY <3>3, <3>4
  <2>2. G \in SUBSET S
    OBVIOUS
  <2>3. G = S
    <3> HIDE DEF G
    <3> QED BY <2>1, <2>2, RankInduction
  <2> QED BY <2>3
<1> DEFINE s == [e \in S |-> CHOOSE f \in [S -> V] : Solves(f, rank[e] + 1)]
           h == [e \in S |-> s[e][e]]
<1>5. ASSUME NEW e \in S PROVE s[e] \in [S -> V] /\ Solves(s[e], rank[e] + 1)
  <2>1. rank[e] + 1 \in T
    BY <1>3
  <2>2. \E f \in [S -> V] : Solves(f, rank[e] + 1)
    BY <2>1
  <2> HIDE DEF Solves
  <2> QED BY <2>2
<1> HIDE DEF s
<1>6. ASSUME NEW e \in S, NEW x \in S, rank[x] <= rank[e] PROVE h[x] = s[e][x]
  <2>1. /\ rank[x] + 1 \in Nat /\ rank[x] < rank[x] + 1
        /\ \A y \in S : rank[y] < rank[x] + 1 => rank[y] < rank[e] + 1
    BY <1>6
  <2>2. s[e] \in [S -> V] /\ s[x] \in [S -> V] /\ Solves(s[x], rank[x] + 1) /\ Solves(s[e], rank[x] + 1)
    BY <1>5, <2>1
  <2> HIDE DEF Solves
  <2>3. s[x][x] = s[e][x]
    BY <1>4, <2>1, <2>2
  <2> QED BY <2>3
<1>7. h \in [S -> V]
  BY <1>5
<1>8. ASSUME NEW e \in S PROVE h[e] = F[h][e]
  <2>1. \A x \in S : rank[x] \in Nat /\ (rank[x] < rank[e] => rank[x] <= rank[e])
    OBVIOUS
  <2>2. s[e] \in [S -> V] /\ s[e][e] = F[s[e]][e]
    BY <1>5, <2>1
  <2>3. \A x \in S : rank[x] < rank[e] => h[x] = s[e][x]
    BY <1>6, <2>1
  <2>4. F[h][e] = F[s[e]][e]
    BY <1>0, <1>7, <2>2, <2>3
  <2> QED BY <2>2, <2>4
<1>9. F[h] \in [S -> V]
  BY <1>7
<1>10. h = F[h]
  <2> HIDE DEF h
  <2> QED BY <1>7, <1>8, <1>9
<1> QED BY <1>7, <1>10
=============================================================================
