-------------------------- MODULE HeightRecursion --------------------------
(***************************************************************************)
(* Functions of a height, each value given by the one for the height       *)
(* below.  A module with such a function takes an instance of this one, with *)
(* its step, and learns that the definition has a solution.                 *)
(***************************************************************************)
EXTENDS Integers, RankedRecursion

CONSTANT Step(_, _)  \* of the value for the height below and the height

\* Step gives a function of the height, if at height 0 nothing is below.
LEMMA Solution ==
  (\A a, b : Step(a, 0) = Step(b, 0)) => \E f : f = [h \in Nat |-> Step(f[h - 1], h)]
<1> SUFFICES ASSUME \A a, b : Step(a, 0) = Step(b, 0)
             PROVE  \E f : f = [h \in Nat |-> Step(f[h - 1], h)]
  OBVIOUS
<1> DEFINE Solves(f, n) == \A h \in 0 .. n : f[h] = Step(f[h - 1], h)
           Solved == {n \in Nat : \E f : Solves(f, n)}
           Unique == {n \in Nat : \A f, g : Solves(f, n) /\ Solves(g, n) => f[n] = g[n]}
<1>1. 0 \in Solved
  <2>1. Solves([h \in {0} |-> Step({}, 0)], 0)
    OBVIOUS
  <2> QED BY <2>1
<1>2. ASSUME NEW n \in Solved PROVE n + 1 \in Solved
  <2>1. PICK f : Solves(f, n)
    OBVIOUS
  <2> DEFINE g == [h \in 0 .. n + 1 |-> IF h = n + 1 THEN Step(f[n], n + 1) ELSE f[h]]
  <2>2. ASSUME NEW h \in 0 .. n + 1 PROVE g[h] = Step(g[h - 1], h)
    <3>1. CASE h = 0
      <4>1. g[0] = f[0] /\ f[0] = Step(f[0 - 1], 0)
        BY <2>1
      <4> QED BY <3>1, <4>1
    <3>2. CASE h \in 1 .. n
      <4>1. g[h] = f[h] /\ g[h - 1] = f[h - 1] /\ f[h] = Step(f[h - 1], h)
        BY <2>1, <3>2
      <4> QED BY <4>1
    <3>3. CASE h = n + 1
      <4>1. g[h] = Step(f[n], n + 1) /\ g[h - 1] = f[n]
        BY <3>3
      <4> QED BY <3>3, <4>1
    <3> QED BY <3>1, <3>2, <3>3
  <2>3. Solves(g, n + 1)
    BY <2>2
  <2> HIDE DEF g, Solves
  <2> QED BY <2>3
<1>3. 0 \in Unique
  <2> SUFFICES ASSUME NEW f, NEW g, Solves(f, 0), Solves(g, 0) PROVE f[0] = g[0]
    OBVIOUS
  <2>1. f[0] = Step(f[0 - 1], 0) /\ g[0] = Step(g[0 - 1], 0)
    OBVIOUS
  <2> QED BY <2>1
<1>4. ASSUME NEW n \in Unique PROVE n + 1 \in Unique
  <2> SUFFICES ASSUME NEW f, NEW g, Solves(f, n + 1), Solves(g, n + 1) PROVE f[n + 1] = g[n + 1]
    OBVIOUS
  <2>1. Solves(f, n) /\ Solves(g, n)
    OBVIOUS
  <2>2. f[n] = g[n]
    <3> HIDE DEF Solves
    <3> QED BY <2>1
  <2>3. f[n + 1] = Step(f[n], n + 1) /\ g[n + 1] = Step(g[n], n + 1)
    OBVIOUS
  <2> QED BY <2>2, <2>3
<1>5. Solved = Nat /\ Unique = Nat
  <2>1. Solved \in SUBSET Nat /\ Unique \in SUBSET Nat
    OBVIOUS
  <2> HIDE DEF Solved, Unique
  <2> QED BY <1>1, <1>2, <1>3, <1>4, <2>1, NatInductionOnSets
<1> DEFINE s == [n \in Nat |-> CHOOSE f : Solves(f, n)]
           f == [n \in Nat |-> s[n][n]]
<1>6. ASSUME NEW n \in Nat PROVE Solves(s[n], n)
  <2>1. \E g : Solves(g, n)
    BY <1>5
  <2>2. s[n] = CHOOSE g : Solves(g, n)
    OBVIOUS
  <2> HIDE DEF Solves, s
  <2> QED BY <2>1, <2>2
<1> HIDE DEF s
<1>7. ASSUME NEW h \in Nat PROVE f[h] = Step(f[h - 1], h)
  <2>1. f[h] = s[h][h] /\ s[h][h] = Step(s[h][h - 1], h)
    BY <1>6
  <2>2. CASE h = 0
    BY <2>1, <2>2
  <2>3. CASE h # 0
    <3>1. h - 1 \in Nat /\ Solves(s[h - 1], h - 1) /\ Solves(s[h], h - 1)
      BY <1>6, <2>3
    <3>2. s[h][h - 1] = s[h - 1][h - 1]
      <4> HIDE DEF Solves
      <4> QED BY <1>5, <3>1
    <3>3. f[h - 1] = s[h - 1][h - 1]
      BY <3>1
    <3> QED BY <2>1, <3>2, <3>3
  <2> QED BY <2>2, <2>3
<1>8. f = [h \in Nat |-> f[h]]
  OBVIOUS
<1>9. f = [h \in Nat |-> Step(f[h - 1], h)]
  <2> HIDE DEF f
  <2> QED BY <1>7, <1>8
<1> QED BY <1>9
=============================================================================
