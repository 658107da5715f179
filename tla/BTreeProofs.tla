---------------------------- MODULE BTreeProofs ----------------------------
(***************************************************************************)
(* Proofs about the B-tree: for every minimum degree, every set of keys and *)
(* every number of nodes that can be had, the tree keeps the keys it was    *)
(* given, in order and balanced, and a search finds them.                   *)
(***************************************************************************)
EXTENDS BTree, RankedRecursion, FiniteSetTheorems

(* What each function is at a height, given what it is at the height below. *)

TreesStep(v, h) ==
  [keys : [Places -> Keys \cup {NoKey}], count : 0 .. Full,
   kids : [Places -> {NoNode} \cup IF h = 0 THEN {} ELSE v]]

TreesRec == INSTANCE HeightRecursion WITH Step <- TreesStep

LEMMA TreesDef == \A h \in Nat : Trees[h] = TreesStep(Trees[h - 1], h)
<1>1. \A a, b : TreesStep(a, 0) = TreesStep(b, 0)
  BY DEF TreesStep
<1>2. \E f : f = [h \in Nat |-> TreesStep(f[h - 1], h)]
  BY <1>1, TreesRec!Solution
<1>3. Trees = [h \in Nat |-> TreesStep(Trees[h - 1], h)]
  BY <1>2 DEF Trees, TreesStep
<1> QED BY <1>3

LEMMA BaseIsLeaf == \A n \in Trees[0] : IsLeaf(n)
<1>1. Trees[0] = TreesStep(Trees[0 - 1], 0)
  BY TreesDef
<1>2. 0 \in Places
  BY DegreeAssumption DEF Places, Full
<1>3. \A n \in TreesStep(Trees[0 - 1], 0) : n.kids[0] = NoNode
  BY <1>2 DEF TreesStep
<1> QED BY <1>1, <1>3 DEF IsLeaf

LEMMA BaseHasNoChildren == \A n \in Trees[0] : Children(n) = {}
<1>1. Trees[0] = TreesStep(Trees[0 - 1], 0)
  BY TreesDef
<1>2. \A n \in TreesStep(Trees[0 - 1], 0) : \A q \in Places : n.kids[q] = NoNode
  BY DEF TreesStep
<1> QED BY <1>1, <1>2 DEF Children

SearchAt(v, n, key) ==
  LET i == Smaller(n, key)
  IN  \/ n.keys[i] = key
      \/ ~IsLeaf(n) /\ v[n.kids[i]][key]

SearchStep(v, h) ==
  [n \in Trees[h] |-> [key \in Keys |-> SearchAt(v, n, key)]]

SearchRec == INSTANCE HeightRecursion WITH Step <- SearchStep

LEMMA SearchDef == \A h \in Nat : Search[h] = SearchStep(Search[h - 1], h)
<1>1. \A a, b : SearchStep(a, 0) = SearchStep(b, 0)
  <2>1. \A n \in Trees[0] : \A key \in Keys : \A a, b : SearchAt(a, n, key) = SearchAt(b, n, key)
    BY BaseIsLeaf, Zenon DEF SearchAt
  <2> QED BY <2>1 DEF SearchStep
<1>2. \E f : f = [h \in Nat |-> SearchStep(f[h - 1], h)]
  BY <1>1, SearchRec!Solution
<1>3. Search = [h \in Nat |-> SearchStep(Search[h - 1], h)]
  BY <1>2, Zenon DEF Search, SearchStep, SearchAt
<1> QED BY <1>3

InsertAt(v, x, key, mem) ==
  LET i == NotGreater(x, key)
      split == NeedsSplit(x.kids[i])
      y == IF split THEN SplitChild(x, i) ELSE x
      j == IF split /\ y.keys[i] < key THEN i + 1 ELSE i
      r == v[y.kids[j]][key][IF split THEN mem - 1 ELSE mem]
  IN  CASE IsLeaf(x) -> [node |-> Node(Opened(x, i, key), x.count + 1, NoKids), ok |-> TRUE]
        [] ~IsLeaf(x) /\ split /\ mem = 0 -> [node |-> x, ok |-> FALSE]
        [] OTHER -> [node |-> SetKid(y, j, r.node), ok |-> r.ok]

InsertNonfullStep(v, h) ==
  [x \in Trees[h] |-> [key \in Keys |-> [mem \in Nat |-> InsertAt(v, x, key, mem)]]]

InsertNonfullRec == INSTANCE HeightRecursion WITH Step <- InsertNonfullStep

LEMMA InsertNonfullDef == \A h \in Nat : InsertNonfull[h] = InsertNonfullStep(InsertNonfull[h - 1], h)
<1>1. \A a, b : InsertNonfullStep(a, 0) = InsertNonfullStep(b, 0)
  <2>1. \A x \in Trees[0] : \A key \in Keys, mem \in Nat :
          \A v : InsertAt(v, x, key, mem) =
                   [node |-> Node(Opened(x, NotGreater(x, key), key), x.count + 1, NoKids), ok |-> TRUE]
    BY BaseIsLeaf DEF InsertAt
  <2> QED BY <2>1 DEF InsertNonfullStep
<1>2. \E f : f = [h \in Nat |-> InsertNonfullStep(f[h - 1], h)]
  BY <1>1, InsertNonfullRec!Solution
<1>3. InsertNonfull = [h \in Nat |-> InsertNonfullStep(InsertNonfull[h - 1], h)]
  BY <1>2, Zenon DEF InsertNonfull, InsertNonfullStep, InsertAt
<1> QED BY <1>3

RightmostStep(v, h) ==
  [n \in Trees[h] |-> IF IsLeaf(n) THEN n.keys[n.count - 1] ELSE v[n.kids[n.count]]]

RightmostRec == INSTANCE HeightRecursion WITH Step <- RightmostStep

LEMMA RightmostDef == \A h \in Nat : Rightmost[h] = RightmostStep(Rightmost[h - 1], h)
<1>1. \A a, b : RightmostStep(a, 0) = RightmostStep(b, 0)
  BY BaseIsLeaf, Zenon DEF RightmostStep
<1>2. \E f : f = [h \in Nat |-> RightmostStep(f[h - 1], h)]
  BY <1>1, RightmostRec!Solution
<1>3. Rightmost = [h \in Nat |-> RightmostStep(Rightmost[h - 1], h)]
  BY <1>2, Zenon DEF Rightmost, RightmostStep
<1> QED BY <1>3

LeftmostStep(v, h) ==
  [n \in Trees[h] |-> IF IsLeaf(n) THEN n.keys[0] ELSE v[n.kids[0]]]

LeftmostRec == INSTANCE HeightRecursion WITH Step <- LeftmostStep

LEMMA LeftmostDef == \A h \in Nat : Leftmost[h] = LeftmostStep(Leftmost[h - 1], h)
<1>1. \A a, b : LeftmostStep(a, 0) = LeftmostStep(b, 0)
  BY BaseIsLeaf, Zenon DEF LeftmostStep
<1>2. \E f : f = [h \in Nat |-> LeftmostStep(f[h - 1], h)]
  BY <1>1, LeftmostRec!Solution
<1>3. Leftmost = [h \in Nat |-> LeftmostStep(Leftmost[h - 1], h)]
  BY <1>2, Zenon DEF Leftmost, LeftmostStep
<1> QED BY <1>3

RemoveAt(v, h, n, key, short) ==
  LET i == Smaller(n, key)
      here == i < n.count /\ n.keys[i] = key
      Fails(at) == h = short /\ ~IsLeaf(n.kids[at])
      Torn(at) == [node |-> TornMerge(n, at), ok |-> FALSE]
      With(m, at, k) == LET r == v[m.kids[at]][k][short] IN [node |-> SetKid(m, at, r.node), ok |-> r.ok]
      pred == Rightmost[h - 1][n.kids[i]]
      succ == Leftmost[h - 1][n.kids[i + 1]]
      merges == ~Spare(n.kids[i]) /\ ~LendsPrev(n, i) /\ ~LendsNext(n, i)
      m == IF Spare(n.kids[i]) THEN n ELSE Fill(n, i)
  IN  CASE IsLeaf(n) /\ here -> [node |-> Node(Closed(n, i), n.count - 1, NoKids), ok |-> TRUE]
        [] IsLeaf(n) /\ ~here -> [node |-> n, ok |-> TRUE]
        [] ~IsLeaf(n) /\ here /\ Spare(n.kids[i]) -> With(SetKey(n, i, pred), i, pred)
        [] ~IsLeaf(n) /\ here /\ ~Spare(n.kids[i]) /\ Spare(n.kids[i + 1]) -> With(SetKey(n, i, succ), i + 1, succ)
        [] ~IsLeaf(n) /\ here /\ ~Spare(n.kids[i]) /\ ~Spare(n.kids[i + 1]) ->
             IF Fails(i) THEN Torn(i) ELSE With(Merge(n, i), i, key)
        [] ~IsLeaf(n) /\ ~here ->
             IF merges /\ Fails(MergeAt(n, i)) THEN Torn(MergeAt(n, i))
             ELSE With(m, IF i > m.count THEN i - 1 ELSE i, key)

NodeRemoveStep(v, h) ==
  [n \in Trees[h] |-> [key \in Keys |-> [short \in Nat |-> RemoveAt(v, h, n, key, short)]]]

NodeRemoveRec == INSTANCE HeightRecursion WITH Step <- NodeRemoveStep

LEMMA NodeRemoveDef == \A h \in Nat : NodeRemove[h] = NodeRemoveStep(NodeRemove[h - 1], h)
<1>1. \A a, b : NodeRemoveStep(a, 0) = NodeRemoveStep(b, 0)
  <2>1. \A n \in Trees[0] : \A key \in Keys, short \in Nat : \A a, b : RemoveAt(a, 0, n, key, short) = RemoveAt(b, 0, n, key, short)
    BY BaseIsLeaf DEF RemoveAt
  <2> QED BY <2>1 DEF NodeRemoveStep
<1>2. \E f : f = [h \in Nat |-> NodeRemoveStep(f[h - 1], h)]
  BY <1>1, NodeRemoveRec!Solution
<1>3. NodeRemove = [h \in Nat |-> NodeRemoveStep(NodeRemove[h - 1], h)]
  BY <1>2, Zenon DEF NodeRemove, NodeRemoveStep, RemoveAt
<1> QED BY <1>3

KeysOfStep(v, h) ==
  [n \in Trees[h] |-> OwnKeys(n) \cup UNION {v[n.kids[q]] : q \in Children(n)}]

KeysOfRec == INSTANCE HeightRecursion WITH Step <- KeysOfStep

LEMMA KeysOfDef == \A h \in Nat : KeysOf[h] = KeysOfStep(KeysOf[h - 1], h)
<1>1. \A a, b : KeysOfStep(a, 0) = KeysOfStep(b, 0)
  BY BaseHasNoChildren, Zenon DEF KeysOfStep
<1>2. \E f : f = [h \in Nat |-> KeysOfStep(f[h - 1], h)]
  BY <1>1, KeysOfRec!Solution
<1>3. KeysOf = [h \in Nat |-> KeysOfStep(KeysOf[h - 1], h)]
  BY <1>2, Zenon DEF KeysOf, KeysOfStep
<1> QED BY <1>3

OrderedStep(v, h) ==
  [n \in Trees[h] |->
     /\ \A p, q \in 0 .. n.count - 1 : p < q => n.keys[p] < n.keys[q]
     /\ \A q \in Children(n) :
          v[n.kids[q]] /\ \A key \in KeysOf[h - 1][n.kids[q]] : InGap(n, q, key)]

OrderedRec == INSTANCE HeightRecursion WITH Step <- OrderedStep

LEMMA OrderedDef == \A h \in Nat : Ordered[h] = OrderedStep(Ordered[h - 1], h)
<1>1. \A a, b : OrderedStep(a, 0) = OrderedStep(b, 0)
  BY BaseHasNoChildren, Zenon DEF OrderedStep
<1>2. \E f : f = [h \in Nat |-> OrderedStep(f[h - 1], h)]
  BY <1>1, OrderedRec!Solution
<1>3. Ordered = [h \in Nat |-> OrderedStep(Ordered[h - 1], h)]
  BY <1>2, Zenon DEF Ordered, OrderedStep
<1> QED BY <1>3

EvenStep(v, h) ==
  [n \in Trees[h] |->
     /\ Children(n) = IF h = 0 THEN {} ELSE 0 .. n.count
     /\ \A q \in Children(n) : n.kids[q].count \in T - 1 .. Full /\ v[n.kids[q]]]

EvenRec == INSTANCE HeightRecursion WITH Step <- EvenStep

LEMMA EvenDef == \A h \in Nat : Even[h] = EvenStep(Even[h - 1], h)
<1>1. \A a, b : EvenStep(a, 0) = EvenStep(b, 0)
  BY BaseHasNoChildren, Zenon DEF EvenStep
<1>2. \E f : f = [h \in Nat |-> EvenStep(f[h - 1], h)]
  BY <1>1, EvenRec!Solution
<1>3. Even = [h \in Nat |-> EvenStep(Even[h - 1], h)]
  BY <1>2, Zenon DEF Even, EvenStep
<1> QED BY <1>3

----------------------------------------------------------------------------
(* Rows: keys with a set of keys before, between and behind them, as a node's *)
(* keys stand between the keys of its subtrees.                               *)

\* k belongs into gap q of a row with c keys.
Between(K, c, q, k) == \A p \in 0 .. c - 1 : IF p < q THEN K[p] < k ELSE k < K[p]

\* k belongs where the key i of a row and the sets around it are.
InWindow(K, c, i, k) == k \in Int /\ \A p \in 0 .. c - 1 : (p < i => K[p] < k) /\ (i < p => k < K[p])

Row(K, c, S) ==
  /\ \A p \in 0 .. c - 1 : K[p] \in Int
  /\ \A p, q \in 0 .. c - 1 : p < q => K[p] < K[q]
  /\ \A q \in 0 .. c : \A k \in S[q] : k \in Int /\ Between(K, c, q, k)

InRow(K, c, S, k) == (\E p \in 0 .. c - 1 : K[p] = k) \/ (\E q \in 0 .. c : k \in S[q])

RowKeys(K, c, S) == {K[p] : p \in 0 .. c - 1} \cup UNION {S[q] : q \in 0 .. c}

LEMMA RowKeysAre ==
  ASSUME NEW K, NEW c, NEW S
  PROVE  \A k : k \in RowKeys(K, c, S) <=> InRow(K, c, S, k)
BY DEF RowKeys, InRow

LEMMA RowKeysAreInt ==
  ASSUME NEW K, NEW c, NEW S, Row(K, c, S)
  PROVE  RowKeys(K, c, S) \subseteq Int
BY DEF RowKeys, Row

\* A key that stands in the gap with a set is there or nowhere.
LEMMA RowPlace ==
  ASSUME NEW c \in Nat, NEW K, NEW S, Row(K, c, S), NEW i \in 0 .. c, NEW k \in Int, Between(K, c, i, k)
  PROVE  k \in RowKeys(K, c, S) <=> k \in S[i]
<1>1. ASSUME NEW p \in 0 .. c - 1, K[p] = k PROVE FALSE
  BY <1>1 DEF Between
<1>2. ASSUME NEW q \in 0 .. c, k \in S[q], q # i PROVE FALSE
  <2>1. Between(K, c, q, k)
    BY <1>2 DEF Row
  <2>2. CASE q < i
    <3>1. q \in 0 .. c - 1 /\ K[q] \in Int
      BY <2>2 DEF Row
    <3>2. k < K[q] /\ K[q] < k
      BY <2>1, <2>2, <3>1 DEF Between
    <3> QED BY <3>1, <3>2
  <2>3. CASE i < q
    <3>1. i \in 0 .. c - 1 /\ K[i] \in Int
      BY <2>3 DEF Row
    <3>2. K[i] < k /\ k < K[i]
      BY <2>1, <2>3, <3>1 DEF Between
    <3> QED BY <3>1, <3>2
  <2> QED BY <1>2, <2>2, <2>3
<1> QED BY <1>1, <1>2 DEF RowKeys

\* What stands in different places of a row is different.
LEMMA RowApart ==
  ASSUME NEW c \in Nat, NEW K, NEW S, Row(K, c, S)
  PROVE  /\ \A p, q \in 0 .. c - 1 : K[p] = K[q] => p = q
         /\ \A p \in 0 .. c - 1 : \A q \in 0 .. c : K[p] \notin S[q]
         /\ \A q, r \in 0 .. c : \A k \in S[q] : k \in S[r] => q = r
<1>1. ASSUME NEW p \in 0 .. c - 1, NEW q \in 0 .. c - 1, K[p] = K[q], p # q PROVE FALSE
  <2>1. K[p] \in Int /\ K[q] \in Int /\ (p < q => K[p] < K[q]) /\ (q < p => K[q] < K[p])
    BY DEF Row
  <2> QED BY <1>1, <2>1
<1>2. ASSUME NEW p \in 0 .. c - 1, NEW q \in 0 .. c, K[p] \in S[q] PROVE FALSE
  <2>1. K[p] \in Int /\ Between(K, c, q, K[p])
    BY <1>2 DEF Row
  <2> QED BY <2>1 DEF Between
<1>3. ASSUME NEW q \in 0 .. c, NEW r \in 0 .. c, NEW k \in S[q], k \in S[r], q # r PROVE FALSE
  <2>1. k \in Int /\ Between(K, c, q, k) /\ Between(K, c, r, k)
    BY <1>3 DEF Row
  <2>2. ASSUME NEW a \in 0 .. c, NEW b \in 0 .. c, a < b, Between(K, c, a, k), Between(K, c, b, k) PROVE FALSE
    <3>1. a \in 0 .. c - 1 /\ K[a] \in Int
      BY <2>2 DEF Row
    <3>2. k < K[a] /\ K[a] < k
      BY <2>2, <3>1 DEF Between
    <3> QED BY <2>1, <3>1, <3>2
  <2> QED BY <1>3, <2>1, <2>2
<1> QED BY <1>1, <1>2, <1>3

\* S2 is S but for A at i.
Replaced(S2, S, c, i, A) == \A q \in 0 .. c : S2[q] = IF q = i THEN A ELSE S[q]

\* A set gives way to another one that stands in the same gap.
LEMMA RowReplace ==
  ASSUME NEW c \in Nat, NEW K, NEW S, Row(K, c, S), NEW i \in 0 .. c,
         NEW A, \A k \in A : k \in Int /\ Between(K, c, i, k),
         NEW S2, Replaced(S2, S, c, i, A)
  PROVE  Row(K, c, S2) /\ RowKeys(K, c, S2) = (RowKeys(K, c, S) \ S[i]) \cup A
<1> USE DEF Replaced
<1>1. Row(K, c, S2)
  BY DEF Row
<1>2. ASSUME NEW k PROVE InRow(K, c, S2, k) <=> (InRow(K, c, S, k) /\ k \notin S[i]) \/ k \in A
  BY RowApart DEF InRow
<1> QED BY <1>1, <1>2, RowKeysAre

\* A stands in gap i.
Fits(K, c, i, A) == \A k \in A : k \in Int /\ Between(K, c, i, k)

Under(A, m) == \A k \in A : k < m

Over(B, m) == \A k \in B : m < k

\* K2: m comes before key i of K.
OpenedKeys(K2, K, c, i, m) == \A p \in 0 .. c : K2[p] = IF p < i THEN K[p] ELSE IF p = i THEN m ELSE K[p - 1]

\* S2: A and B come where i is in S.
OpenedSets(S2, S, c, i, A, B) ==
  \A q \in 0 .. c + 1 : S2[q] = IF q < i THEN S[q] ELSE IF q = i THEN A ELSE IF q = i + 1 THEN B ELSE S[q - 1]

\* A set is parted by a key, or a key comes into a gap.
LEMMA RowOpen ==
  ASSUME NEW c \in Nat, NEW K, NEW S, Row(K, c, S), NEW i \in 0 .. c,
         NEW m \in Int, Between(K, c, i, m),
         NEW A, Fits(K, c, i, A), Under(A, m),
         NEW B, Fits(K, c, i, B), Over(B, m),
         NEW K2, OpenedKeys(K2, K, c, i, m),
         NEW S2, OpenedSets(S2, S, c, i, A, B)
  PROVE  /\ Row(K2, c + 1, S2)
         /\ RowKeys(K2, c + 1, S2) = (RowKeys(K, c, S) \ S[i]) \cup A \cup {m} \cup B
<1> USE DEF OpenedKeys, OpenedSets, Fits, Under, Over
<1>1. \A p \in 0 .. c : K2[p] \in Int
  BY DEF Row
<1>2. \A p, q \in 0 .. c : p < q => K2[p] < K2[q]
  <2> SUFFICES ASSUME NEW p \in 0 .. c, NEW q \in 0 .. c, p < q PROVE K2[p] < K2[q]
    OBVIOUS
  <2>1. CASE q < i
    BY <2>1 DEF Row
  <2>2. CASE q = i
    BY <2>2 DEF Between
  <2>3. CASE p = i
    BY <2>3 DEF Between
  <2>4. CASE p < i /\ i < q
    BY <2>4 DEF Row
  <2>5. CASE i < p
    BY <2>5 DEF Row
  <2> QED BY <2>1, <2>2, <2>3, <2>4, <2>5
<1>3. ASSUME NEW q \in 0 .. c + 1, NEW k \in S2[q] PROVE k \in Int /\ Between(K2, c + 1, q, k)
  <2>1. CASE q < i
    <3>1. k \in Int /\ Between(K, c, q, k) /\ k < K[q] /\ K[q] < m /\ K[q] \in Int
      BY <2>1 DEF Row, Between
    <3> QED BY <2>1, <3>1 DEF Between
  <2>2. CASE q = i
    BY <2>2 DEF Between
  <2>3. CASE q = i + 1
    BY <2>3 DEF Between
  <2>4. CASE q > i + 1
    <3>1. k \in S[q - 1] /\ q - 1 \in 0 .. c /\ q - 2 \in 0 .. c - 1
      BY <2>4
    <3>2. k \in Int /\ Between(K, c, q - 1, k) /\ K[q - 2] \in Int
      BY <3>1 DEF Row
    <3>3. K[q - 2] < k /\ m < K[q - 2]
      BY <2>4, <3>1, <3>2 DEF Between
    <3> QED BY <2>4, <3>1, <3>2, <3>3 DEF Between
  <2> QED BY <2>1, <2>2, <2>3, <2>4
<1>4. Row(K2, c + 1, S2)
  BY <1>1, <1>2, <1>3 DEF Row
<1>5. ASSUME NEW k
      PROVE  InRow(K2, c + 1, S2, k) <=> (InRow(K, c, S, k) /\ k \notin S[i]) \/ k \in A \/ k = m \/ k \in B
  <2>1. ASSUME InRow(K2, c + 1, S2, k) PROVE (InRow(K, c, S, k) /\ k \notin S[i]) \/ k \in A \/ k = m \/ k \in B
    <3>1. ASSUME NEW p \in 0 .. c, K2[p] = k PROVE k = m \/ \E r \in 0 .. c - 1 : K[r] = k
      BY <3>1
    <3>2. ASSUME NEW q \in 0 .. c + 1, k \in S2[q] PROVE k \in A \/ k \in B \/ \E r \in 0 .. c : r # i /\ k \in S[r]
      BY <3>2
    <3> QED BY <2>1, <3>1, <3>2, RowApart DEF InRow
  <2>2. ASSUME NEW p \in 0 .. c - 1, K[p] = k PROVE InRow(K2, c + 1, S2, k)
    <3>1. IF p < i THEN K2[p] = k ELSE K2[p + 1] = k
      BY <2>2
    <3> QED BY <3>1 DEF InRow
  <2>3. ASSUME NEW q \in 0 .. c, q # i, k \in S[q] PROVE InRow(K2, c + 1, S2, k)
    <3>1. IF q < i THEN k \in S2[q] ELSE k \in S2[q + 1]
      BY <2>3
    <3> QED BY <3>1 DEF InRow
  <2>4. (k \in A => k \in S2[i]) /\ (k = m => K2[i] = k) /\ (k \in B => k \in S2[i + 1])
    OBVIOUS
  <2> QED BY <2>1, <2>2, <2>3, <2>4 DEF InRow
<1> QED BY <1>4, <1>5, RowKeysAre

\* K2: K without key i.
ClosedKeys(K2, K, c, i) == \A p \in 0 .. c - 2 : K2[p] = IF p < i THEN K[p] ELSE K[p + 1]

\* S2: M comes where i and i + 1 are in S.
ClosedSets(S2, S, c, i, M) ==
  \A q \in 0 .. c - 1 : S2[q] = IF q < i THEN S[q] ELSE IF q = i THEN M ELSE S[q + 1]

Windowed(K, c, i, M) == \A k \in M : InWindow(K, c, i, k)

\* Two sets and the key between them become one set.
LEMMA RowClose ==
  ASSUME NEW c \in Nat, NEW K, NEW S, Row(K, c, S), NEW i \in 0 .. c - 1,
         NEW M, Windowed(K, c, i, M),
         NEW K2, ClosedKeys(K2, K, c, i),
         NEW S2, ClosedSets(S2, S, c, i, M)
  PROVE  /\ Row(K2, c - 1, S2)
         /\ RowKeys(K2, c - 1, S2) = (RowKeys(K, c, S) \ (S[i] \cup {K[i]} \cup S[i + 1])) \cup M
<1> USE DEF InWindow, Windowed, ClosedKeys, ClosedSets
<1>1. \A p \in 0 .. c - 2 : K2[p] \in Int
  BY DEF Row
<1>2. \A p, q \in 0 .. c - 2 : p < q => K2[p] < K2[q]
  BY DEF Row
<1>3. ASSUME NEW q \in 0 .. c - 1, NEW k \in S2[q] PROVE k \in Int /\ Between(K2, c - 1, q, k)
  <2>1. CASE q < i
    BY <2>1 DEF Row, Between
  <2>2. CASE q = i
    BY <2>2 DEF Between
  <2>3. CASE q > i
    <3>1. k \in S[q + 1] /\ q + 1 \in 0 .. c
      BY <2>3
    <3>2. k \in Int /\ Between(K, c, q + 1, k)
      BY <3>1 DEF Row
    <3> QED BY <2>3, <3>1, <3>2 DEF Between
  <2> QED BY <2>1, <2>2, <2>3
<1>4. Row(K2, c - 1, S2)
  BY <1>1, <1>2, <1>3 DEF Row
<1> DEFINE W == S[i] \cup {K[i]} \cup S[i + 1]
<1>5. ASSUME NEW k PROVE InRow(K2, c - 1, S2, k) <=> (InRow(K, c, S, k) /\ k \notin W) \/ k \in M
  <2>1. ASSUME NEW p \in 0 .. c - 2, K2[p] = k PROVE \E r \in 0 .. c - 1 : r # i /\ K[r] = k
    BY <2>1
  <2>2. ASSUME NEW q \in 0 .. c - 1, k \in S2[q] PROVE k \in M \/ \E r \in 0 .. c : r # i /\ r # i + 1 /\ k \in S[r]
    BY <2>2
  <2>3. ASSUME NEW r \in 0 .. c - 1, r # i, K[r] = k PROVE k \notin W
    BY <2>3, RowApart
  <2>4. ASSUME NEW r \in 0 .. c, r # i, r # i + 1, k \in S[r] PROVE k \notin W
    BY <2>4, RowApart
  <2>5. ASSUME NEW r \in 0 .. c - 1, K[r] = k, k \notin W PROVE \E p \in 0 .. c - 2 : K2[p] = k
    <3>1. r # i /\ IF r < i THEN K2[r] = k ELSE K2[r - 1] = k
      BY <2>5
    <3> QED BY <3>1
  <2>6. ASSUME NEW r \in 0 .. c, k \in S[r], k \notin W PROVE \E q \in 0 .. c - 1 : k \in S2[q]
    <3>1. r # i /\ r # i + 1 /\ IF r < i THEN k \in S2[r] ELSE k \in S2[r - 1]
      BY <2>6
    <3> QED BY <3>1
  <2>7. k \in M => k \in S2[i]
    OBVIOUS
  <2> HIDE DEF W
  <2> QED BY <2>1, <2>2, <2>3, <2>4, <2>5, <2>6, <2>7 DEF InRow
<1> QED BY <1>4, <1>5, RowKeysAre

\* K2 is K but for m at i.
ShiftedKeys(K2, K, c, i, m) == \A p \in 0 .. c - 1 : K2[p] = IF p = i THEN m ELSE K[p]

\* S2: A and B come where i and i + 1 are in S.
ShiftedSets(S2, S, c, i, A, B) ==
  \A q \in 0 .. c : S2[q] = IF q = i THEN A ELSE IF q = i + 1 THEN B ELSE S[q]

\* Two sets and the key between them are shared out anew.
LEMMA RowShift ==
  ASSUME NEW c \in Nat, NEW K, NEW S, Row(K, c, S), NEW i \in 0 .. c - 1, NEW A, NEW m, NEW B,
         \A k \in A \cup {m} \cup B : InWindow(K, c, i, k),
         \A k \in A : k < m,
         \A k \in B : m < k,
         NEW K2, ShiftedKeys(K2, K, c, i, m),
         NEW S2, ShiftedSets(S2, S, c, i, A, B)
  PROVE  /\ Row(K2, c, S2)
         /\ RowKeys(K2, c, S2) = (RowKeys(K, c, S) \ (S[i] \cup {K[i]} \cup S[i + 1])) \cup A \cup {m} \cup B
<1> USE DEF InWindow, ShiftedKeys, ShiftedSets
<1>1. \A p \in 0 .. c - 1 : K2[p] \in Int
  BY DEF Row
<1>2. \A p, q \in 0 .. c - 1 : p < q => K2[p] < K2[q]
  BY DEF Row
<1>3. ASSUME NEW q \in 0 .. c, NEW k \in S2[q] PROVE k \in Int /\ Between(K2, c, q, k)
  <2>1. CASE q = i
    BY <2>1 DEF Between
  <2>2. CASE q = i + 1
    BY <2>2 DEF Between
  <2>3. CASE q < i
    <3>1. k \in Int /\ Between(K, c, q, k) /\ K[q] \in Int /\ k < K[q] /\ K[q] < m
      BY <2>3 DEF Row, Between
    <3> QED BY <2>3, <3>1 DEF Between
  <2>4. CASE q > i + 1
    <3>1. k \in Int /\ Between(K, c, q, k) /\ K[q - 1] \in Int /\ K[q - 1] < k /\ m < K[q - 1]
      BY <2>4 DEF Row, Between
    <3> QED BY <2>4, <3>1 DEF Between
  <2> QED BY <2>1, <2>2, <2>3, <2>4
<1>4. Row(K2, c, S2)
  BY <1>1, <1>2, <1>3 DEF Row
<1> DEFINE W == S[i] \cup {K[i]} \cup S[i + 1]
<1>5. ASSUME NEW k PROVE InRow(K2, c, S2, k) <=> (InRow(K, c, S, k) /\ k \notin W) \/ k \in A \/ k = m \/ k \in B
  <2>1. ASSUME NEW p \in 0 .. c - 1, K2[p] = k, k # m PROVE InRow(K, c, S, k) /\ k \notin W
    <3>1. p # i /\ K[p] = k
      BY <2>1
    <3> QED BY <3>1, RowApart DEF InRow
  <2>2. ASSUME NEW q \in 0 .. c, k \in S2[q], k \notin A \cup B PROVE InRow(K, c, S, k) /\ k \notin W
    <3>1. q # i /\ q # i + 1 /\ k \in S[q]
      BY <2>2
    <3> QED BY <3>1, RowApart DEF InRow
  <2>3. ASSUME NEW p \in 0 .. c - 1, K[p] = k, k \notin W PROVE K2[p] = k
    BY <2>3
  <2>4. ASSUME NEW q \in 0 .. c, k \in S[q], k \notin W PROVE k \in S2[q]
    BY <2>4
  <2>5. (k \in A => k \in S2[i]) /\ (k = m => K2[i] = k) /\ (k \in B => k \in S2[i + 1])
    OBVIOUS
  <2> HIDE DEF W
  <2>6. InRow(K2, c, S2, k) => (InRow(K, c, S, k) /\ k \notin W) \/ k \in A \/ k = m \/ k \in B
    BY <2>1, <2>2 DEF InRow
  <2>7. InRow(K, c, S, k) /\ k \notin W => InRow(K2, c, S2, k)
    BY <2>3, <2>4 DEF InRow
  <2>8. k \in A \/ k = m \/ k \in B => InRow(K2, c, S2, k)
    BY <2>5 DEF InRow
  <2> QED BY <2>6, <2>7, <2>8
<1> QED BY <1>4, <1>5, RowKeysAre

\* L: d elements of K from f on.
Sliced(L, K, f, d) == \A p \in 0 .. d - 1 : L[p] = K[p + f]

\* Some keys in succession with the sets around them.
LEMMA RowSlice ==
  ASSUME NEW c \in Nat, NEW K, NEW S, Row(K, c, S), NEW f \in 0 .. c, NEW d \in 0 .. c - f,
         NEW L, Sliced(L, K, f, d),
         NEW LS, Sliced(LS, S, f, d + 1)
  PROVE  /\ Row(L, d, LS)
         /\ RowKeys(L, d, LS) = {k \in RowKeys(K, c, S) : (f > 0 => K[f - 1] < k) /\ (f + d < c => k < K[f + d])}
<1> USE DEF Sliced
<1>1. \A p \in 0 .. d - 1 : L[p] \in Int
  BY DEF Row
<1>2. \A p, q \in 0 .. d - 1 : p < q => L[p] < L[q]
  BY DEF Row
<1>3. ASSUME NEW q \in 0 .. d, NEW k \in LS[q] PROVE k \in Int /\ Between(L, d, q, k)
  <2>1. k \in S[q + f] /\ q + f \in 0 .. c
    BY <1>3
  <2>2. k \in Int /\ Between(K, c, q + f, k)
    BY <2>1 DEF Row
  <2> QED BY <2>2 DEF Between
<1>4. Row(L, d, LS)
  BY <1>1, <1>2, <1>3 DEF Row
<1> DEFINE In(k) == (f > 0 => K[f - 1] < k) /\ (f + d < c => k < K[f + d])
<1>5. ASSUME NEW k PROVE InRow(L, d, LS, k) <=> InRow(K, c, S, k) /\ In(k)
  <2>1. ASSUME NEW p \in 0 .. d - 1, L[p] = k PROVE InRow(K, c, S, k) /\ In(k)
    <3>1. p + f \in 0 .. c - 1 /\ K[p + f] = k
      BY <2>1
    <3>2. In(k)
      BY <3>1 DEF Row
    <3> QED BY <3>1, <3>2 DEF InRow
  <2>2. ASSUME NEW q \in 0 .. d, k \in LS[q] PROVE InRow(K, c, S, k) /\ In(k)
    <3>1. q + f \in 0 .. c /\ k \in S[q + f]
      BY <2>2
    <3>2. Between(K, c, q + f, k)
      BY <3>1 DEF Row
    <3>3. In(k)
      BY <3>2 DEF Between
    <3> QED BY <3>1, <3>3 DEF InRow
  <2>3. ASSUME NEW p \in 0 .. c - 1, K[p] = k, In(k) PROVE \E r \in 0 .. d - 1 : L[r] = k
    <3>1. p >= f
      <4> SUFFICES ASSUME p < f PROVE FALSE
        OBVIOUS
      <4>1. K[p] \in Int /\ K[f - 1] \in Int /\ (p < f - 1 => K[p] < K[f - 1]) /\ K[f - 1] < K[p]
        BY <2>3 DEF Row
      <4> QED BY <4>1
    <3>2. p < f + d
      <4> SUFFICES ASSUME f + d <= p PROVE FALSE
        OBVIOUS
      <4>1. K[p] \in Int /\ K[f + d] \in Int /\ (f + d < p => K[f + d] < K[p]) /\ K[p] < K[f + d]
        BY <2>3 DEF Row
      <4> QED BY <4>1
    <3>3. p - f \in 0 .. d - 1 /\ L[p - f] = k
      BY <2>3, <3>1, <3>2
    <3> QED BY <3>3
  <2>4. ASSUME NEW q \in 0 .. c, k \in S[q], In(k) PROVE \E r \in 0 .. d : k \in LS[r]
    <3>0. k \in Int /\ Between(K, c, q, k)
      BY <2>4 DEF Row
    <3>1. q >= f
      <4> SUFFICES ASSUME q < f PROVE FALSE
        OBVIOUS
      <4>1. K[f - 1] \in Int /\ k < K[f - 1] /\ K[f - 1] < k
        BY <2>4, <3>0 DEF Row, Between
      <4> QED BY <3>0, <4>1
    <3>2. q <= f + d
      <4> SUFFICES ASSUME f + d < q PROVE FALSE
        OBVIOUS
      <4>1. K[f + d] \in Int /\ k < K[f + d] /\ K[f + d] < k
        BY <2>4, <3>0 DEF Row, Between
      <4> QED BY <3>0, <4>1
    <3>3. q - f \in 0 .. d /\ k \in LS[q - f]
      BY <2>4, <3>1, <3>2
    <3> QED BY <3>3
  <2> HIDE DEF In
  <2>5. InRow(L, d, LS, k) => InRow(K, c, S, k) /\ In(k)
    BY <2>1, <2>2 DEF InRow
  <2>6. InRow(K, c, S, k) /\ In(k) => InRow(L, d, LS, k)
    BY <2>3, <2>4 DEF InRow
  <2> QED BY <2>5, <2>6
<1>6. \A k : k \in RowKeys(L, d, LS) <=> k \in RowKeys(K, c, S) /\ In(k)
  BY <1>5, RowKeysAre
<1> QED BY <1>4, <1>6

\* K2: c keys of K, then m, then d keys of L.
JoinedKeys(K2, K, c, m, L, d) ==
  \A p \in 0 .. c + d : K2[p] = IF p < c THEN K[p] ELSE IF p = c THEN m ELSE L[p - c - 1]

\* S2: what is around c keys of S, then what is around d keys of LS.
JoinedSets(S2, S, c, LS, d) ==
  \A q \in 0 .. c + d + 1 : S2[q] = IF q <= c THEN S[q] ELSE LS[q - c - 1]

\* Two rows and a key between them.
LEMMA RowJoin ==
  ASSUME NEW c \in Nat, NEW K, NEW S, Row(K, c, S),
         NEW d \in Nat, NEW L, NEW LS, Row(L, d, LS), NEW m \in Int,
         \A k \in RowKeys(K, c, S) : k < m,
         \A k \in RowKeys(L, d, LS) : m < k,
         NEW K2, JoinedKeys(K2, K, c, m, L, d),
         NEW S2, JoinedSets(S2, S, c, LS, d)
  PROVE  /\ Row(K2, c + d + 1, S2)
         /\ RowKeys(K2, c + d + 1, S2) = RowKeys(K, c, S) \cup {m} \cup RowKeys(L, d, LS)
<1>k. \A p \in 0 .. c + d : K2[p] = IF p < c THEN K[p] ELSE IF p = c THEN m ELSE L[p - c - 1]
  BY DEF JoinedKeys
<1>s. \A q \in 0 .. c + d + 1 : S2[q] = IF q <= c THEN S[q] ELSE LS[q - c - 1]
  BY DEF JoinedSets
<1>a. /\ \A p \in 0 .. c - 1 : K[p] \in Int /\ K[p] < m
      /\ \A q \in 0 .. c : \A k \in S[q] : k \in Int /\ k < m
      /\ \A p \in 0 .. d - 1 : L[p] \in Int /\ m < L[p]
      /\ \A q \in 0 .. d : \A k \in LS[q] : k \in Int /\ m < k
  BY DEF Row, RowKeys
<1> USE <1>k, <1>s
<1>1. \A p \in 0 .. c + d : K2[p] \in Int
  BY <1>a
<1>2. ASSUME NEW p \in 0 .. c + d, NEW q \in 0 .. c + d, p < q PROVE K2[p] < K2[q]
  <2>1. CASE q < c
    BY <1>2, <2>1 DEF Row
  <2>2. CASE q = c
    BY <1>2, <1>a, <2>2
  <2>3. CASE p = c
    <3>1. q - c - 1 \in 0 .. d - 1 /\ K2[q] = L[q - c - 1] /\ K2[p] = m
      BY <1>2, <2>3
    <3> QED BY <1>a, <3>1
  <2>4. CASE p < c /\ c < q
    <3>1. q - c - 1 \in 0 .. d - 1 /\ K2[q] = L[q - c - 1] /\ K2[p] = K[p]
      BY <2>4
    <3>2. K[p] \in Int /\ K[p] < m /\ L[q - c - 1] \in Int /\ m < L[q - c - 1]
      BY <1>a, <2>4, <3>1
    <3> QED BY <3>1, <3>2
  <2>5. CASE c < p
    <3>1. p - c - 1 \in 0 .. d - 1 /\ q - c - 1 \in 0 .. d - 1 /\ p - c - 1 < q - c - 1
      BY <1>2, <2>5
    <3>2. K2[p] = L[p - c - 1] /\ K2[q] = L[q - c - 1]
      BY <1>2, <2>5
    <3> QED BY <3>1, <3>2 DEF Row
  <2> QED BY <1>2, <2>1, <2>2, <2>3, <2>4, <2>5
<1>3. ASSUME NEW q \in 0 .. c + d + 1, NEW k \in S2[q] PROVE k \in Int /\ Between(K2, c + d + 1, q, k)
  <2>1. CASE q <= c
    <3>1. k \in Int /\ k < m /\ Between(K, c, q, k)
      BY <1>3, <1>a, <2>1 DEF Row
    <3>2. ASSUME NEW p \in 0 .. c + d PROVE IF p < q THEN K2[p] < k ELSE k < K2[p]
      <4>1. CASE p < c
        BY <3>1, <4>1 DEF Between
      <4>2. CASE p = c
        BY <2>1, <3>1, <4>2
      <4>3. CASE p > c
        <5>1. p - c - 1 \in 0 .. d - 1 /\ K2[p] = L[p - c - 1] /\ ~(p < q)
          BY <2>1, <4>3
        <5>2. L[p - c - 1] \in Int /\ m < L[p - c - 1]
          BY <1>a, <5>1
        <5> QED BY <3>1, <5>1, <5>2
      <4> QED BY <4>1, <4>2, <4>3
    <3> QED BY <3>1, <3>2 DEF Between
  <2>2. CASE q > c
    <3>1. q - c - 1 \in 0 .. d /\ k \in LS[q - c - 1]
      BY <1>3, <2>2
    <3>2. k \in Int /\ m < k /\ Between(L, d, q - c - 1, k)
      BY <1>a, <3>1 DEF Row
    <3>3. ASSUME NEW p \in 0 .. c + d PROVE IF p < q THEN K2[p] < k ELSE k < K2[p]
      <4>1. CASE p < c
        <5>1. p < q /\ K2[p] = K[p] /\ K[p] \in Int /\ K[p] < m
          BY <1>a, <2>2, <4>1
        <5> QED BY <3>2, <5>1
      <4>2. CASE p = c
        BY <2>2, <3>2, <4>2
      <4>3. CASE p > c
        <5>1. p - c - 1 \in 0 .. d - 1 /\ K2[p] = L[p - c - 1] /\ (p < q <=> p - c - 1 < q - c - 1)
          BY <2>2, <4>3
        <5>2. IF p - c - 1 < q - c - 1 THEN L[p - c - 1] < k ELSE k < L[p - c - 1]
          BY <3>2, <5>1 DEF Between
        <5> QED BY <5>1, <5>2
      <4> QED BY <4>1, <4>2, <4>3
    <3> QED BY <3>2, <3>3 DEF Between
  <2> QED BY <2>1, <2>2
<1>4. Row(K2, c + d + 1, S2)
  BY <1>1, <1>2, <1>3 DEF Row
<1>5. ASSUME NEW k PROVE InRow(K2, c + d + 1, S2, k) <=> InRow(K, c, S, k) \/ k = m \/ InRow(L, d, LS, k)
  <2>1. ASSUME NEW p \in 0 .. c + d, K2[p] = k PROVE InRow(K, c, S, k) \/ k = m \/ InRow(L, d, LS, k)
    <3>1. p > c => p - c - 1 \in 0 .. d - 1 /\ K2[p] = L[p - c - 1]
      OBVIOUS
    <3> QED BY <2>1, <3>1 DEF InRow
  <2>2. ASSUME NEW q \in 0 .. c + d + 1, k \in S2[q] PROVE InRow(K, c, S, k) \/ InRow(L, d, LS, k)
    <3>1. q > c => q - c - 1 \in 0 .. d /\ S2[q] = LS[q - c - 1]
      OBVIOUS
    <3> QED BY <2>2, <3>1 DEF InRow
  <2>3. ASSUME InRow(K, c, S, k) PROVE InRow(K2, c + d + 1, S2, k)
    BY <2>3 DEF InRow
  <2>4. k = m => K2[c] = k
    OBVIOUS
  <2>5. ASSUME NEW p \in 0 .. d - 1, L[p] = k PROVE InRow(K2, c + d + 1, S2, k)
    <3>1. p + c + 1 \in 0 .. c + d /\ K2[p + c + 1] = L[p]
      OBVIOUS
    <3> QED BY <2>5, <3>1 DEF InRow
  <2>6. ASSUME NEW q \in 0 .. d, k \in LS[q] PROVE InRow(K2, c + d + 1, S2, k)
    <3>1. q + c + 1 \in 0 .. c + d + 1 /\ S2[q + c + 1] = LS[q]
      OBVIOUS
    <3> QED BY <2>6, <3>1 DEF InRow
  <2>7. InRow(K2, c + d + 1, S2, k) => InRow(K, c, S, k) \/ k = m \/ InRow(L, d, LS, k)
    BY <2>1, <2>2 DEF InRow
  <2>8. InRow(L, d, LS, k) => InRow(K2, c + d + 1, S2, k)
    BY <2>5, <2>6 DEF InRow
  <2>9. k = m => InRow(K2, c + d + 1, S2, k)
    BY <2>4 DEF InRow
  <2> QED BY <2>3, <2>7, <2>8, <2>9
<1> QED BY <1>4, <1>5, RowKeysAre

----------------------------------------------------------------------------
(* The scans for the place of a key.                                        *)

\* A set of places that has with a place all before it is the first places.
LEMMA FirstPlaces ==
  ASSUME NEW c \in Nat, NEW P \in SUBSET (0 .. c - 1),
         \A p, q \in 0 .. c - 1 : q \in P /\ p < q => p \in P
  PROVE  Cardinality(P) \in 0 .. c /\ \A p \in 0 .. c - 1 : p \in P <=> p < Cardinality(P)
<1> DEFINE Out == {j \in Nat : j \notin P}
<1>1. c \in Out /\ Out \in SUBSET Nat
  OBVIOUS
<1>2. PICK i \in Out : \A j \in Out : i <= j
  <2> HIDE DEF Out
  <2> QED BY <1>1, LeastNat
<1>3. i \in 0 .. c
  BY <1>1, <1>2
<1>4. \A p \in 0 .. i - 1 : p \in P
  BY <1>2
<1>5. \A p \in P : p \in 0 .. i - 1
  BY <1>2, <1>3
<1>6. P = 0 .. i - 1
  BY <1>4, <1>5
<1>7. Cardinality(0 .. i - 1) = i
  BY <1>3, FS_Interval
<1> QED BY <1>3, <1>6, <1>7

\* The scan for a key of which there may be an equal one ends where keys that
\* are not smaller begin.
LEMMA SmallerIs ==
  ASSUME NEW n, n.count \in Nat, NEW S, Row(n.keys, n.count, S), NEW key \in Int
  PROVE  /\ Smaller(n, key) \in 0 .. n.count
         /\ \A p \in 0 .. n.count - 1 : p < Smaller(n, key) <=> n.keys[p] < key
         /\ \/ Smaller(n, key) < n.count /\ n.keys[Smaller(n, key)] = key
            \/ Between(n.keys, n.count, Smaller(n, key), key)
<1> DEFINE P == {p \in 0 .. n.count - 1 : n.keys[p] < key}
           i == Smaller(n, key)
<1>1. P \in SUBSET (0 .. n.count - 1) /\ \A p, q \in 0 .. n.count - 1 : q \in P /\ p < q => p \in P
  BY DEF Row
<1>2. Cardinality(P) \in 0 .. n.count /\ \A p \in 0 .. n.count - 1 : p \in P <=> p < Cardinality(P)
  <2> HIDE DEF P
  <2> QED BY <1>1, FirstPlaces
<1>3. i \in 0 .. n.count /\ \A p \in 0 .. n.count - 1 : p < i <=> n.keys[p] < key
  BY <1>2 DEF Smaller
<1> HIDE DEF i, P
<1>4. ASSUME ~(i < n.count /\ n.keys[i] = key), NEW p \in 0 .. n.count - 1
      PROVE  IF p < i THEN n.keys[p] < key ELSE key < n.keys[p]
  <2>1. CASE p < i
    BY <1>3, <2>1
  <2>2. CASE i <= p
    <3>1. i \in 0 .. n.count - 1 /\ ~(i < i)
      BY <1>3, <2>2
    <3>2. n.keys[i] \in Int /\ n.keys[p] \in Int /\ ~(n.keys[i] < key) /\ n.keys[i] # key
      BY <1>3, <1>4, <3>1 DEF Row
    <3>3. i = p \/ n.keys[i] < n.keys[p]
      BY <2>2, <3>1 DEF Row
    <3> QED BY <2>2, <3>1, <3>2, <3>3
  <2> QED BY <1>3, <2>1, <2>2
<1>5. (i < n.count /\ n.keys[i] = key) \/ Between(n.keys, n.count, i, key)
  BY <1>4 DEF Between
<1> QED BY <1>3, <1>5 DEF i

\* For a key that is not in the node both scans end at its gap.
LEMMA NotGreaterIs ==
  ASSUME NEW n, n.count \in Nat, NEW S, Row(n.keys, n.count, S), NEW key \in Int,
         key \notin OwnKeys(n)
  PROVE  NotGreater(n, key) \in 0 .. n.count /\ Between(n.keys, n.count, NotGreater(n, key), key)
<1>1. \A p \in 0 .. n.count - 1 : n.keys[p] \in Int /\ (n.keys[p] <= key <=> n.keys[p] < key)
  BY DEF Row, OwnKeys
<1>2. {p \in 0 .. n.count - 1 : n.keys[p] < key} = {p \in 0 .. n.count - 1 : n.keys[p] <= key}
  BY <1>1
<1>3. NotGreater(n, key) = Smaller(n, key)
  BY <1>2 DEF Smaller, NotGreater
<1>4. ~(Smaller(n, key) < n.count /\ n.keys[Smaller(n, key)] = key)
  BY SmallerIs DEF OwnKeys
<1> QED BY <1>3, <1>4, SmallerIs

----------------------------------------------------------------------------
(* Trees that are sound.                                                    *)

LEMMA DegreeFacts ==
  /\ T \in Nat /\ T >= 2 /\ Full \in Nat /\ Full = 2 * T - 1 /\ Full >= 3
  /\ Places = 0 .. Full
  /\ \A k \in Keys : k \in Int /\ k # NoKey
BY DegreeAssumption DEF Full, Places

\* A tree of height h with its keys in order and its leaves at one depth.
Sound(h, n) == n \in Trees[h] /\ Even[h][n] /\ Ordered[h][n] /\ KeysOf[h][n] \subseteq Keys

IsSubtree(h, n) == Sound(h, n) /\ n.count \in T - 1 .. Full

\* A node of height h with count keys has the subtrees in kids.
HasKids(h, count, kids) ==
  \A q \in Places : IF h = 0 \/ q > count THEN kids[q] = NoNode ELSE IsSubtree(h - 1, kids[q])

\* The keys of each subtree.
KeySets(h, kids) == [q \in Places |-> IF h = 0 \/ kids[q] = NoNode THEN {} ELSE KeysOf[h - 1][kids[q]]]

LEMMA NodeFields ==
  ASSUME NEW K, NEW c, NEW C
  PROVE  Node(K, c, C).keys = K /\ Node(K, c, C).count = c /\ Node(K, c, C).kids = C
BY DEF Node

LEMMA TreeFields ==
  ASSUME NEW h \in Nat, NEW n \in Trees[h]
  PROVE  /\ n.keys \in [Places -> Keys \cup {NoKey}] /\ n.count \in 0 .. Full
         /\ n.kids \in [Places -> {NoNode} \cup IF h = 0 THEN {} ELSE Trees[h - 1]]
         /\ n = Node(n.keys, n.count, n.kids)
<1>1. Trees[h] = TreesStep(Trees[h - 1], h)
  BY TreesDef
<1> QED BY <1>1 DEF TreesStep, Node

LEMMA NodeInTrees ==
  ASSUME NEW h \in Nat, NEW K \in [Places -> Keys \cup {NoKey}], NEW c \in 0 .. Full,
         NEW C \in [Places -> {NoNode} \cup IF h = 0 THEN {} ELSE Trees[h - 1]]
  PROVE  Node(K, c, C) \in Trees[h]
<1>1. Trees[h] = TreesStep(Trees[h - 1], h)
  BY TreesDef
<1> QED BY <1>1 DEF TreesStep, Node

LEMMA NoNodeIsNoTree == \A h \in Nat : NoNode \notin Trees[h]
<1> SUFFICES ASSUME NEW h \in Nat, NoNode \in Trees[h] PROVE FALSE
  OBVIOUS
<1>1. Trees[h] = TreesStep(Trees[h - 1], h)
  BY TreesDef
<1>2. "keys" \in DOMAIN NoNode
  BY <1>1 DEF TreesStep
<1> QED BY <1>2 DEF NoNode

\* A subtree is where one should be, and only there.
LEMMA KidsAre ==
  ASSUME NEW h \in Nat, NEW c \in 0 .. Full, NEW C, HasKids(h, c, C)
  PROVE  /\ \A q \in Places : C[q] # NoNode <=> h # 0 /\ q <= c
         /\ \A q \in Places : C[q] \in {NoNode} \cup IF h = 0 THEN {} ELSE Trees[h - 1]
<1>1. ASSUME NEW q \in Places, h # 0, q <= c PROVE C[q] \in Trees[h - 1] /\ C[q] # NoNode
  <2>1. h - 1 \in Nat /\ IsSubtree(h - 1, C[q])
    BY <1>1, DegreeFacts DEF HasKids
  <2> QED BY <2>1, NoNodeIsNoTree DEF IsSubtree, Sound
<1>2. ASSUME NEW q \in Places, ~(h # 0 /\ q <= c) PROVE C[q] = NoNode
  BY <1>2, DegreeFacts DEF HasKids
<1> QED BY <1>1, <1>2

LEMMA KeySetsAre ==
  ASSUME NEW h \in Nat, NEW c \in 0 .. Full, NEW C, HasKids(h, c, C)
  PROVE  \A q \in Places : KeySets(h, C)[q] = IF h = 0 \/ q > c THEN {} ELSE KeysOf[h - 1][C[q]]
<1>1. \A q \in Places : C[q] = NoNode <=> h = 0 \/ q > c
  BY KidsAre, DegreeFacts
<1> QED BY <1>1 DEF KeySets

LEMMA ChildrenAre ==
  ASSUME NEW h \in Nat, NEW K, NEW c \in 0 .. Full, NEW C, HasKids(h, c, C)
  PROVE  Children(Node(K, c, C)) = IF h = 0 THEN {} ELSE 0 .. c
<1>1. Children(Node(K, c, C)) = {q \in Places : C[q] # NoNode}
  BY NodeFields DEF Children
<1>2. \A q \in Places : C[q] # NoNode <=> h # 0 /\ q <= c
  BY KidsAre
<1> QED BY <1>1, <1>2, DegreeFacts

LEMMA KidsType ==
  ASSUME NEW h \in Nat, NEW c \in 0 .. Full, NEW C, C = [q \in Places |-> C[q]], HasKids(h, c, C)
  PROVE  C \in [Places -> {NoNode} \cup IF h = 0 THEN {} ELSE Trees[h - 1]]
<1>1. \A q \in Places : C[q] \in {NoNode} \cup IF h = 0 THEN {} ELSE Trees[h - 1]
  BY KidsAre
<1> QED BY <1>1

\* A node on sound subtrees whose keys stand in its gaps is sound.
LEMMA SoundNode ==
  ASSUME NEW h \in Nat, NEW K \in [Places -> Keys \cup {NoKey}], NEW c \in 0 .. Full,
         NEW C \in [Places -> {NoNode} \cup IF h = 0 THEN {} ELSE Trees[h - 1]], HasKids(h, c, C),
         Row(K, c, KeySets(h, C)), RowKeys(K, c, KeySets(h, C)) \subseteq Keys
  PROVE  Sound(h, Node(K, c, C)) /\ KeysOf[h][Node(K, c, C)] = RowKeys(K, c, KeySets(h, C))
<1> DEFINE n == Node(K, c, C)
           S == KeySets(h, C)
<1>1. n.keys = K /\ n.count = c /\ n.kids = C
  BY NodeFields
<1>3. n \in Trees[h]
  BY NodeInTrees
<1>4. Children(n) = IF h = 0 THEN {} ELSE 0 .. c
  BY ChildrenAre
<1>5. \A q \in Children(n) : q \in 0 .. c /\ h # 0 /\ IsSubtree(h - 1, C[q]) /\ S[q] = KeysOf[h - 1][C[q]]
  <2> SUFFICES ASSUME NEW q \in Children(n)
               PROVE  q \in 0 .. c /\ h # 0 /\ IsSubtree(h - 1, C[q]) /\ S[q] = KeysOf[h - 1][C[q]]
    OBVIOUS
  <2>1. q \in 0 .. c /\ h # 0 /\ q \in Places
    BY <1>4, DegreeFacts
  <2> QED BY <2>1, KeySetsAre DEF HasKids
<1>6. \A q \in 0 .. c : q \notin Children(n) => S[q] = {}
  BY <1>4, KeySetsAre, DegreeFacts
<1> HIDE DEF n, S
<1>7. Even[h][n]
  <2>1. Even[h][n] = (/\ Children(n) = IF h = 0 THEN {} ELSE 0 .. n.count
                      /\ \A q \in Children(n) : n.kids[q].count \in T - 1 .. Full /\ Even[h - 1][n.kids[q]])
    <3>1. n \in Trees[h] /\ Even[h] = EvenStep(Even[h - 1], h)
      BY <1>3, EvenDef
    <3> QED BY ONLY <3>1 DEF EvenStep
  <2> QED BY <1>1, <1>4, <1>5, <2>1 DEF IsSubtree, Sound
<1>8. KeysOf[h][n] = RowKeys(K, c, S)
  <2>1. KeysOf[h][n] = OwnKeys(n) \cup UNION {KeysOf[h - 1][n.kids[q]] : q \in Children(n)}
    <3>1. n \in Trees[h] /\ KeysOf[h] = KeysOfStep(KeysOf[h - 1], h)
      BY <1>3, KeysOfDef
    <3> QED BY ONLY <3>1 DEF KeysOfStep
  <2>2. OwnKeys(n) = {K[p] : p \in 0 .. c - 1}
    BY <1>1 DEF OwnKeys
  <2>3. UNION {KeysOf[h - 1][n.kids[q]] : q \in Children(n)} = UNION {S[q] : q \in 0 .. c}
    <3>1. ASSUME NEW k, NEW q \in Children(n), k \in KeysOf[h - 1][n.kids[q]] PROVE \E r \in 0 .. c : k \in S[r]
      BY <1>1, <1>5, <3>1
    <3>2. ASSUME NEW k, NEW r \in 0 .. c, k \in S[r] PROVE \E q \in Children(n) : k \in KeysOf[h - 1][n.kids[q]]
      <4>1. r \in Children(n)
        BY <1>6, <3>2
      <4> QED BY <1>1, <1>5, <3>2, <4>1
    <3> QED BY <3>1, <3>2
  <2> QED BY <2>1, <2>2, <2>3 DEF RowKeys
<1>9. Ordered[h][n]
  <2>1. Ordered[h][n] = (/\ \A p, q \in 0 .. n.count - 1 : p < q => n.keys[p] < n.keys[q]
                         /\ \A q \in Children(n) :
                              Ordered[h - 1][n.kids[q]] /\ \A key \in KeysOf[h - 1][n.kids[q]] : InGap(n, q, key))
    BY <1>3, OrderedDef DEF OrderedStep
  <2>2. \A p, q \in 0 .. n.count - 1 : p < q => n.keys[p] < n.keys[q]
    BY <1>1 DEF Row, S
  <2>3. ASSUME NEW q \in Children(n) PROVE Ordered[h - 1][n.kids[q]] /\ \A key \in KeysOf[h - 1][n.kids[q]] : InGap(n, q, key)
    <3>1. q \in 0 .. c /\ IsSubtree(h - 1, C[q]) /\ S[q] = KeysOf[h - 1][C[q]]
      BY <1>5
    <3>2. \A k \in S[q] : Between(K, c, q, k)
      BY <3>1 DEF Row, S
    <3> QED BY <1>1, <3>1, <3>2 DEF IsSubtree, Sound, Between, InGap
  <2> QED BY <2>1, <2>2, <2>3
<1> QED BY <1>3, <1>7, <1>8, <1>9 DEF Sound, n, S

\* What a sound node is made of.
LEMMA SoundHas ==
  ASSUME NEW h \in Nat, NEW n, Sound(h, n)
  PROVE  /\ n.keys \in [Places -> Keys \cup {NoKey}] /\ n.count \in 0 .. Full
         /\ n.kids \in [Places -> {NoNode} \cup IF h = 0 THEN {} ELSE Trees[h - 1]]
         /\ n = Node(n.keys, n.count, n.kids)
         /\ HasKids(h, n.count, n.kids)
         /\ Row(n.keys, n.count, KeySets(h, n.kids))
         /\ KeysOf[h][n] = RowKeys(n.keys, n.count, KeySets(h, n.kids))
<1> DEFINE S == KeySets(h, n.kids)
<1>1. /\ n.keys \in [Places -> Keys \cup {NoKey}] /\ n.count \in 0 .. Full /\ n \in Trees[h]
      /\ n = Node(n.keys, n.count, n.kids)
      /\ n.kids \in [Places -> {NoNode} \cup IF h = 0 THEN {} ELSE Trees[h - 1]]
  BY TreeFields DEF Sound
<1>2. /\ Children(n) = IF h = 0 THEN {} ELSE 0 .. n.count
      /\ \A q \in Children(n) : n.kids[q].count \in T - 1 .. Full /\ Even[h - 1][n.kids[q]]
  <2>1. Even[h][n] = (/\ Children(n) = IF h = 0 THEN {} ELSE 0 .. n.count
                      /\ \A q \in Children(n) : n.kids[q].count \in T - 1 .. Full /\ Even[h - 1][n.kids[q]])
    BY <1>1, EvenDef DEF EvenStep
  <2> QED BY <2>1 DEF Sound
<1>3. KeysOf[h][n] = OwnKeys(n) \cup UNION {KeysOf[h - 1][n.kids[q]] : q \in Children(n)}
  BY <1>1, KeysOfDef DEF KeysOfStep
<1>4. /\ \A p, q \in 0 .. n.count - 1 : p < q => n.keys[p] < n.keys[q]
      /\ \A q \in Children(n) :
           Ordered[h - 1][n.kids[q]] /\ \A key \in KeysOf[h - 1][n.kids[q]] : InGap(n, q, key)
  <2>1. Ordered[h][n] = (/\ \A p, q \in 0 .. n.count - 1 : p < q => n.keys[p] < n.keys[q]
                         /\ \A q \in Children(n) :
                              Ordered[h - 1][n.kids[q]] /\ \A key \in KeysOf[h - 1][n.kids[q]] : InGap(n, q, key))
    BY <1>1, OrderedDef DEF OrderedStep
  <2> QED BY <2>1 DEF Sound
<1>5. KeysOf[h][n] \subseteq Keys
  BY DEF Sound
<1>6. \A q \in Children(n) : h # 0 /\ q \in 0 .. n.count /\ n.kids[q] # NoNode /\ IsSubtree(h - 1, n.kids[q])
  <2> SUFFICES ASSUME NEW q \in Children(n)
               PROVE  h # 0 /\ q \in 0 .. n.count /\ n.kids[q] # NoNode /\ IsSubtree(h - 1, n.kids[q])
    OBVIOUS
  <2>1. h # 0 /\ q \in 0 .. n.count /\ n.kids[q] # NoNode /\ q \in Places
    BY <1>2 DEF Children
  <2>2. n.kids[q] \in Trees[h - 1]
    BY <1>1, <2>1
  <2>3. KeysOf[h - 1][n.kids[q]] \subseteq Keys
    BY <1>3, <1>5
  <2> QED BY <1>2, <1>4, <2>1, <2>2, <2>3 DEF IsSubtree, Sound
<1>7. HasKids(h, n.count, n.kids)
  <2> SUFFICES ASSUME NEW q \in Places
               PROVE  IF h = 0 \/ q > n.count THEN n.kids[q] = NoNode ELSE IsSubtree(h - 1, n.kids[q])
    BY DEF HasKids
  <2>1. CASE h = 0 \/ q > n.count
    <3>1. q \notin Children(n)
      BY <1>1, <1>2, <2>1, DegreeFacts
    <3> QED BY <2>1, <3>1 DEF Children
  <2>2. CASE ~(h = 0 \/ q > n.count)
    <3>1. q \in Children(n)
      BY <1>1, <1>2, <2>2, DegreeFacts
    <3> QED BY <1>6, <2>2, <3>1
  <2> QED BY <2>1, <2>2
<1>8. \A q \in 0 .. n.count : q \in Places /\ S[q] = IF q \in Children(n) THEN KeysOf[h - 1][n.kids[q]] ELSE {}
  <2> SUFFICES ASSUME NEW q \in 0 .. n.count
               PROVE  q \in Places /\ S[q] = IF q \in Children(n) THEN KeysOf[h - 1][n.kids[q]] ELSE {}
    OBVIOUS
  <2>1. q \in Places
    BY <1>1, DegreeFacts
  <2>2. S[q] = IF h = 0 \/ q > n.count THEN {} ELSE KeysOf[h - 1][n.kids[q]]
    BY <1>1, <1>7, <2>1, KeySetsAre
  <2> QED BY <1>1, <1>2, <2>1, <2>2
<1> HIDE DEF S
<1>9. \A p \in 0 .. n.count - 1 : n.keys[p] \in Keys
  BY <1>3, <1>5 DEF OwnKeys
<1>10. Row(n.keys, n.count, S)
  <2>1. ASSUME NEW q \in 0 .. n.count, NEW k \in S[q] PROVE k \in Int /\ Between(n.keys, n.count, q, k)
    <3>1. q \in Children(n) /\ k \in KeysOf[h - 1][n.kids[q]]
      BY <1>8, <2>1
    <3>2. k \in Keys /\ InGap(n, q, k)
      BY <1>3, <1>4, <1>5, <3>1
    <3> QED BY <3>2, DegreeFacts DEF InGap, Between
  <2>2. \A p \in 0 .. n.count - 1 : n.keys[p] \in Int
    BY <1>9, DegreeFacts
  <2> QED BY <1>4, <2>1, <2>2 DEF Row
<1>11. KeysOf[h][n] = RowKeys(n.keys, n.count, S)
  <2>1. ASSUME NEW k PROVE (\E q \in Children(n) : k \in KeysOf[h - 1][n.kids[q]]) <=> \E q \in 0 .. n.count : k \in S[q]
    BY <1>6, <1>8
  <2>2. UNION {KeysOf[h - 1][n.kids[q]] : q \in Children(n)} = UNION {S[q] : q \in 0 .. n.count}
    BY <2>1
  <2> QED BY <1>3, <2>2 DEF RowKeys, OwnKeys
<1> QED BY <1>1, <1>7, <1>10, <1>11 DEF S

\* The keys of a sound node are keys, and each subtree has its own.
LEMMA SoundKeys ==
  ASSUME NEW h \in Nat, NEW n, Sound(h, n)
  PROVE  /\ KeysOf[h][n] \subseteq Keys
         /\ \A p \in 0 .. n.count - 1 : n.keys[p] \in Keys /\ n.keys[p] \in KeysOf[h][n]
         /\ \A q \in 0 .. n.count :
              q \in Places /\ KeySets(h, n.kids)[q] \subseteq KeysOf[h][n]
              /\ (h # 0 => IsSubtree(h - 1, n.kids[q]) /\ KeySets(h, n.kids)[q] = KeysOf[h - 1][n.kids[q]])
              /\ (h = 0 => n.kids[q] = NoNode /\ KeySets(h, n.kids)[q] = {})
<1> DEFINE S == KeySets(h, n.kids)
<1>1. KeysOf[h][n] \subseteq Keys
  BY DEF Sound
<1>2. KeysOf[h][n] = RowKeys(n.keys, n.count, S) /\ n.count \in 0 .. Full /\ HasKids(h, n.count, n.kids)
  BY SoundHas
<1>3. \A q \in 0 .. n.count : S[q] \subseteq KeysOf[h][n]
  BY <1>2 DEF RowKeys
<1>4. \A p \in 0 .. n.count - 1 : n.keys[p] \in KeysOf[h][n]
  BY <1>2 DEF RowKeys
<1>5. ASSUME NEW q \in 0 .. n.count
      PROVE  /\ q \in Places
             /\ (h # 0 => IsSubtree(h - 1, n.kids[q]) /\ S[q] = KeysOf[h - 1][n.kids[q]])
             /\ (h = 0 => n.kids[q] = NoNode /\ S[q] = {})
  <2>1. q \in Places /\ ~(q > n.count)
    BY <1>2, DegreeFacts
  <2>2. S[q] = IF h = 0 \/ q > n.count THEN {} ELSE KeysOf[h - 1][n.kids[q]]
    BY <1>2, <2>1, KeySetsAre
  <2> QED BY <1>2, <2>1, <2>2 DEF HasKids
<1> QED BY <1>1, <1>3, <1>4, <1>5

\* d + 1 subtrees from f on.
SlicedKids(A, f, d) == [q \in Places |-> IF q <= d THEN A[q + f] ELSE NoNode]

\* L is the d keys of n from f on before e, C the subtrees around them.
IsSlice(n, f, d, e, L, C) ==
  /\ f \in Nat /\ d \in Nat /\ e \in Nat /\ f + d = e /\ e <= n.count
  /\ L \in [Places -> Keys \cup {NoKey}] /\ Sliced(L, n.keys, f, d)
  /\ C = SlicedKids(n.kids, f, d)

\* w has the keys of n that are greater than the key before f and smaller than
\* key e.
HasSlice(h, w, n, f, e) ==
  \A k : k \in KeysOf[h][w] <=> k \in KeysOf[h][n] /\ (f > 0 => n.keys[f - 1] < k) /\ (e < n.count => k < n.keys[e])

\* Some keys of a node in succession, with the subtrees around them.
LEMMA SoundSlice ==
  ASSUME NEW h \in Nat, NEW n, Sound(h, n), NEW f, NEW d, NEW e, NEW L, NEW C, IsSlice(n, f, d, e, L, C)
  PROVE  Sound(h, Node(L, d, C)) /\ HasSlice(h, Node(L, d, C), n, f, e)
<1>s. /\ f \in Nat /\ d \in Nat /\ e \in Nat /\ f + d = e /\ e <= n.count
      /\ L \in [Places -> Keys \cup {NoKey}] /\ Sliced(L, n.keys, f, d)
      /\ C = SlicedKids(n.kids, f, d)
  BY DEF IsSlice
<1> DEFINE S == KeySets(h, n.kids)
           LS == KeySets(h, C)
<1>1. /\ n.count \in 0 .. Full /\ HasKids(h, n.count, n.kids) /\ Row(n.keys, n.count, S)
      /\ KeysOf[h][n] = RowKeys(n.keys, n.count, S) /\ KeysOf[h][n] \subseteq Keys
  BY SoundHas, SoundKeys
<1>2. n.count \in Nat /\ d \in 0 .. Full /\ d <= n.count /\ f \in Nat /\ d \in Nat
  BY ONLY <1>1, <1>s, DegreeFacts
<1>3. \A q \in Places : q <= d => q + f \in Places /\ q + f <= n.count
  BY ONLY <1>1, <1>2, <1>s, DegreeFacts
<1>d. C = [q \in Places |-> C[q]]
  BY ONLY <1>s DEF SlicedKids
<1>c. \A q \in Places : C[q] = IF q <= d THEN n.kids[q + f] ELSE NoNode
  BY ONLY <1>s DEF SlicedKids
<1>4. HasKids(h, d, C)
  <2> SUFFICES ASSUME NEW q \in Places PROVE IF h = 0 \/ q > d THEN C[q] = NoNode ELSE IsSubtree(h - 1, C[q])
    BY DEF HasKids
  <2>1. CASE q > d
    BY <1>2, <1>c, <2>1, DegreeFacts
  <2>2. CASE q <= d
    <3>1. C[q] = n.kids[q + f] /\ q + f \in Places /\ ~(q + f > n.count) /\ ~(q > d)
      BY <1>2, <1>3, <1>c, <2>2, DegreeFacts
    <3> QED BY <1>1, <3>1 DEF HasKids
  <2> QED BY <1>2, <2>1, <2>2, DegreeFacts
<1>5. ASSUME NEW q \in 0 .. d PROVE LS[q] = S[q + f]
  <2>0. q \in Places /\ q \in Nat /\ q <= d
    BY ONLY <1>2, q \in 0 .. d, DegreeFacts
  <2>1. q \in Places /\ q + f \in Places /\ ~(q > d) /\ ~(q + f > n.count) /\ C[q] = n.kids[q + f]
    BY ONLY <1>2, <1>3, <1>c, <2>0
  <2>2. LS[q] = IF h = 0 \/ q > d THEN {} ELSE KeysOf[h - 1][C[q]]
    BY ONLY <1>2, <1>4, <2>1, h \in Nat, KeySetsAre
  <2>3. S[q + f] = IF h = 0 \/ q + f > n.count THEN {} ELSE KeysOf[h - 1][n.kids[q + f]]
    <3>1. \A r \in Places : S[r] = IF h = 0 \/ r > n.count THEN {} ELSE KeysOf[h - 1][n.kids[r]]
      BY ONLY <1>1, h \in Nat, KeySetsAre
    <3> HIDE DEF S
    <3> QED BY ONLY <2>1, <3>1
  <2> QED BY <2>1, <2>2, <2>3
<1>6. /\ Row(L, d, LS)
      /\ RowKeys(L, d, LS) = {k \in RowKeys(n.keys, n.count, S) :
                                (f > 0 => n.keys[f - 1] < k) /\ (e < n.count => k < n.keys[e])}
  <2>1. Sliced(LS, S, f, d + 1)
    BY <1>2, <1>5 DEF Sliced
  <2>2. f \in 0 .. n.count /\ d \in 0 .. n.count - f
    BY ONLY <1>2, <1>s
  <2> HIDE DEF S, LS
  <2> QED BY ONLY <1>1, <1>2, <1>s, <2>1, <2>2, RowSlice
<1>7. C \in [Places -> {NoNode} \cup IF h = 0 THEN {} ELSE Trees[h - 1]]
  BY ONLY <1>2, <1>4, <1>d, h \in Nat, KidsType
<1>8. RowKeys(L, d, LS) \subseteq Keys
  BY <1>1, <1>6
<1>9. Sound(h, Node(L, d, C)) /\ KeysOf[h][Node(L, d, C)] = RowKeys(L, d, LS)
  BY ONLY <1>2, <1>4, <1>6, <1>7, <1>8, <1>s, h \in Nat, SoundNode
<1>10. HasSlice(h, Node(L, d, C), n, f, e)
  <2> HIDE DEF S, LS
  <2> QED BY ONLY <1>1, <1>6, <1>9, <1>s DEF HasSlice
<1> QED BY ONLY <1>9, <1>10

\* The first keys of a node, with their subtrees.
LEMMA SoundFirst ==
  ASSUME NEW h \in Nat, NEW n, Sound(h, n), NEW d \in Nat, d <= n.count,
         NEW L \in [Places -> Keys \cup {NoKey}], \A p \in 0 .. d - 1 : L[p] = n.keys[p],
         NEW C, C = [q \in Places |-> IF q <= d THEN n.kids[q] ELSE NoNode]
  PROVE  /\ Sound(h, Node(L, d, C))
         /\ \A k : k \in KeysOf[h][Node(L, d, C)] <=> k \in KeysOf[h][n] /\ (d < n.count => k < n.keys[d])
<1>1. PICK f \in Nat : f = 0
  OBVIOUS
<1>2. \A p \in Nat : p + f = p
  BY <1>1
<1>3. Sliced(L, n.keys, f, d)
  BY <1>2 DEF Sliced
<1>4. C = SlicedKids(n.kids, f, d)
  <2>1. \A q \in Places : q + f = q
    BY ONLY <1>2, DegreeFacts
  <2> QED BY ONLY <2>1, C = [q \in Places |-> IF q <= d THEN n.kids[q] ELSE NoNode] DEF SlicedKids
<1>5. IsSlice(n, f, d, d, L, C)
  BY ONLY <1>1, <1>3, <1>4, d \in Nat, d <= n.count, L \in [Places -> Keys \cup {NoKey}] DEF IsSlice
<1>6. Sound(h, Node(L, d, C)) /\ HasSlice(h, Node(L, d, C), n, f, d)
  BY ONLY h \in Nat, Sound(h, n), <1>5, SoundSlice
<1> QED BY ONLY <1>1, <1>6 DEF HasSlice

\* The subtrees of a node with c keys, then those of one with d keys.
JoinedKids(A, c, B, d) ==
  [q \in Places |-> IF q <= c THEN A[q] ELSE IF q <= c + d + 1 THEN B[q - c - 1] ELSE NoNode]

\* Two nodes and a key between them.
LEMMA SoundJoin ==
  ASSUME NEW h \in Nat, NEW a, Sound(h, a), NEW b, Sound(h, b), NEW m \in Keys,
         a.count + b.count < Full,
         \A k \in KeysOf[h][a] : k < m,
         \A k \in KeysOf[h][b] : m < k,
         NEW L \in [Places -> Keys \cup {NoKey}],
         JoinedKeys(L, a.keys, a.count, m, b.keys, b.count),
         NEW C, C = JoinedKids(a.kids, a.count, b.kids, b.count)
  PROVE  /\ Sound(h, Node(L, a.count + b.count + 1, C))
         /\ KeysOf[h][Node(L, a.count + b.count + 1, C)] = KeysOf[h][a] \cup {m} \cup KeysOf[h][b]
<1> DEFINE S == KeySets(h, a.kids)
           R == KeySets(h, b.kids)
           LS == KeySets(h, C)
           d == a.count + b.count + 1
<1>1. /\ a.count \in 0 .. Full /\ HasKids(h, a.count, a.kids) /\ Row(a.keys, a.count, S)
      /\ KeysOf[h][a] = RowKeys(a.keys, a.count, S) /\ KeysOf[h][a] \subseteq Keys
  BY SoundHas, SoundKeys
<1>2. /\ b.count \in 0 .. Full /\ HasKids(h, b.count, b.kids) /\ Row(b.keys, b.count, R)
      /\ KeysOf[h][b] = RowKeys(b.keys, b.count, R) /\ KeysOf[h][b] \subseteq Keys
  BY SoundHas, SoundKeys
<1>3. a.count \in Nat /\ b.count \in Nat /\ d \in 0 .. Full /\ m \in Int
  BY <1>1, <1>2, DegreeFacts
<1>d. C = [q \in Places |-> C[q]]
  BY DEF JoinedKids
<1>c. \A q \in Places : C[q] = IF q <= a.count THEN a.kids[q]
                               ELSE IF q <= a.count + b.count + 1 THEN b.kids[q - a.count - 1] ELSE NoNode
  BY DEF JoinedKids
<1>p. ASSUME NEW q \in Places, a.count < q, q <= d
      PROVE  q - a.count - 1 \in 0 .. b.count /\ q - a.count - 1 \in Places /\ C[q] = b.kids[q - a.count - 1]
  <2>1. q \in Int /\ ~(q <= a.count)
    BY ONLY <1>3, <1>p, q \in Places, DegreeFacts
  <2>2. q - a.count - 1 \in 0 .. b.count
    BY ONLY <1>3, <1>p, <2>1
  <2>3. q - a.count - 1 \in Places
    BY ONLY <1>3, <2>2, DegreeFacts
  <2>4. C[q] = IF q <= a.count THEN a.kids[q]
               ELSE IF q <= a.count + b.count + 1 THEN b.kids[q - a.count - 1] ELSE NoNode
    BY <1>c
  <2> QED BY ONLY <1>p, <2>1, <2>2, <2>3, <2>4
<1>4. HasKids(h, d, C)
  <2> SUFFICES ASSUME NEW q \in Places PROVE IF h = 0 \/ q > d THEN C[q] = NoNode ELSE IsSubtree(h - 1, C[q])
    BY DEF HasKids
  <2>1. CASE q > d
    <3>0. q \in Int /\ ~(q <= a.count) /\ ~(q <= a.count + b.count + 1)
      BY ONLY <1>3, <2>1, q \in Places, DegreeFacts
    <3>1. C[q] = NoNode
      BY ONLY <1>c, <3>0, q \in Places
    <3> QED BY <2>1, <3>1
  <2>2. CASE q <= a.count
    <3>1. ~(q > a.count) /\ ~(q > d) /\ C[q] = a.kids[q]
      BY <1>3, <1>c, <2>2, DegreeFacts
    <3> QED BY <1>1, <3>1 DEF HasKids
  <2>3. CASE a.count < q /\ q <= d
    <3>1. q - a.count - 1 \in Places /\ ~(q - a.count - 1 > b.count) /\ C[q] = b.kids[q - a.count - 1]
      BY <1>2, <1>p, <2>3
    <3>2. ~(q > d)
      BY <1>3, <2>3, DegreeFacts
    <3> QED BY <1>2, <3>1, <3>2 DEF HasKids
  <2> QED BY <1>3, <2>1, <2>2, <2>3, DegreeFacts
<1>5. ASSUME NEW q \in 0 .. a.count + b.count + 1 PROVE LS[q] = IF q <= a.count THEN S[q] ELSE R[q - a.count - 1]
  <2>1. q \in Places /\ ~(q > d)
    BY <1>3, DegreeFacts
  <2>2. LS[q] = IF h = 0 \/ q > d THEN {} ELSE KeysOf[h - 1][C[q]]
    BY <1>3, <1>4, <2>1, KeySetsAre
  <2>3. CASE q <= a.count
    <3>1. S[q] = IF h = 0 \/ q > a.count THEN {} ELSE KeysOf[h - 1][a.kids[q]]
      BY <1>1, <2>1, KeySetsAre
    <3>2. C[q] = a.kids[q] /\ ~(q > a.count)
      BY <1>3, <1>c, <2>1, <2>3
    <3> QED BY <2>1, <2>2, <2>3, <3>1, <3>2
  <2>4. CASE a.count < q
    <3>0. q - a.count - 1 \in Places /\ q - a.count - 1 \in 0 .. b.count /\ C[q] = b.kids[q - a.count - 1]
      BY <1>3, <1>p, <2>1, <2>4, DegreeFacts
    <3>1. ~(q - a.count - 1 > b.count)
      BY <1>3, <3>0
    <3>2. R[q - a.count - 1] = IF h = 0 \/ q - a.count - 1 > b.count THEN {} ELSE KeysOf[h - 1][b.kids[q - a.count - 1]]
      BY <1>2, <3>0, KeySetsAre
    <3> QED BY <1>3, <2>1, <2>2, <2>4, <3>0, <3>1, <3>2
  <2> QED BY <1>3, <2>3, <2>4
<1>6. /\ Row(L, a.count + b.count + 1, LS)
      /\ RowKeys(L, a.count + b.count + 1, LS) = RowKeys(a.keys, a.count, S) \cup {m} \cup RowKeys(b.keys, b.count, R)
  <2>1. (\A k \in RowKeys(a.keys, a.count, S) : k < m) /\ (\A k \in RowKeys(b.keys, b.count, R) : m < k)
    BY <1>1, <1>2
  <2>2. JoinedSets(LS, S, a.count, R, b.count)
    BY <1>5 DEF JoinedSets
  <2> HIDE DEF S, LS, R
  <2> QED BY <1>1, <1>2, <1>3, <2>1, <2>2, RowJoin
<1>7. C \in [Places -> {NoNode} \cup IF h = 0 THEN {} ELSE Trees[h - 1]]
  BY <1>3, <1>4, <1>d, KidsType
<1>8. RowKeys(L, d, LS) \subseteq Keys
  BY <1>1, <1>2, <1>6
<1>9. Sound(h, Node(L, d, C)) /\ KeysOf[h][Node(L, d, C)] = RowKeys(L, d, LS)
  BY <1>3, <1>4, <1>6, <1>7, <1>8, SoundNode
<1> QED BY <1>1, <1>2, <1>6, <1>9

LEMMA RowWindow ==
  ASSUME NEW c \in Nat, NEW K, NEW S, Row(K, c, S), NEW i \in 0 .. c - 1
  PROVE  /\ \A k \in S[i] \cup {K[i]} \cup S[i + 1] : InWindow(K, c, i, k)
         /\ \A k \in S[i] : k < K[i]
         /\ \A k \in S[i + 1] : K[i] < k
<1>1. K[i] \in Int /\ \A p \in 0 .. c - 1 : (p < i => K[p] < K[i]) /\ (i < p => K[i] < K[p])
  BY DEF Row
<1>2. \A k \in S[i] : k \in Int /\ Between(K, c, i, k)
  BY DEF Row
<1>3. \A k \in S[i + 1] : k \in Int /\ Between(K, c, i + 1, k)
  BY DEF Row
<1>4. ASSUME NEW k \in S[i] PROVE InWindow(K, c, i, k) /\ k < K[i]
  BY <1>2 DEF Between, InWindow
<1>5. ASSUME NEW k \in S[i + 1] PROVE InWindow(K, c, i, k) /\ K[i] < k
  BY <1>3 DEF Between, InWindow
<1>6. InWindow(K, c, i, K[i])
  BY <1>1 DEF InWindow
<1> QED BY <1>4, <1>5, <1>6

\* The sets of keys of a node that is not a leaf.
LEMMA InnerSets ==
  ASSUME NEW h \in Nat, h # 0, NEW c \in 0 .. Full, NEW C, HasKids(h, c, C)
  PROVE  \A q \in 0 .. c : q \in Places /\ IsSubtree(h - 1, C[q]) /\ KeySets(h, C)[q] = KeysOf[h - 1][C[q]]
<1> SUFFICES ASSUME NEW q \in 0 .. c
             PROVE  q \in Places /\ IsSubtree(h - 1, C[q]) /\ KeySets(h, C)[q] = KeysOf[h - 1][C[q]]
  OBVIOUS
<1>1. q \in Places /\ ~(q > c)
  BY DegreeFacts
<1>2. KeySets(h, C)[q] = IF h = 0 \/ q > c THEN {} ELSE KeysOf[h - 1][C[q]]
  BY <1>1, KeySetsAre
<1> QED BY <1>1, <1>2 DEF HasKids

\* A subtree gives way to one with keys for the same gap.
LEMMA SoundSetKid ==
  ASSUME NEW h \in Nat, h # 0, NEW n, Sound(h, n), NEW i \in 0 .. n.count, NEW kid, IsSubtree(h - 1, kid),
         \A k \in KeysOf[h - 1][kid] : Between(n.keys, n.count, i, k)
  PROVE  /\ Sound(h, SetKid(n, i, kid)) /\ SetKid(n, i, kid).count = n.count
         /\ KeysOf[h][SetKid(n, i, kid)] =
              (KeysOf[h][n] \ KeysOf[h - 1][n.kids[i]]) \cup KeysOf[h - 1][kid]
<1> DEFINE S == KeySets(h, n.kids)
           C == [n.kids EXCEPT ![i] = kid]
           R == KeySets(h, C)
<1>1. /\ n.keys \in [Places -> Keys \cup {NoKey}] /\ n.count \in 0 .. Full /\ n.count \in Nat
      /\ n.kids \in [Places -> {NoNode} \cup IF h = 0 THEN {} ELSE Trees[h - 1]]
      /\ HasKids(h, n.count, n.kids) /\ Row(n.keys, n.count, S)
      /\ KeysOf[h][n] = RowKeys(n.keys, n.count, S) /\ KeysOf[h][n] \subseteq Keys
  BY SoundHas, SoundKeys, DegreeFacts
<1>2. i \in Places /\ ~(i > n.count)
  BY ONLY <1>1, i \in 0 .. n.count, DegreeFacts
<1>3. C = [q \in Places |-> C[q]] /\ \A q \in Places : C[q] = IF q = i THEN kid ELSE n.kids[q]
  BY <1>1, <1>2
<1>4. HasKids(h, n.count, C)
  <2> HIDE DEF C
  <2> QED BY <1>1, <1>2, <1>3 DEF HasKids
<1>5. KeysOf[h - 1][kid] \subseteq Keys
  BY DEF IsSubtree, Sound
<1>6. \A q \in 0 .. n.count : R[q] = IF q = i THEN KeysOf[h - 1][kid] ELSE S[q]
  <2> HIDE DEF C
  <2>1. \A q \in 0 .. n.count : q \in Places /\ R[q] = KeysOf[h - 1][C[q]] /\ S[q] = KeysOf[h - 1][n.kids[q]]
    BY <1>1, <1>4, InnerSets
  <2> QED BY <1>3, <2>1
<1>7. /\ Row(n.keys, n.count, R)
      /\ RowKeys(n.keys, n.count, R) = (RowKeys(n.keys, n.count, S) \ S[i]) \cup KeysOf[h - 1][kid]
  <2>1. \A k \in KeysOf[h - 1][kid] : k \in Int /\ Between(n.keys, n.count, i, k)
    BY <1>5, DegreeFacts
  <2>2. Replaced(R, S, n.count, i, KeysOf[h - 1][kid])
    BY <1>6 DEF Replaced
  <2> HIDE DEF S, R
  <2> QED BY <1>1, <2>1, <2>2, RowReplace
<1>8. S[i] = KeysOf[h - 1][n.kids[i]]
  <2>1. \A q \in 0 .. n.count : S[q] = KeysOf[h - 1][n.kids[q]]
    BY ONLY <1>1, h \in Nat, h # 0, InnerSets
  <2> QED BY ONLY <2>1, i \in 0 .. n.count
<1>9. C \in [Places -> {NoNode} \cup IF h = 0 THEN {} ELSE Trees[h - 1]]
  <2> HIDE DEF C
  <2> QED BY <1>1, <1>3, <1>4, KidsType
<1>10. RowKeys(n.keys, n.count, R) \subseteq Keys
  BY <1>1, <1>5, <1>7
<1>11. Sound(h, Node(n.keys, n.count, C)) /\ KeysOf[h][Node(n.keys, n.count, C)] = RowKeys(n.keys, n.count, R)
  <2> HIDE DEF C
  <2> QED BY <1>1, <1>4, <1>7, <1>9, <1>10, SoundNode
<1>12. SetKid(n, i, kid) = Node(n.keys, n.count, C)
  BY DEF SetKid
<1> QED BY <1>1, <1>7, <1>8, <1>11, <1>12, NodeFields

\* Two neighbours and the key between them give way to others.
LEMMA SoundShift ==
  ASSUME NEW h \in Nat, h # 0, NEW n, Sound(h, n), NEW i \in 0 .. n.count - 1,
         NEW a, IsSubtree(h - 1, a), NEW m \in Keys, NEW b, IsSubtree(h - 1, b),
         \A k \in KeysOf[h - 1][a] \cup {m} \cup KeysOf[h - 1][b] : InWindow(n.keys, n.count, i, k),
         \A k \in KeysOf[h - 1][a] : k < m,
         \A k \in KeysOf[h - 1][b] : m < k,
         NEW K, K = [n.keys EXCEPT ![i] = m],
         NEW C, C = [n.kids EXCEPT ![i] = a, ![i + 1] = b]
  PROVE  /\ Sound(h, Node(K, n.count, C))
         /\ KeysOf[h][Node(K, n.count, C)] =
              (KeysOf[h][n] \ (KeysOf[h - 1][n.kids[i]] \cup {n.keys[i]} \cup KeysOf[h - 1][n.kids[i + 1]]))
                \cup KeysOf[h - 1][a] \cup {m} \cup KeysOf[h - 1][b]
<1> DEFINE S == KeySets(h, n.kids)
           R == KeySets(h, C)
<1>1. /\ n.keys \in [Places -> Keys \cup {NoKey}] /\ n.count \in 0 .. Full /\ n.count \in Nat
      /\ n.kids \in [Places -> {NoNode} \cup IF h = 0 THEN {} ELSE Trees[h - 1]]
      /\ HasKids(h, n.count, n.kids) /\ Row(n.keys, n.count, S)
      /\ KeysOf[h][n] = RowKeys(n.keys, n.count, S) /\ KeysOf[h][n] \subseteq Keys
  BY SoundHas, SoundKeys, DegreeFacts
<1>2. i \in Places /\ i + 1 \in Places /\ ~(i > n.count) /\ ~(i + 1 > n.count) /\ i # i + 1
      /\ i \in 0 .. n.count /\ i + 1 \in 0 .. n.count
  BY ONLY <1>1, i \in 0 .. n.count - 1, DegreeFacts
<1>3. \A q \in Places : C[q] = IF q = i THEN a ELSE IF q = i + 1 THEN b ELSE n.kids[q]
  BY <1>1, <1>2
<1>d. C = [q \in Places |-> C[q]]
  BY <1>1
<1>4. HasKids(h, n.count, C)
  BY <1>1, <1>2, <1>3 DEF HasKids
<1>5. KeysOf[h - 1][a] \subseteq Keys /\ KeysOf[h - 1][b] \subseteq Keys
  BY DEF IsSubtree, Sound
<1>6. \A q \in 0 .. n.count : R[q] = IF q = i THEN KeysOf[h - 1][a]
                                     ELSE IF q = i + 1 THEN KeysOf[h - 1][b] ELSE S[q]
  <2>1. \A q \in 0 .. n.count : q \in Places /\ R[q] = KeysOf[h - 1][C[q]] /\ S[q] = KeysOf[h - 1][n.kids[q]]
    BY <1>1, <1>4, InnerSets
  <2> QED BY <1>3, <2>1
<1>7. \A p \in 0 .. n.count - 1 : K[p] = IF p = i THEN m ELSE n.keys[p]
  <2>1. \A p \in 0 .. n.count - 1 : p \in Places
    BY ONLY <1>1, DegreeFacts
  <2> QED BY <1>1, <2>1
<1>8. /\ Row(K, n.count, R)
      /\ RowKeys(K, n.count, R) = (RowKeys(n.keys, n.count, S) \ (S[i] \cup {n.keys[i]} \cup S[i + 1]))
                                    \cup KeysOf[h - 1][a] \cup {m} \cup KeysOf[h - 1][b]
  <2> DEFINE A == KeysOf[h - 1][a]
             B == KeysOf[h - 1][b]
  <2>1. ShiftedSets(R, S, n.count, i, A, B)
    BY <1>6 DEF ShiftedSets
  <2>2. ShiftedKeys(K, n.keys, n.count, i, m)
    BY <1>7 DEF ShiftedKeys
  <2>3. /\ \A k \in A \cup {m} \cup B : InWindow(n.keys, n.count, i, k)
        /\ \A k \in A : k < m
        /\ \A k \in B : m < k
    OBVIOUS
  <2> HIDE DEF S, R, A, B
  <2>4. /\ Row(K, n.count, R)
        /\ RowKeys(K, n.count, R) = (RowKeys(n.keys, n.count, S) \ (S[i] \cup {n.keys[i]} \cup S[i + 1]))
                                      \cup A \cup {m} \cup B
    BY ONLY <1>1, i \in 0 .. n.count - 1, <2>1, <2>2, <2>3, RowShift
  <2> QED BY <2>4 DEF A, B
<1>9. S[i] = KeysOf[h - 1][n.kids[i]] /\ S[i + 1] = KeysOf[h - 1][n.kids[i + 1]]
  <2>1. \A q \in 0 .. n.count : S[q] = KeysOf[h - 1][n.kids[q]]
    BY ONLY <1>1, h \in Nat, h # 0, InnerSets
  <2> QED BY ONLY <1>2, <2>1
<1>10. C \in [Places -> {NoNode} \cup IF h = 0 THEN {} ELSE Trees[h - 1]]
  BY ONLY <1>1, <1>d, <1>4, h \in Nat, KidsType
<1>11. RowKeys(K, n.count, R) \subseteq Keys /\ K \in [Places -> Keys \cup {NoKey}]
  BY <1>1, <1>5, <1>8
<1>12. Sound(h, Node(K, n.count, C)) /\ KeysOf[h][Node(K, n.count, C)] = RowKeys(K, n.count, R)
  BY <1>1, <1>4, <1>8, <1>10, <1>11, SoundNode, SMTT(30)
<1> QED BY <1>1, <1>8, <1>9, <1>12

\* Two neighbours and the key between them become one.
LEMMA SoundClose ==
  ASSUME NEW h \in Nat, h # 0, NEW n, Sound(h, n), NEW i \in 0 .. n.count - 1,
         NEW a, IsSubtree(h - 1, a), \A k \in KeysOf[h - 1][a] : InWindow(n.keys, n.count, i, k)
  PROVE  /\ Sound(h, WithoutGap(n, i, a)) /\ WithoutGap(n, i, a).count = n.count - 1
         /\ WithoutGap(n, i, a).kids[i] = a
         /\ KeysOf[h][WithoutGap(n, i, a)] =
              (KeysOf[h][n] \ (KeysOf[h - 1][n.kids[i]] \cup {n.keys[i]} \cup KeysOf[h - 1][n.kids[i + 1]]))
                \cup KeysOf[h - 1][a]
         /\ \A p \in 0 .. n.count - 2 : WithoutGap(n, i, a).keys[p] = IF p < i THEN n.keys[p] ELSE n.keys[p + 1]
<1> DEFINE S == KeySets(h, n.kids)
           K == Closed(n, i)
           C == [q \in Places |-> CASE q < i -> n.kids[q]
                                    [] q = i -> a
                                    [] q > i /\ q < n.count -> n.kids[q + 1]
                                    [] OTHER -> NoNode]
           R == KeySets(h, C)
<1>1. /\ n.keys \in [Places -> Keys \cup {NoKey}] /\ n.count \in 0 .. Full /\ n.count \in Nat
      /\ n.kids \in [Places -> {NoNode} \cup IF h = 0 THEN {} ELSE Trees[h - 1]]
      /\ HasKids(h, n.count, n.kids) /\ Row(n.keys, n.count, S)
      /\ KeysOf[h][n] = RowKeys(n.keys, n.count, S) /\ KeysOf[h][n] \subseteq Keys
  BY SoundHas, SoundKeys, DegreeFacts
<1>2. /\ i \in Places /\ i + 1 \in Places /\ i \in 0 .. n.count /\ i + 1 \in 0 .. n.count
      /\ n.count - 1 \in 0 .. Full /\ n.count - 1 \in Nat /\ i \in Int
  BY ONLY <1>1, i \in 0 .. n.count - 1, DegreeFacts
<1>3. \A q \in Places : /\ (q < i => C[q] = n.kids[q])
                        /\ (q = i => C[q] = a)
                        /\ (q > i /\ q < n.count => C[q] = n.kids[q + 1])
                        /\ (q >= n.count => C[q] = NoNode)
  <2> SUFFICES ASSUME NEW q \in Places
               PROVE  /\ (q < i => C[q] = n.kids[q])
                      /\ (q = i => C[q] = a)
                      /\ (q > i /\ q < n.count => C[q] = n.kids[q + 1])
                      /\ (q >= n.count => C[q] = NoNode)
    OBVIOUS
  <2>1. q \in Int /\ i < n.count
    BY ONLY <1>1, i \in 0 .. n.count - 1, q \in Places, DegreeFacts
  <2> QED BY ONLY <1>1, <1>2, <2>1, q \in Places
<1>d. C = [q \in Places |-> C[q]]
  OBVIOUS
<1>k. \A p \in Places : K[p] = IF p >= i /\ p + 1 < n.count THEN n.keys[p + 1]
                               ELSE IF p + 1 = n.count /\ i < p THEN NoKey ELSE n.keys[p]
  <2> SUFFICES ASSUME NEW p \in Places
               PROVE  K[p] = IF p >= i /\ p + 1 < n.count THEN n.keys[p + 1]
                             ELSE IF p + 1 = n.count /\ i < p THEN NoKey ELSE n.keys[p]
    OBVIOUS
  <2>1. p \in Int
    BY ONLY p \in Places, DegreeFacts
  <2> QED BY ONLY <1>1, <1>2, <2>1, p \in Places DEF Closed
<1>t. K \in [Places -> Keys \cup {NoKey}]
  <2>1. \A p \in Places : p + 1 < n.count => p + 1 \in Places
    BY ONLY <1>1, DegreeFacts
  <2>2. \A p \in Places : K[p] \in Keys \cup {NoKey}
    <3> HIDE DEF K
    <3> QED BY ONLY <1>1, <1>k, <2>1
  <2>3. K = [p \in Places |-> K[p]]
    BY DEF Closed
  <2> HIDE DEF K
  <2> QED BY ONLY <2>2, <2>3
<1> HIDE DEF C, K
<1>4. HasKids(h, n.count - 1, C)
  <2> SUFFICES ASSUME NEW q \in Places
               PROVE  IF h = 0 \/ q > n.count - 1 THEN C[q] = NoNode ELSE IsSubtree(h - 1, C[q])
    BY DEF HasKids
  <2>1. q \in Int /\ (q < n.count => q + 1 \in Places /\ ~(q + 1 > n.count) /\ ~(q > n.count))
    BY ONLY <1>1, q \in Places, DegreeFacts
  <2>2. CASE q >= n.count
    BY <1>1, <1>3, <2>1, <2>2
  <2>3. CASE q < n.count
    <3>1. IsSubtree(h - 1, n.kids[q]) /\ IsSubtree(h - 1, n.kids[q + 1])
      BY <1>1, <2>1, <2>3 DEF HasKids
    <3> QED BY <1>1, <1>2, <1>3, <2>1, <2>3, <3>1
  <2> QED BY <1>1, <2>1, <2>2, <2>3
<1>5. KeysOf[h - 1][a] \subseteq Keys
  BY DEF IsSubtree, Sound
<1>6. \A q \in 0 .. n.count - 1 : R[q] = IF q < i THEN S[q] ELSE IF q = i THEN KeysOf[h - 1][a] ELSE S[q + 1]
  <2> SUFFICES ASSUME NEW q \in 0 .. n.count - 1
               PROVE  R[q] = IF q < i THEN S[q] ELSE IF q = i THEN KeysOf[h - 1][a] ELSE S[q + 1]
    OBVIOUS
  <2>1. q \in 0 .. n.count /\ q + 1 \in 0 .. n.count /\ q \in Places /\ q \in Int /\ q < n.count
    BY ONLY <1>1, q \in 0 .. n.count - 1, DegreeFacts
  <2>2. R[q] = KeysOf[h - 1][C[q]]
    BY <1>2, <1>4, InnerSets
  <2>3. S[q] = KeysOf[h - 1][n.kids[q]] /\ S[q + 1] = KeysOf[h - 1][n.kids[q + 1]]
    BY <1>1, <2>1, InnerSets
  <2> QED BY ONLY <1>2, <1>3, <2>1, <2>2, <2>3
<1>7. \A p \in 0 .. n.count - 2 : K[p] = IF p < i THEN n.keys[p] ELSE n.keys[p + 1]
  <2> SUFFICES ASSUME NEW p \in 0 .. n.count - 2 PROVE K[p] = IF p < i THEN n.keys[p] ELSE n.keys[p + 1]
    OBVIOUS
  <2>1. p \in Places /\ p \in Int /\ p + 1 < n.count
    BY ONLY <1>1, p \in 0 .. n.count - 2, DegreeFacts
  <2> QED BY ONLY <1>1, <1>2, <1>k, <2>1
<1>8. /\ Row(K, n.count - 1, R)
      /\ RowKeys(K, n.count - 1, R) =
           (RowKeys(n.keys, n.count, S) \ (S[i] \cup {n.keys[i]} \cup S[i + 1])) \cup KeysOf[h - 1][a]
  <2>1. ClosedSets(R, S, n.count, i, KeysOf[h - 1][a])
    BY <1>6 DEF ClosedSets
  <2>2. ClosedKeys(K, n.keys, n.count, i)
    BY <1>7 DEF ClosedKeys
  <2>3. Windowed(n.keys, n.count, i, KeysOf[h - 1][a])
    BY DEF Windowed
  <2> HIDE DEF S, R
  <2> QED BY ONLY <1>1, i \in 0 .. n.count - 1, <2>1, <2>2, <2>3, RowClose
<1>9. S[i] = KeysOf[h - 1][n.kids[i]] /\ S[i + 1] = KeysOf[h - 1][n.kids[i + 1]]
  BY <1>1, <1>2, InnerSets
<1>10. C \in [Places -> {NoNode} \cup IF h = 0 THEN {} ELSE Trees[h - 1]]
  BY <1>2, <1>d, <1>4, KidsType
<1>11. RowKeys(K, n.count - 1, R) \subseteq Keys
  BY <1>1, <1>5, <1>8
<1>12. Sound(h, Node(K, n.count - 1, C)) /\ KeysOf[h][Node(K, n.count - 1, C)] = RowKeys(K, n.count - 1, R)
  BY <1>2, <1>4, <1>8, <1>10, <1>11, <1>t, SoundNode
<1>13. WithoutGap(n, i, a) = Node(K, n.count - 1, C)
  BY DEF WithoutGap, K, C
<1> QED BY <1>1, <1>2, <1>3, <1>7, <1>8, <1>9, <1>12, <1>13, NodeFields

OpenedKids(A, i, a, b) ==
  [q \in Places |-> CASE q < i -> A[q]
                      [] q = i -> a
                      [] q = i + 1 -> b
                      [] OTHER -> A[q - 1]]

\* What Opened makes of the keys.
LEMMA OpenedIs ==
  ASSUME NEW n, n.keys \in [Places -> Keys \cup {NoKey}], n.count \in 0 .. Full - 1,
         NEW i \in 0 .. n.count, NEW m \in Keys
  PROVE  /\ Opened(n, i, m) \in [Places -> Keys \cup {NoKey}]
         /\ OpenedKeys(Opened(n, i, m), n.keys, n.count, i, m)
<1> DEFINE K == Opened(n, i, m)
<1>1. i \in Nat /\ n.count \in Nat /\ n.count < Full /\ i <= n.count
  BY ONLY n.count \in 0 .. Full - 1, i \in 0 .. n.count, DegreeFacts
<1>2. \A p \in Places : /\ (p < i => K[p] = n.keys[p])
                        /\ (p = i => K[p] = m)
                        /\ (p > i /\ p <= n.count => K[p] = n.keys[p - 1])
                        /\ (p > i /\ p > n.count => K[p] = n.keys[p])
  <2> SUFFICES ASSUME NEW p \in Places
               PROVE  /\ (p < i => K[p] = n.keys[p])
                      /\ (p = i => K[p] = m)
                      /\ (p > i /\ p <= n.count => K[p] = n.keys[p - 1])
                      /\ (p > i /\ p > n.count => K[p] = n.keys[p])
    OBVIOUS
  <2>1. p \in Int
    BY ONLY p \in Places, DegreeFacts
  <2> QED BY ONLY <1>1, <2>1, p \in Places DEF Opened
<1>3. K = [p \in Places |-> K[p]]
  BY DEF Opened
<1> HIDE DEF K
<1>4. \A p \in Places : K[p] \in Keys \cup {NoKey}
  <2> SUFFICES ASSUME NEW p \in Places PROVE K[p] \in Keys \cup {NoKey}
    OBVIOUS
  <2>1. p \in Int /\ (p > i => p - 1 \in Places)
    BY ONLY <1>1, p \in Places, DegreeFacts
  <2>2. n.keys[p] \in Keys \cup {NoKey} /\ (p > i => n.keys[p - 1] \in Keys \cup {NoKey})
    BY <2>1
  <2> QED BY ONLY <1>1, <1>2, <2>1, <2>2, p \in Places, m \in Keys
<1>5. ASSUME NEW p \in 0 .. n.count
      PROVE  K[p] = IF p < i THEN n.keys[p] ELSE IF p = i THEN m ELSE n.keys[p - 1]
  <2>1. p \in Places /\ p \in Int /\ p <= n.count
    BY ONLY <1>1, p \in 0 .. n.count, DegreeFacts
  <2> QED BY ONLY <1>1, <1>2, <2>1
<1> QED BY <1>3, <1>4, <1>5 DEF K, OpenedKeys

\* A subtree gives way to two and a key between them.
LEMMA SoundOpen ==
  ASSUME NEW h \in Nat, h # 0, NEW n, Sound(h, n), n.count < Full, NEW i \in 0 .. n.count,
         NEW a, IsSubtree(h - 1, a), NEW m \in Keys, NEW b, IsSubtree(h - 1, b),
         \A k \in KeysOf[h - 1][a] \cup {m} \cup KeysOf[h - 1][b] : Between(n.keys, n.count, i, k),
         \A k \in KeysOf[h - 1][a] : k < m,
         \A k \in KeysOf[h - 1][b] : m < k,
         NEW C, C = OpenedKids(n.kids, i, a, b)
  PROVE  /\ Sound(h, Node(Opened(n, i, m), n.count + 1, C))
         /\ KeysOf[h][Node(Opened(n, i, m), n.count + 1, C)] =
              (KeysOf[h][n] \ KeysOf[h - 1][n.kids[i]])
                \cup KeysOf[h - 1][a] \cup {m} \cup KeysOf[h - 1][b]
<1> DEFINE S == KeySets(h, n.kids)
           K == Opened(n, i, m)
           R == KeySets(h, C)
<1>1. /\ n.keys \in [Places -> Keys \cup {NoKey}] /\ n.count \in 0 .. Full /\ n.count \in Nat
      /\ n.kids \in [Places -> {NoNode} \cup IF h = 0 THEN {} ELSE Trees[h - 1]]
      /\ HasKids(h, n.count, n.kids) /\ Row(n.keys, n.count, S)
      /\ KeysOf[h][n] = RowKeys(n.keys, n.count, S) /\ KeysOf[h][n] \subseteq Keys
  BY SoundHas, SoundKeys, DegreeFacts
<1>2. /\ i \in Places /\ i + 1 \in Places /\ i \in 0 .. n.count /\ n.count \in 0 .. Full - 1
      /\ n.count + 1 \in 0 .. Full /\ n.count + 1 \in Nat /\ i \in Int
  BY ONLY <1>1, i \in 0 .. n.count, n.count < Full, DegreeFacts
<1>3. \A q \in Places : /\ (q < i => C[q] = n.kids[q])
                        /\ (q = i => C[q] = a)
                        /\ (q = i + 1 => C[q] = b)
                        /\ (q > i + 1 => C[q] = n.kids[q - 1])
  <2> SUFFICES ASSUME NEW q \in Places
               PROVE  /\ (q < i => C[q] = n.kids[q])
                      /\ (q = i => C[q] = a)
                      /\ (q = i + 1 => C[q] = b)
                      /\ (q > i + 1 => C[q] = n.kids[q - 1])
    OBVIOUS
  <2>1. q \in Int
    BY ONLY q \in Places, DegreeFacts
  <2> QED BY ONLY <1>2, <2>1, q \in Places, C = OpenedKids(n.kids, i, a, b) DEF OpenedKids
<1>d. C = [q \in Places |-> C[q]]
  BY ONLY C = OpenedKids(n.kids, i, a, b) DEF OpenedKids
<1>4. HasKids(h, n.count + 1, C)
  <2> SUFFICES ASSUME NEW q \in Places
               PROVE  IF h = 0 \/ q > n.count + 1 THEN C[q] = NoNode ELSE IsSubtree(h - 1, C[q])
    BY DEF HasKids
  <2>1. q \in Int /\ (q > i + 1 => q - 1 \in Places)
    BY ONLY <1>2, q \in Places, DegreeFacts
  <2>2. \A r \in Places : IF r > n.count THEN n.kids[r] = NoNode ELSE IsSubtree(h - 1, n.kids[r])
    BY <1>1 DEF HasKids
  <2>3. CASE q <= i + 1
    <3>1. ~(q > n.count + 1) /\ (q < i => ~(q > n.count)) /\ (q < i \/ q = i \/ q = i + 1)
      BY ONLY <1>2, <2>1, <2>3
    <3> QED BY ONLY <1>3, <2>2, <3>1, q \in Places, h # 0, IsSubtree(h - 1, a), IsSubtree(h - 1, b)
  <2>4. CASE q > i + 1
    <3>1. q - 1 \in Places /\ (q > n.count + 1 <=> q - 1 > n.count)
      BY ONLY <1>2, <2>1, <2>4
    <3>2. IF q - 1 > n.count THEN n.kids[q - 1] = NoNode ELSE IsSubtree(h - 1, n.kids[q - 1])
      BY ONLY <2>2, <3>1
    <3> QED BY ONLY <1>3, <2>4, <3>1, <3>2, q \in Places, h # 0
  <2> QED BY ONLY <1>2, <2>1, <2>3, <2>4
<1>5. KeysOf[h - 1][a] \subseteq Keys /\ KeysOf[h - 1][b] \subseteq Keys
  BY DEF IsSubtree, Sound
<1> DEFINE A == KeysOf[h - 1][a]
           B == KeysOf[h - 1][b]
<1>6. OpenedSets(R, S, n.count, i, A, B)
  <2> SUFFICES ASSUME NEW q \in 0 .. n.count + 1
               PROVE  R[q] = IF q < i THEN S[q] ELSE IF q = i THEN A ELSE IF q = i + 1 THEN B ELSE S[q - 1]
    BY DEF OpenedSets
  <2>1. q \in Places /\ q \in Int
    BY ONLY <1>2, q \in 0 .. n.count + 1, DegreeFacts
  <2>2. R[q] = KeysOf[h - 1][C[q]]
    BY ONLY <1>2, <1>4, q \in 0 .. n.count + 1, h \in Nat, h # 0, InnerSets
  <2>3. \A r \in 0 .. n.count : S[r] = KeysOf[h - 1][n.kids[r]]
    BY ONLY <1>1, h \in Nat, h # 0, InnerSets
  <2>4. (q < i => q \in 0 .. n.count) /\ (q > i + 1 => q - 1 \in 0 .. n.count)
    BY ONLY <1>1, <1>2, q \in 0 .. n.count + 1
  <2> QED BY ONLY <1>2, <1>3, <2>1, <2>2, <2>3, <2>4
<1>7. OpenedKeys(K, n.keys, n.count, i, m) /\ K \in [Places -> Keys \cup {NoKey}]
  BY ONLY <1>1, <1>2, m \in Keys, OpenedIs
<1>8. /\ Row(K, n.count + 1, R)
      /\ RowKeys(K, n.count + 1, R) = (RowKeys(n.keys, n.count, S) \ S[i]) \cup A \cup {m} \cup B
  <2>1. m \in Int /\ Between(n.keys, n.count, i, m)
    BY DegreeFacts
  <2>2. /\ Fits(n.keys, n.count, i, A) /\ Under(A, m)
        /\ Fits(n.keys, n.count, i, B) /\ Over(B, m)
    BY <1>5, DegreeFacts DEF Fits, Under, Over
  <2> DEFINE d == n.count
  <2>3. d \in Nat /\ i \in 0 .. d /\ Row(n.keys, d, S)
    BY ONLY <1>1, <1>2
  <2> HIDE DEF S, R, A, B, K, d
  <2>4. /\ OpenedKeys(K, n.keys, d, i, m) /\ OpenedSets(R, S, d, i, A, B)
        /\ m \in Int /\ Between(n.keys, d, i, m)
        /\ Fits(n.keys, d, i, A) /\ Under(A, m)
        /\ Fits(n.keys, d, i, B) /\ Over(B, m)
    BY ONLY <1>6, <1>7, <2>1, <2>2, Zenon DEF d
  <2>5. /\ Row(K, d + 1, R)
        /\ RowKeys(K, d + 1, R) = (RowKeys(n.keys, d, S) \ S[i]) \cup A \cup {m} \cup B
    BY ONLY <2>3, <2>4, RowOpen
  <2> QED BY ONLY <2>5, Zenon DEF d
<1>9. S[i] = KeysOf[h - 1][n.kids[i]]
  <2>1. \A q \in 0 .. n.count : S[q] = KeysOf[h - 1][n.kids[q]]
    BY ONLY <1>1, h \in Nat, h # 0, InnerSets
  <2> QED BY ONLY <2>1, i \in 0 .. n.count
<1>10. C \in [Places -> {NoNode} \cup IF h = 0 THEN {} ELSE Trees[h - 1]]
  BY ONLY <1>2, <1>d, <1>4, h \in Nat, KidsType
<1>11. RowKeys(K, n.count + 1, R) \subseteq Keys
  BY <1>1, <1>5, <1>8
<1>12. Sound(h, Node(K, n.count + 1, C)) /\ KeysOf[h][Node(K, n.count + 1, C)] = RowKeys(K, n.count + 1, R)
  <2> HIDE DEF K
  <2> QED BY ONLY <1>2, <1>4, <1>7, <1>8, <1>10, <1>11, h \in Nat, SoundNode
<1> QED BY ONLY <1>1, <1>8, <1>9, <1>12

\* btree_split_child: no key is lost, each goes to its side of the middle one.
LEMMA SplitKeeps ==
  ASSUME NEW h \in Nat, h # 0, NEW x, Sound(h, x), x.count < Full, NEW i \in 0 .. x.count,
         x.kids[i].count = Full,
         NEW z, z = SplitChild(x, i)
  PROVE  /\ Sound(h, z) /\ z.count = x.count + 1 /\ KeysOf[h][z] = KeysOf[h][x]
         /\ z.keys[i] \in KeysOf[h][x]
         /\ z.kids[i].count = T - 1 /\ z.kids[i + 1].count = T - 1
         /\ \A k \in Int : Between(x.keys, x.count, i, k) =>
              /\ k < z.keys[i] => Between(z.keys, z.count, i, k)
              /\ z.keys[i] < k => Between(z.keys, z.count, i + 1, k)
<1> DEFINE g == h - 1
           t == T - 1
           y == x.kids[i]
           m == y.keys[t]
           LK == [p \in Places |-> IF p < t \/ p = Full THEN y.keys[p] ELSE NoKey]
           RK == [p \in Places |-> IF p < t THEN y.keys[p + T] ELSE NoKey]
           left == Node(LK, t, Half(y, 0))
           right == Node(RK, t, Half(y, T))
           C == OpenedKids(x.kids, i, left, right)
<1>1. /\ x.keys \in [Places -> Keys \cup {NoKey}] /\ x.count \in 0 .. Full /\ x.count \in Nat
      /\ HasKids(h, x.count, x.kids) /\ Row(x.keys, x.count, KeySets(h, x.kids))
      /\ i \in Places /\ i \in Nat /\ i + 1 \in Places
  BY SoundHas, DegreeFacts
<1>2. IsSubtree(g, y) /\ KeySets(h, x.kids)[i] = KeysOf[g][y] /\ g \in Nat
  BY ONLY <1>1, i \in 0 .. x.count, h \in Nat, h # 0, InnerSets
<1>3. Sound(g, y) /\ y.keys \in [Places -> Keys \cup {NoKey}] /\ y.count = Full /\ KeysOf[g][y] \subseteq Keys
  <2>1. Sound(g, y)
    BY <1>2 DEF IsSubtree
  <2> QED BY <1>2, <2>1, SoundHas, SoundKeys
<1>4. t \in 0 .. Full - 1 /\ T \in 0 .. Full /\ t \in 0 .. Full - T /\ t \in 0 .. Full - 0 /\ 0 \in 0 .. Full
      /\ t \in t .. Full /\ 0 + (t) = t /\ T + (t) = Full /\ 0 + (t) < Full /\ T > 0
  BY DegreeFacts
<1>5. m \in Keys /\ m \in KeysOf[g][y] /\ m \in Int
  <2>1. t \in 0 .. y.count - 1
    BY ONLY <1>3, <1>4, DegreeFacts
  <2> HIDE DEF y
  <2>2. m \in Keys /\ m \in KeysOf[g][y]
    BY ONLY <1>2, <1>3, <2>1, SoundKeys
  <2> QED BY <2>2, DegreeFacts
<1>6. /\ Sound(g, left) /\ left.count = t
      /\ KeysOf[g][left] = {k \in KeysOf[g][y] : k < m}
  <2>1. LK \in [Places -> Keys \cup {NoKey}]
    BY <1>3
  <2>2. \A p \in 0 .. t - 1 : LK[p] = y.keys[p]
    <3>1. \A p \in 0 .. t - 1 : p \in Places /\ p < t
      BY ONLY DegreeFacts
    <3> QED BY ONLY <3>1
  <2>3. Half(y, 0) = [q \in Places |-> IF q <= t THEN y.kids[q] ELSE NoNode]
    <3>1. \A q \in Places : (q < T <=> q <= t) /\ q + 0 = q
      BY ONLY DegreeFacts
    <3> QED BY <3>1 DEF Half
  <2> HIDE DEF y, LK, g, t
  <2>e. t \in Nat /\ t <= y.count /\ (t < y.count) = TRUE
    BY ONLY <1>3, <1>4, DegreeFacts
  <2>4. /\ Sound(g, Node(LK, t, Half(y, 0)))
        /\ \A k : k \in KeysOf[g][Node(LK, t, Half(y, 0))] <=> k \in KeysOf[g][y] /\ (t < y.count => k < y.keys[t])
    BY ONLY <1>2, <1>3, <2>1, <2>2, <2>3, <2>e, SoundFirst
  <2> QED BY <2>4, <2>e, NodeFields DEF y
<1>7. /\ Sound(g, right) /\ right.count = t
      /\ KeysOf[g][right] = {k \in KeysOf[g][y] : m < k}
  <2>1. RK \in [Places -> Keys \cup {NoKey}]
    <3>1. \A p \in Places : p < t => p + T \in Places
      BY ONLY DegreeFacts
    <3> QED BY <1>3, <3>1
  <2>2. Sliced(RK, y.keys, T, t)
    <3> SUFFICES ASSUME NEW p \in 0 .. t - 1 PROVE RK[p] = y.keys[p + T]
      BY DEF Sliced
    <3>1. p \in Places /\ p < t
      BY ONLY p \in 0 .. t - 1, DegreeFacts
    <3> QED BY ONLY <3>1
  <2>3. Half(y, T) = SlicedKids(y.kids, T, t)
    <3>1. \A q \in Places : q < T <=> q <= t
      BY ONLY DegreeFacts
    <3> QED BY <3>1 DEF Half, SlicedKids
  <2> HIDE DEF y, RK, g, t
  <2>4. IsSlice(y, T, t, Full, RK, Half(y, T))
    BY ONLY <1>3, <1>4, <2>1, <2>2, <2>3, DegreeFacts DEF IsSlice
  <2>5. Sound(g, Node(RK, t, Half(y, T))) /\ HasSlice(g, Node(RK, t, Half(y, T)), y, T, Full)
    BY ONLY <1>2, <1>3, <2>4, SoundSlice
  <2>6. T > 0 /\ T - 1 = t /\ ~(Full < y.count)
    BY ONLY <1>3, DegreeFacts DEF t
  <2>7. \A k : k \in KeysOf[g][Node(RK, t, Half(y, T))] <=> k \in KeysOf[g][y] /\ y.keys[t] < k
    BY ONLY <2>5, <2>6, Zenon DEF HasSlice
  <2> QED BY <2>5, <2>7, NodeFields DEF y
<1>8. IsSubtree(g, left) /\ IsSubtree(g, right)
  BY ONLY <1>4, <1>6, <1>7 DEF IsSubtree
<1>9. \A k \in KeysOf[g][y] : k \in Int /\ Between(x.keys, x.count, i, k)
  BY ONLY <1>1, <1>2, i \in 0 .. x.count DEF Row
<1> DEFINE A == KeysOf[g][left]
           B == KeysOf[g][right]
<1> HIDE DEF left, right, y, m, LK, RK
<1>10. A \cup {m} \cup B = KeysOf[g][y]
  BY ONLY <1>5, <1>6, <1>7, <1>9
<1>11. /\ Sound(h, Node(Opened(x, i, m), x.count + 1, C))
       /\ KeysOf[h][Node(Opened(x, i, m), x.count + 1, C)] = (KeysOf[h][x] \ KeysOf[g][x.kids[i]]) \cup A \cup {m} \cup B
  <2>1. \A k \in A \cup {m} \cup B : Between(x.keys, x.count, i, k)
    BY ONLY <1>9, <1>10
  <2>2. (\A k \in A : k < m) /\ (\A k \in B : m < k)
    BY ONLY <1>6, <1>7
  <2> QED BY ONLY <1>5, <1>8, <2>1, <2>2, h \in Nat, h # 0, Sound(h, x), x.count < Full, i \in 0 .. x.count, SoundOpen
<1>12. z = Node(Opened(x, i, m), x.count + 1, C)
  BY DEF SplitChild, OpenedKids, left, right, y, m, LK, RK
<1>13. KeysOf[g][y] \subseteq KeysOf[h][x]
  BY ONLY <1>2, Sound(h, x), h \in Nat, i \in 0 .. x.count, SoundKeys
<1>14. KeysOf[h][z] = KeysOf[h][x]
  BY ONLY <1>10, <1>11, <1>12, <1>13 DEF y
<1>15. z.keys = Opened(x, i, m) /\ z.count = x.count + 1 /\ z.kids = C
  BY ONLY <1>12, NodeFields
<1>16. OpenedKeys(z.keys, x.keys, x.count, i, m)
  BY ONLY <1>1, <1>5, <1>15, x.count < Full, i \in 0 .. x.count, DegreeFacts, OpenedIs
<1>17. z.keys[i] = m
  BY ONLY <1>1, <1>16, i \in 0 .. x.count DEF OpenedKeys
<1>18. z.kids[i] = left /\ z.kids[i + 1] = right
  BY ONLY <1>1, <1>15 DEF OpenedKids
<1>19. ASSUME NEW k \in Int, Between(x.keys, x.count, i, k)
       PROVE  /\ k < z.keys[i] => Between(z.keys, z.count, i, k)
              /\ z.keys[i] < k => Between(z.keys, z.count, i + 1, k)
  <2>1. \A p \in 0 .. x.count : z.keys[p] = IF p < i THEN x.keys[p] ELSE IF p = i THEN m ELSE x.keys[p - 1]
    BY ONLY <1>16 DEF OpenedKeys
  <2>2. \A p \in 0 .. x.count - 1 : IF p < i THEN x.keys[p] < k ELSE k < x.keys[p]
    BY ONLY <1>19 DEF Between
  <2>3. \A p \in 0 .. x.count : (p < i => z.keys[p] < k) /\ (p > i => k < z.keys[p])
    BY ONLY <1>1, <2>1, <2>2, i \in 0 .. x.count
  <2>4. z.count - 1 = x.count
    BY ONLY <1>1, <1>15
  <2> QED BY ONLY <1>1, <2>3, <2>4, i \in 0 .. x.count DEF Between
<1> QED BY ONLY <1>5, <1>6, <1>7, <1>11, <1>12, <1>13, <1>14, <1>15, <1>17, <1>18, <1>19

----------------------------------------------------------------------------
(* Leaves.                                                                  *)

\* A sound node is a leaf of the tree exactly when it has no height.
LEMMA LeafIs ==
  ASSUME NEW h \in Nat, NEW n, Sound(h, n)
  PROVE  IsLeaf(n) <=> h = 0
<1>1. n.count \in 0 .. Full /\ HasKids(h, n.count, n.kids)
  BY SoundHas
<1>2. 0 \in Places /\ 0 <= n.count
  BY ONLY <1>1, DegreeFacts
<1> QED BY <1>1, <1>2, KidsAre DEF IsLeaf

\* There are no keys below a leaf.
LEMMA LeafSets ==
  ASSUME NEW h, h = 0, NEW C
  PROVE  \A q \in Places : KeySets(h, C)[q] = {}
BY DEF KeySets

LEMMA LeafKids ==
  ASSUME NEW h, h = 0, NEW c
  PROVE  HasKids(h, c, NoKids) /\ NoKids \in [Places -> {NoNode} \cup IF h = 0 THEN {} ELSE Trees[h - 1]]
BY DEF HasKids, NoKids

\* A key comes into a leaf.
LEMMA LeafOpen ==
  ASSUME NEW h \in Nat, h = 0, NEW x, Sound(h, x), x.count < Full, NEW i \in 0 .. x.count,
         NEW key \in Keys, Between(x.keys, x.count, i, key)
  PROVE  /\ Sound(h, Node(Opened(x, i, key), x.count + 1, NoKids))
         /\ KeysOf[h][Node(Opened(x, i, key), x.count + 1, NoKids)] = KeysOf[h][x] \cup {key}
<1> DEFINE S == KeySets(h, x.kids)
           R == KeySets(h, NoKids)
           K == Opened(x, i, key)
           c == x.count + 1
           N == {}
<1>1. /\ x.keys \in [Places -> Keys \cup {NoKey}] /\ x.count \in 0 .. Full /\ x.count \in Nat
      /\ Row(x.keys, x.count, S) /\ KeysOf[h][x] = RowKeys(x.keys, x.count, S) /\ KeysOf[h][x] \subseteq Keys
  BY SoundHas, SoundKeys, DegreeFacts
<1>2. /\ x.count \in 0 .. Full - 1 /\ c \in 0 .. Full /\ i \in Places /\ key \in Int
      /\ \A q \in 0 .. c : q \in Places
  BY ONLY <1>1, i \in 0 .. x.count, key \in Keys, x.count < Full, DegreeFacts
<1>3. K \in [Places -> Keys \cup {NoKey}] /\ OpenedKeys(K, x.keys, x.count, i, key)
  BY ONLY <1>1, <1>2, i \in 0 .. x.count, key \in Keys, OpenedIs
<1>4. (\A q \in Places : S[q] = {}) /\ (\A q \in Places : R[q] = {})
  BY ONLY h = 0, LeafSets
<1>5. OpenedSets(R, S, x.count, i, N, N)
  <2>1. \A q \in 0 .. x.count + 1 : R[q] = {} /\ (q < i => S[q] = {}) /\ (q > i + 1 => S[q - 1] = {})
    <3>1. \A q \in 0 .. x.count + 1 : q \in Places /\ (q > i + 1 => q - 1 \in Places)
      BY ONLY <1>1, <1>2, i \in 0 .. x.count, DegreeFacts
    <3> QED BY ONLY <1>4, <3>1
  <2>2. \A q \in 0 .. x.count + 1 : q < i \/ q = i \/ q = i + 1 \/ q > i + 1
    BY ONLY <1>1, i \in 0 .. x.count
  <2> QED BY ONLY <2>1, <2>2 DEF OpenedSets
<1>6. Fits(x.keys, x.count, i, N) /\ Under(N, key) /\ Over(N, key)
  BY DEF Fits, Under, Over
<1>7. Row(K, x.count + 1, R) /\ RowKeys(K, x.count + 1, R) = (RowKeys(x.keys, x.count, S) \ S[i]) \cup N \cup {key} \cup N
  <2> HIDE DEF S, R, K, N
  <2> QED BY ONLY <1>1, <1>2, <1>3, <1>5, <1>6, i \in 0 .. x.count, Between(x.keys, x.count, i, key), RowOpen
<1>8. RowKeys(K, c, R) = KeysOf[h][x] \cup {key}
  BY ONLY <1>1, <1>2, <1>4, <1>7
<1>9. RowKeys(K, c, R) \subseteq Keys /\ Row(K, c, R)
  BY ONLY <1>1, <1>7, <1>8, key \in Keys
<1>10. Sound(h, Node(K, c, NoKids)) /\ KeysOf[h][Node(K, c, NoKids)] = RowKeys(K, c, R)
  <2>1. HasKids(h, c, NoKids) /\ NoKids \in [Places -> {NoNode} \cup IF h = 0 THEN {} ELSE Trees[h - 1]]
    BY ONLY h = 0, LeafKids
  <2> HIDE DEF K, c
  <2> QED BY ONLY <1>2, <1>3, <1>9, <2>1, h \in Nat, SoundNode
<1> QED BY ONLY <1>8, <1>10

\* What Closed makes of the keys.
LEMMA ClosedIs ==
  ASSUME NEW n, n.keys \in [Places -> Keys \cup {NoKey}], n.count \in 0 .. Full,
         NEW i \in 0 .. n.count - 1
  PROVE  Closed(n, i) \in [Places -> Keys \cup {NoKey}] /\ ClosedKeys(Closed(n, i), n.keys, n.count, i)
<1> DEFINE K == Closed(n, i)
<1>1. n.count \in Nat /\ i \in Nat /\ i < n.count /\ n.count <= Full /\ Full \in Nat /\ Places = 0 .. Full
  BY ONLY n.count \in 0 .. Full, i \in 0 .. n.count - 1, DegreeFacts
<1>2. \A p \in Places : K[p] = IF p >= i /\ p + 1 < n.count THEN n.keys[p + 1]
                               ELSE IF p + 1 = n.count /\ i < p THEN NoKey ELSE n.keys[p]
  <2> SUFFICES ASSUME NEW p \in Places
               PROVE  K[p] = IF p >= i /\ p + 1 < n.count THEN n.keys[p + 1]
                             ELSE IF p + 1 = n.count /\ i < p THEN NoKey ELSE n.keys[p]
    OBVIOUS
  <2>1. p \in Int
    BY ONLY p \in Places, DegreeFacts
  <2> QED BY ONLY <1>1, <2>1, p \in Places DEF Closed
<1>3. K = [p \in Places |-> K[p]]
  BY DEF Closed
<1> HIDE DEF K
<1>4. \A p \in Places : K[p] \in Keys \cup {NoKey}
  <2>1. \A p \in Places : p + 1 < n.count => p + 1 \in Places
    BY ONLY <1>1
  <2> QED BY ONLY n.keys \in [Places -> Keys \cup {NoKey}], <1>2, <2>1
<1>5. ASSUME NEW p \in 0 .. n.count - 2 PROVE K[p] = IF p < i THEN n.keys[p] ELSE n.keys[p + 1]
  <2>1. p \in Places /\ p \in Int /\ p + 1 < n.count
    BY ONLY <1>1, p \in 0 .. n.count - 2
  <2> QED BY ONLY <1>1, <1>2, <2>1
<1> QED BY ONLY <1>3, <1>4, <1>5 DEF K, ClosedKeys

\* A key goes from a leaf.
LEMMA LeafClose ==
  ASSUME NEW h \in Nat, h = 0, NEW n, Sound(h, n), NEW i \in 0 .. n.count - 1
  PROVE  /\ Sound(h, Node(Closed(n, i), n.count - 1, NoKids))
         /\ KeysOf[h][Node(Closed(n, i), n.count - 1, NoKids)] = KeysOf[h][n] \ {n.keys[i]}
<1> DEFINE S == KeySets(h, n.kids)
           R == KeySets(h, NoKids)
           K == Closed(n, i)
           c == n.count - 1
           N == {}
<1>1. /\ n.keys \in [Places -> Keys \cup {NoKey}] /\ n.count \in 0 .. Full /\ n.count \in Nat
      /\ Row(n.keys, n.count, S) /\ KeysOf[h][n] = RowKeys(n.keys, n.count, S) /\ KeysOf[h][n] \subseteq Keys
  <2>1. /\ n.keys \in [Places -> Keys \cup {NoKey}] /\ n.count \in 0 .. Full
        /\ Row(n.keys, n.count, S) /\ KeysOf[h][n] = RowKeys(n.keys, n.count, S)
    BY ONLY h \in Nat, Sound(h, n), SoundHas
  <2>2. KeysOf[h][n] \subseteq Keys
    BY DEF Sound
  <2> QED BY ONLY <2>1, <2>2, DegreeFacts
<1>2. /\ c \in 0 .. Full /\ i \in Places /\ i + 1 \in Places /\ \A q \in 0 .. c : q \in Places /\ q + 1 \in Places
  BY ONLY <1>1, i \in 0 .. n.count - 1, DegreeFacts, SMTT(30)
<1>3. K \in [Places -> Keys \cup {NoKey}] /\ ClosedKeys(K, n.keys, n.count, i)
  BY ONLY <1>1, i \in 0 .. n.count - 1, ClosedIs
<1>4. (\A q \in Places : S[q] = {}) /\ (\A q \in Places : R[q] = {})
  BY ONLY h = 0, LeafSets
<1>5. ClosedSets(R, S, n.count, i, N)
  <2>1. \A q \in 0 .. n.count - 1 : R[q] = {} /\ S[q] = {} /\ S[q + 1] = {}
    BY ONLY <1>2, <1>4
  <2> QED BY ONLY <2>1 DEF ClosedSets
<1>6. \A k \in N : InWindow(n.keys, n.count, i, k)
  OBVIOUS
<1>7. /\ Row(K, n.count - 1, R)
      /\ RowKeys(K, n.count - 1, R) = (RowKeys(n.keys, n.count, S) \ (S[i] \cup {n.keys[i]} \cup S[i + 1])) \cup N
  <2>1. n.count \in Nat /\ Row(n.keys, n.count, S) /\ ClosedKeys(K, n.keys, n.count, i)
    BY ONLY <1>1, <1>3
  <2> DEFINE d == n.count
             M == N
  <2> HIDE DEF S, R, K, d, M
  <2>2. /\ d \in Nat /\ i \in 0 .. d - 1 /\ Row(n.keys, d, S) /\ ClosedKeys(K, n.keys, d, i)
        /\ ClosedSets(R, S, d, i, M)
    BY ONLY <2>1, <1>5, i \in 0 .. n.count - 1, Zenon DEF d, M
  <2>3. Windowed(n.keys, d, i, M)
    BY ONLY <1>6, Zenon DEF d, M, Windowed
  <2>4. /\ Row(K, d - 1, R)
        /\ RowKeys(K, d - 1, R) = (RowKeys(n.keys, d, S) \ (S[i] \cup {n.keys[i]} \cup S[i + 1])) \cup M
    BY ONLY <2>2, <2>3, RowClose
  <2> QED BY ONLY <2>4, Zenon DEF d, M
<1>8. RowKeys(K, c, R) = KeysOf[h][n] \ {n.keys[i]}
  BY ONLY <1>1, <1>2, <1>4, <1>7
<1>9. RowKeys(K, c, R) \subseteq Keys /\ Row(K, c, R)
  BY ONLY <1>1, <1>7, <1>8
<1>10. Sound(h, Node(K, c, NoKids)) /\ KeysOf[h][Node(K, c, NoKids)] = RowKeys(K, c, R)
  <2>1. HasKids(h, c, NoKids) /\ NoKids \in [Places -> {NoNode} \cup IF h = 0 THEN {} ELSE Trees[h - 1]]
    BY ONLY h = 0, LeafKids
  <2> HIDE DEF K, c
  <2> QED BY ONLY <1>2, <1>3, <1>9, <2>1, h \in Nat, SoundNode
<1> QED BY ONLY <1>8, <1>10

----------------------------------------------------------------------------
(* Insertion into a node that is not full.                                  *)

\* A key that stands in a gap is in the subtree there or nowhere.
LEMMA SoundPlace ==
  ASSUME NEW h \in Nat, h # 0, NEW n, Sound(h, n), NEW i \in 0 .. n.count, NEW k \in Int,
         Between(n.keys, n.count, i, k)
  PROVE  k \in KeysOf[h][n] <=> k \in KeysOf[h - 1][n.kids[i]]
<1> DEFINE S == KeySets(h, n.kids)
<1>1. /\ n.count \in 0 .. Full /\ HasKids(h, n.count, n.kids) /\ Row(n.keys, n.count, S)
      /\ KeysOf[h][n] = RowKeys(n.keys, n.count, S)
  BY ONLY h \in Nat, Sound(h, n), SoundHas
<1>2. n.count \in Nat
  BY ONLY <1>1, DegreeFacts
<1>3. S[i] = KeysOf[h - 1][n.kids[i]]
  BY ONLY <1>1, h \in Nat, h # 0, i \in 0 .. n.count, InnerSets
<1> HIDE DEF S
<1>4. k \in RowKeys(n.keys, n.count, S) <=> k \in S[i]
  BY ONLY <1>1, <1>2, i \in 0 .. n.count, k \in Int, Between(n.keys, n.count, i, k), RowPlace
<1> QED BY ONLY <1>1, <1>3, <1>4

\* What an insertion makes of node x: it has the key more or nothing has
\* changed but for splits.
Grown(h, x, key, r) ==
  /\ Sound(h, r.node) /\ r.node.count \in x.count .. x.count + 1
  /\ KeysOf[h][r.node] = KeysOf[h][x] \cup IF r.ok THEN {key} ELSE {}

InsertsAt(h) ==
  \A x : \A key \in Keys, mem \in Nat :
    Sound(h, x) /\ x.count < Full /\ key \notin KeysOf[h][x] => Grown(h, x, key, InsertNonfull[h][x][key][mem])

\* The subtree at the gap of the key grows.
LEMMA KidGrows ==
  ASSUME NEW h \in Nat, h # 0, NEW y, Sound(h, y), NEW i \in 0 .. y.count, NEW key \in Keys,
         Between(y.keys, y.count, i, key), y.kids[i].count < Full,
         NEW r, Grown(h - 1, y.kids[i], key, r)
  PROVE  Grown(h, y, key, [node |-> SetKid(y, i, r.node), ok |-> r.ok])
         /\ SetKid(y, i, r.node).count = y.count
<1> DEFINE g == h - 1
           kid == y.kids[i]
           z == SetKid(y, i, r.node)
           X == IF r.ok THEN {key} ELSE {}
<1>1. y.count \in 0 .. Full /\ HasKids(h, y.count, y.kids) /\ Row(y.keys, y.count, KeySets(h, y.kids))
  BY ONLY h \in Nat, Sound(h, y), SoundHas
<1>2. IsSubtree(g, kid) /\ KeySets(h, y.kids)[i] = KeysOf[g][kid]
  BY ONLY <1>1, h \in Nat, h # 0, i \in 0 .. y.count, InnerSets
<1>3. KeysOf[g][kid] \subseteq KeysOf[h][y]
  BY ONLY <1>2, h \in Nat, Sound(h, y), i \in 0 .. y.count, SoundKeys
<1>4. Sound(g, r.node) /\ r.node.count \in kid.count .. kid.count + 1 /\ KeysOf[g][r.node] = KeysOf[g][kid] \cup X
  BY DEF Grown
<1>5. r.node.count \in T - 1 .. Full
  <2>1. kid.count \in T - 1 .. Full
    BY ONLY <1>2 DEF IsSubtree
  <2> QED BY ONLY <1>4, <2>1, y.kids[i].count < Full, DegreeFacts
<1>6. IsSubtree(g, r.node)
  BY ONLY <1>4, <1>5 DEF IsSubtree
<1>7. \A k \in KeysOf[g][kid] : Between(y.keys, y.count, i, k)
  BY ONLY <1>1, <1>2, i \in 0 .. y.count DEF Row
<1>8. \A k \in KeysOf[g][r.node] : Between(y.keys, y.count, i, k)
  BY ONLY <1>4, <1>7, Between(y.keys, y.count, i, key)
<1>9. Sound(h, z) /\ z.count = y.count /\ KeysOf[h][z] = (KeysOf[h][y] \ KeysOf[g][kid]) \cup KeysOf[g][r.node]
  BY ONLY <1>6, <1>8, h \in Nat, h # 0, Sound(h, y), i \in 0 .. y.count, SoundSetKid
<1>10. KeysOf[h][z] = KeysOf[h][y] \cup X
  BY ONLY <1>3, <1>4, <1>9
<1> HIDE DEF z
<1>11. y.count \in y.count .. y.count + 1
  BY ONLY <1>1, DegreeFacts
<1> QED BY ONLY <1>9, <1>10, <1>11 DEF Grown, z

\* btree_insert_nonfull at a node above the leaves.
LEMMA InsertInner ==
  ASSUME NEW h \in Nat, h # 0, InsertsAt(h - 1), NEW x, Sound(h, x), x.count < Full,
         NEW key \in Keys, key \notin KeysOf[h][x], NEW mem \in Nat
  PROVE  Grown(h, x, key, InsertAt(InsertNonfull[h - 1], x, key, mem))
<1> DEFINE g == h - 1
           v == InsertNonfull[h - 1]
           i == NotGreater(x, key)
           r == InsertAt(v, x, key, mem)
<1> SUFFICES Grown(h, x, key, r)
  OBVIOUS
<1> HIDE DEF r
<1>1. /\ x.count \in 0 .. Full /\ HasKids(h, x.count, x.kids) /\ Row(x.keys, x.count, KeySets(h, x.kids))
      /\ KeysOf[h][x] = RowKeys(x.keys, x.count, KeySets(h, x.kids))
  BY ONLY h \in Nat, Sound(h, x), SoundHas
<1>2. x.count \in Nat /\ key \in Int
  BY ONLY <1>1, key \in Keys, DegreeFacts
<1>3. key \notin OwnKeys(x)
  BY ONLY <1>1, key \notin KeysOf[h][x] DEF OwnKeys, RowKeys
<1>4. i \in 0 .. x.count /\ Between(x.keys, x.count, i, key)
  BY ONLY <1>1, <1>2, <1>3, NotGreaterIs
<1>5. ~IsLeaf(x)
  BY LeafIs
<1>6. IsSubtree(g, x.kids[i])
  BY ONLY <1>1, <1>4, h \in Nat, h # 0, InnerSets
<1>7. key \notin KeysOf[g][x.kids[i]]
  BY ONLY <1>2, <1>4, h \in Nat, h # 0, Sound(h, x), key \notin KeysOf[h][x], SoundPlace
<1>8. CASE ~NeedsSplit(x.kids[i])
  <2>1. x.kids[i].count < Full
    BY ONLY <1>6, <1>8, DegreeFacts DEF IsSubtree, NeedsSplit
  <2> DEFINE s == v[x.kids[i]][key][mem]
  <2>2. r = [node |-> SetKid(x, i, s.node), ok |-> s.ok]
    BY ONLY <1>5, <1>8 DEF InsertAt, r
  <2>3. Grown(g, x.kids[i], key, s)
    BY ONLY <1>6, <1>7, <2>1, InsertsAt(h - 1), key \in Keys, mem \in Nat DEF InsertsAt, IsSubtree
  <2> HIDE DEF s, i
  <2> QED BY ONLY <1>4, <2>1, <2>2, <2>3, h \in Nat, h # 0, Sound(h, x), key \in Keys, KidGrows
<1>9. CASE NeedsSplit(x.kids[i]) /\ mem = 0
  <2>1. r = [node |-> x, ok |-> FALSE]
    BY ONLY <1>5, <1>9 DEF InsertAt, r
  <2> QED BY ONLY <1>2, <2>1, Sound(h, x) DEF Grown
<1>10. CASE NeedsSplit(x.kids[i]) /\ mem # 0
  <2> DEFINE y == SplitChild(x, i)
             j == IF y.keys[i] < key THEN i + 1 ELSE i
             s == v[y.kids[j]][key][mem - 1]
  <2>1. x.kids[i].count = Full
    BY ONLY <1>10 DEF NeedsSplit
  <2>2. r = [node |-> SetKid(y, j, s.node), ok |-> s.ok]
    BY ONLY <1>5, <1>10 DEF InsertAt, r
  <2> HIDE DEF i, y
  <2>3. /\ Sound(h, y) /\ y.count = x.count + 1 /\ KeysOf[h][y] = KeysOf[h][x]
        /\ y.keys[i] \in KeysOf[h][x]
        /\ y.kids[i].count = T - 1 /\ y.kids[i + 1].count = T - 1
        /\ \A k \in Int : Between(x.keys, x.count, i, k) =>
             /\ k < y.keys[i] => Between(y.keys, y.count, i, k)
             /\ y.keys[i] < k => Between(y.keys, y.count, i + 1, k)
    BY ONLY <1>4, <2>1, h \in Nat, h # 0, Sound(h, x), x.count < Full, SplitKeeps DEF y
  <2>4. y.keys[i] \in Int /\ y.keys[i] # key
    <3>1. KeysOf[h][x] \subseteq Keys
      BY DEF Sound
    <3> QED BY ONLY <2>3, <3>1, key \notin KeysOf[h][x], DegreeFacts
  <2>5. j \in 0 .. y.count /\ y.kids[j].count < Full /\ y.count \in x.count .. x.count + 1
    <3>1. j = i \/ j = i + 1
      OBVIOUS
    <3> HIDE DEF j
    <3> QED BY ONLY <1>2, <1>4, <2>3, <3>1, DegreeFacts
  <2>6. Between(y.keys, y.count, j, key)
    <3>1. CASE y.keys[i] < key
      BY ONLY <1>2, <1>4, <2>3, <3>1
    <3>2. CASE ~(y.keys[i] < key)
      <4>1. key < y.keys[i] /\ j = i
        BY ONLY <1>2, <2>4, <3>2
      <4> QED BY ONLY <1>2, <1>4, <2>3, <4>1
    <3> QED BY ONLY <3>1, <3>2
  <2> HIDE DEF j
  <2>7. Sound(g, y.kids[j])
    <3>1. y.count \in 0 .. Full /\ HasKids(h, y.count, y.kids)
      BY ONLY <2>3, h \in Nat, SoundHas
    <3>2. IsSubtree(g, y.kids[j])
      BY ONLY <2>5, <3>1, h \in Nat, h # 0, InnerSets
    <3> QED BY ONLY <3>2 DEF IsSubtree
  <2>8. key \notin KeysOf[g][y.kids[j]]
    BY ONLY <1>2, <2>3, <2>5, <2>6, h \in Nat, h # 0, key \notin KeysOf[h][x], SoundPlace
  <2>9. mem - 1 \in Nat
    BY ONLY <1>10, mem \in Nat
  <2>10. Grown(g, y.kids[j], key, s)
    BY ONLY <2>5, <2>7, <2>8, <2>9, InsertsAt(h - 1), key \in Keys DEF InsertsAt
  <2> HIDE DEF s
  <2>11. Grown(h, y, key, r) /\ r.node.count = y.count
    BY ONLY <2>2, <2>3, <2>5, <2>6, <2>10, h \in Nat, h # 0, key \in Keys, KidGrows
  <2> QED BY ONLY <2>3, <2>5, <2>11 DEF Grown
<1> QED BY ONLY <1>8, <1>9, <1>10

\* btree_insert_nonfull keeps the tree sound and its keys, and adds the key if
\* it says so.
LEMMA InsertKeeps == \A h \in Nat : InsertsAt(h)
<1> DEFINE Good == {h \in Nat : InsertsAt(h)}
<1>1. ASSUME NEW h \in Nat, NEW x, NEW key \in Keys, NEW mem \in Nat, Sound(h, x)
      PROVE  InsertNonfull[h][x][key][mem] = InsertAt(InsertNonfull[h - 1], x, key, mem)
  <2>1. x \in Trees[h]
    BY <1>1 DEF Sound
  <2>2. InsertNonfull[h] = InsertNonfullStep(InsertNonfull[h - 1], h)
    BY InsertNonfullDef
  <2> QED BY ONLY <2>1, <2>2, key \in Keys, mem \in Nat DEF InsertNonfullStep
<1>2. ASSUME NEW h \in Nat, h = 0 PROVE InsertsAt(h)
  <2> SUFFICES ASSUME NEW x, NEW key \in Keys, NEW mem \in Nat, Sound(h, x), x.count < Full,
                      key \notin KeysOf[h][x]
               PROVE  Grown(h, x, key, InsertNonfull[h][x][key][mem])
    BY DEF InsertsAt
  <2> DEFINE i == NotGreater(x, key)
  <2>1. /\ x.count \in 0 .. Full /\ Row(x.keys, x.count, KeySets(h, x.kids))
        /\ KeysOf[h][x] = RowKeys(x.keys, x.count, KeySets(h, x.kids))
    BY ONLY h \in Nat, Sound(h, x), SoundHas
  <2>2. x.count \in Nat /\ key \in Int
    BY ONLY <2>1, key \in Keys, DegreeFacts
  <2>3. key \notin OwnKeys(x)
    BY ONLY <2>1, key \notin KeysOf[h][x] DEF OwnKeys, RowKeys
  <2>4. i \in 0 .. x.count /\ Between(x.keys, x.count, i, key)
    BY ONLY <2>1, <2>2, <2>3, NotGreaterIs
  <2>5. IsLeaf(x)
    BY <1>2, LeafIs, Zenon
  <2>6. InsertNonfull[h][x][key][mem] = [node |-> Node(Opened(x, i, key), x.count + 1, NoKids), ok |-> TRUE]
    <3>1. InsertNonfull[h][x][key][mem] = InsertAt(InsertNonfull[h - 1], x, key, mem)
      BY ONLY <1>1, h \in Nat, key \in Keys, mem \in Nat, Sound(h, x)
    <3> QED BY ONLY <2>5, <3>1, Zenon DEF InsertAt
  <2> DEFINE z == Node(Opened(x, i, key), x.count + 1, NoKids)
  <2> HIDE DEF i
  <2>7. Sound(h, z) /\ KeysOf[h][z] = KeysOf[h][x] \cup {key}
    BY ONLY <1>2, <2>4, h \in Nat, Sound(h, x), x.count < Full, key \in Keys, LeafOpen
  <2>8. z.count = x.count + 1 /\ x.count + 1 \in x.count .. x.count + 1
    BY ONLY <2>2, NodeFields
  <2> HIDE DEF z
  <2> QED BY ONLY <2>6, <2>7, <2>8 DEF Grown, z
<1>3. 0 \in Good
  BY <1>2
<1>4. ASSUME NEW m \in Good PROVE m + 1 \in Good
  <2> DEFINE h == m + 1
  <2>1. h \in Nat /\ h # 0 /\ h - 1 = m /\ InsertsAt(m)
    BY <1>4
  <2> HIDE DEF h
  <2>2. InsertsAt(h)
    <3> SUFFICES ASSUME NEW x, NEW key \in Keys, NEW mem \in Nat, Sound(h, x), x.count < Full,
                        key \notin KeysOf[h][x]
                 PROVE  Grown(h, x, key, InsertNonfull[h][x][key][mem])
      BY DEF InsertsAt
    <3>1. Grown(h, x, key, InsertAt(InsertNonfull[h - 1], x, key, mem))
      BY <2>1, InsertInner
    <3> QED BY <1>1, <2>1, <3>1
  <2> QED BY <2>1, <2>2 DEF h
<1>5. Good = Nat
  <2> HIDE DEF Good
  <2>1. Good \in SUBSET Nat
    BY DEF Good
  <2> QED BY <1>3, <1>4, <2>1, NatInductionOnSets
<1> QED BY <1>5

----------------------------------------------------------------------------
(* The greatest and the smallest key of a subtree.                          *)

IsGreatest(m, A) == m \in A /\ \A k \in A : k <= m

IsLeast(m, A) == m \in A /\ \A k \in A : m <= k

\* The greatest key of the last set, or the last key if the sets are empty, is
\* the greatest of the row; so for the first.
LEMMA RowEnds ==
  ASSUME NEW c \in Nat, NEW K, NEW S, Row(K, c, S), NEW m
  PROVE  /\ IsGreatest(m, S[c]) => IsGreatest(m, RowKeys(K, c, S))
         /\ IsLeast(m, S[0]) => IsLeast(m, RowKeys(K, c, S))
         /\ c # 0 /\ (\A q \in 0 .. c : S[q] = {}) /\ m = K[c - 1] => IsGreatest(m, RowKeys(K, c, S))
         /\ c # 0 /\ (\A q \in 0 .. c : S[q] = {}) /\ m = K[0] => IsLeast(m, RowKeys(K, c, S))
<1>1. \A k : k \in RowKeys(K, c, S) <=> InRow(K, c, S, k)
  BY RowKeysAre
<1>2. ASSUME IsGreatest(m, S[c]) PROVE IsGreatest(m, RowKeys(K, c, S))
  <2>1. m \in S[c] /\ m \in Int /\ \A p \in 0 .. c - 1 : K[p] < m
    BY <1>2 DEF IsGreatest, Row, Between
  <2>2. ASSUME NEW q \in 0 .. c, NEW k \in S[q] PROVE k <= m
    <3>1. CASE q = c
      BY <1>2, <2>2, <3>1 DEF IsGreatest
    <3>2. CASE q # c
      <4>1. q \in 0 .. c - 1 /\ ~(q < q)
        BY <3>2
      <4>2. k \in Int /\ k < K[q] /\ K[q] \in Int
        BY <2>2, <4>1 DEF Row, Between
      <4> QED BY <2>1, <4>1, <4>2
    <3> QED BY <3>1, <3>2
  <2>3. \A p \in 0 .. c - 1 : K[p] \in Int
    BY DEF Row
  <2> QED BY <1>1, <2>1, <2>2, <2>3 DEF InRow, IsGreatest
<1>3. ASSUME IsLeast(m, S[0]) PROVE IsLeast(m, RowKeys(K, c, S))
  <2>0. 0 \in 0 .. c /\ \A p \in 0 .. c - 1 : ~(p < 0)
    OBVIOUS
  <2>1. m \in S[0] /\ m \in Int /\ \A p \in 0 .. c - 1 : m < K[p]
    BY <1>3, <2>0 DEF IsLeast, Row, Between
  <2>2. ASSUME NEW q \in 0 .. c, NEW k \in S[q] PROVE m <= k
    <3>1. CASE q = 0
      BY <1>3, <2>2, <3>1 DEF IsLeast
    <3>2. CASE q # 0
      <4>1. q - 1 \in 0 .. c - 1 /\ q - 1 < q
        BY <3>2
      <4>2. k \in Int /\ K[q - 1] < k /\ K[q - 1] \in Int
        BY <2>2, <4>1 DEF Row, Between
      <4> QED BY <2>1, <4>1, <4>2
    <3> QED BY <3>1, <3>2
  <2>3. \A p \in 0 .. c - 1 : K[p] \in Int
    BY DEF Row
  <2> QED BY <1>1, <2>0, <2>1, <2>2, <2>3 DEF InRow, IsLeast
<1>4. ASSUME c # 0, \A q \in 0 .. c : S[q] = {}, m = K[c - 1] PROVE IsGreatest(m, RowKeys(K, c, S))
  <2>1. c - 1 \in 0 .. c - 1 /\ m \in Int
    BY <1>4 DEF Row
  <2>2. \A p \in 0 .. c - 1 : K[p] \in Int /\ (p = c - 1 \/ K[p] < m)
    BY <1>4, <2>1 DEF Row
  <2> QED BY <1>1, <1>4, <2>1, <2>2 DEF InRow, IsGreatest
<1>5. ASSUME c # 0, \A q \in 0 .. c : S[q] = {}, m = K[0] PROVE IsLeast(m, RowKeys(K, c, S))
  <2>1. 0 \in 0 .. c - 1 /\ m \in Int
    BY <1>5 DEF Row
  <2>2. \A p \in 0 .. c - 1 : K[p] \in Int /\ (p = 0 \/ m < K[p])
    BY <1>5, <2>1 DEF Row
  <2> QED BY <1>1, <1>5, <2>1, <2>2 DEF InRow, IsLeast
<1> QED BY <1>2, <1>3, <1>4, <1>5

EndsAt(h) ==
  \A n : Sound(h, n) /\ n.count # 0 =>
    /\ IsGreatest(Rightmost[h][n], KeysOf[h][n])
    /\ IsLeast(Leftmost[h][n], KeysOf[h][n])

LEMMA EndsInner ==
  ASSUME NEW h \in Nat, h # 0, EndsAt(h - 1), NEW n, Sound(h, n)
  PROVE  /\ IsGreatest(Rightmost[h - 1][n.kids[n.count]], KeysOf[h][n])
         /\ IsLeast(Leftmost[h - 1][n.kids[0]], KeysOf[h][n])
<1> DEFINE g == h - 1
           S == KeySets(h, n.kids)
<1>1. /\ n.count \in 0 .. Full /\ HasKids(h, n.count, n.kids) /\ Row(n.keys, n.count, S)
      /\ KeysOf[h][n] = RowKeys(n.keys, n.count, S)
  BY ONLY h \in Nat, Sound(h, n), SoundHas
<1>2. n.count \in Nat /\ n.count \in 0 .. n.count /\ 0 \in 0 .. n.count
  BY ONLY <1>1, DegreeFacts
<1>3. \A q \in 0 .. n.count : IsSubtree(g, n.kids[q]) /\ S[q] = KeysOf[g][n.kids[q]]
  BY ONLY <1>1, h \in Nat, h # 0, InnerSets
<1>4. ASSUME NEW q \in 0 .. n.count
      PROVE  IsGreatest(Rightmost[g][n.kids[q]], S[q]) /\ IsLeast(Leftmost[g][n.kids[q]], S[q])
  <2>1. Sound(g, n.kids[q]) /\ n.kids[q].count # 0
    BY ONLY <1>3, q \in 0 .. n.count, DegreeFacts DEF IsSubtree
  <2> QED BY ONLY <1>3, <2>1, q \in 0 .. n.count, EndsAt(h - 1) DEF EndsAt
<1> HIDE DEF S
<1> QED BY ONLY <1>1, <1>2, <1>4, RowEnds

\* btree_node_get_predecessor and btree_node_get_successor give the greatest and
\* the smallest key of the subtree.
LEMMA Ends == \A h \in Nat : EndsAt(h)
<1> DEFINE Good == {h \in Nat : EndsAt(h)}
<1>1. ASSUME NEW h \in Nat, NEW n, Sound(h, n)
      PROVE  /\ Rightmost[h][n] = IF h = 0 THEN n.keys[n.count - 1] ELSE Rightmost[h - 1][n.kids[n.count]]
             /\ Leftmost[h][n] = IF h = 0 THEN n.keys[0] ELSE Leftmost[h - 1][n.kids[0]]
  <2>1. n \in Trees[h]
    BY <1>1 DEF Sound
  <2>2. Rightmost[h] = RightmostStep(Rightmost[h - 1], h) /\ Leftmost[h] = LeftmostStep(Leftmost[h - 1], h)
    BY RightmostDef, LeftmostDef
  <2>3. IsLeaf(n) <=> h = 0
    BY <1>1, LeafIs
  <2> QED BY ONLY <2>1, <2>2, <2>3 DEF RightmostStep, LeftmostStep
<1>2. ASSUME NEW h \in Nat, h = 0 PROVE EndsAt(h)
  <2> SUFFICES ASSUME NEW n, Sound(h, n), n.count # 0
               PROVE  IsGreatest(Rightmost[h][n], KeysOf[h][n]) /\ IsLeast(Leftmost[h][n], KeysOf[h][n])
    BY DEF EndsAt
  <2> DEFINE S == KeySets(h, n.kids)
  <2>1. n.count \in 0 .. Full /\ Row(n.keys, n.count, S) /\ KeysOf[h][n] = RowKeys(n.keys, n.count, S)
    BY ONLY h \in Nat, Sound(h, n), SoundHas
  <2>2. n.count \in Nat /\ \A q \in 0 .. n.count : q \in Places
    BY ONLY <2>1, DegreeFacts
  <2>3. \A q \in 0 .. n.count : S[q] = {}
    BY ONLY <1>2, <2>2, LeafSets
  <2>4. Rightmost[h][n] = n.keys[n.count - 1] /\ Leftmost[h][n] = n.keys[0]
    BY <1>1, <1>2
  <2> HIDE DEF S
  <2> QED BY ONLY <2>1, <2>2, <2>3, <2>4, n.count # 0, RowEnds
<1>3. 0 \in Good
  BY <1>2
<1>4. ASSUME NEW m \in Good PROVE m + 1 \in Good
  <2> DEFINE h == m + 1
  <2>1. h \in Nat /\ h # 0 /\ h - 1 = m /\ EndsAt(m)
    BY <1>4
  <2> HIDE DEF h
  <2>2. EndsAt(h)
    <3> SUFFICES ASSUME NEW n, Sound(h, n)
                 PROVE  IsGreatest(Rightmost[h][n], KeysOf[h][n]) /\ IsLeast(Leftmost[h][n], KeysOf[h][n])
      BY DEF EndsAt
    <3>1. /\ IsGreatest(Rightmost[h - 1][n.kids[n.count]], KeysOf[h][n])
          /\ IsLeast(Leftmost[h - 1][n.kids[0]], KeysOf[h][n])
      BY <2>1, EndsInner
    <3> QED BY ONLY <1>1, <2>1, <3>1, Sound(h, n)
  <2> QED BY <2>1, <2>2 DEF h
<1>5. Good = Nat
  <2>1. Good \in SUBSET Nat
    OBVIOUS
  <2> HIDE DEF Good
  <2> QED BY <1>3, <1>4, <2>1, NatInductionOnSets
<1> QED BY <1>5

----------------------------------------------------------------------------
(* Neighbours that become one.                                              *)

\* What a node above the leaves has around key i.
LEMMA Neighbours ==
  ASSUME NEW h \in Nat, h # 0, NEW n, Sound(h, n), NEW i \in 0 .. n.count - 1
  PROVE  /\ n.keys \in [Places -> Keys \cup {NoKey}] /\ n.count \in Nat /\ n.count <= Full
         /\ n.kids \in [Places -> {NoNode} \cup IF h = 0 THEN {} ELSE Trees[h - 1]]
         /\ i \in Places /\ i + 1 \in Places /\ i \in Nat /\ i < n.count
         /\ IsSubtree(h - 1, n.kids[i]) /\ IsSubtree(h - 1, n.kids[i + 1])
         /\ n.keys[i] \in Keys /\ n.keys[i] \in KeysOf[h][n]
         /\ KeysOf[h - 1][n.kids[i]] \subseteq KeysOf[h][n] /\ KeysOf[h - 1][n.kids[i + 1]] \subseteq KeysOf[h][n]
         /\ \A k \in KeysOf[h - 1][n.kids[i]] \cup {n.keys[i]} \cup KeysOf[h - 1][n.kids[i + 1]] :
              InWindow(n.keys, n.count, i, k)
         /\ \A k \in KeysOf[h - 1][n.kids[i]] : k < n.keys[i]
         /\ \A k \in KeysOf[h - 1][n.kids[i + 1]] : n.keys[i] < k
<1> DEFINE S == KeySets(h, n.kids)
<1>1. /\ n.keys \in [Places -> Keys \cup {NoKey}] /\ n.count \in 0 .. Full
      /\ n.kids \in [Places -> {NoNode} \cup IF h = 0 THEN {} ELSE Trees[h - 1]]
      /\ HasKids(h, n.count, n.kids) /\ Row(n.keys, n.count, S)
  BY ONLY h \in Nat, Sound(h, n), SoundHas
<1>2. /\ n.count \in Nat /\ n.count <= Full /\ i \in Places /\ i + 1 \in Places /\ i \in Nat /\ i < n.count
      /\ i \in 0 .. n.count /\ i + 1 \in 0 .. n.count
  BY ONLY <1>1, i \in 0 .. n.count - 1, DegreeFacts, SMTT(30)
<1>3. \A q \in 0 .. n.count : IsSubtree(h - 1, n.kids[q]) /\ S[q] = KeysOf[h - 1][n.kids[q]]
  BY ONLY <1>1, h \in Nat, h # 0, InnerSets
<1>4. n.keys[i] \in Keys /\ n.keys[i] \in KeysOf[h][n] /\ \A q \in 0 .. n.count : S[q] \subseteq KeysOf[h][n]
  BY ONLY h \in Nat, Sound(h, n), i \in 0 .. n.count - 1, SoundKeys
<1> HIDE DEF S
<1>5. /\ \A k \in S[i] \cup {n.keys[i]} \cup S[i + 1] : InWindow(n.keys, n.count, i, k)
      /\ \A k \in S[i] : k < n.keys[i]
      /\ \A k \in S[i + 1] : n.keys[i] < k
  BY ONLY <1>1, <1>2, i \in 0 .. n.count - 1, RowWindow
<1>6. S[i] = KeysOf[h - 1][n.kids[i]] /\ S[i + 1] = KeysOf[h - 1][n.kids[i + 1]]
  BY ONLY <1>2, <1>3
<1>7. IsSubtree(h - 1, n.kids[i]) /\ IsSubtree(h - 1, n.kids[i + 1])
  BY ONLY <1>2, <1>3
<1>8. S[i] \subseteq KeysOf[h][n] /\ S[i + 1] \subseteq KeysOf[h][n]
  BY ONLY <1>2, <1>4
<1> QED BY ONLY <1>1, <1>2, <1>4, <1>5, <1>6, <1>7, <1>8

\* btree_node_merge: the two children and the key between them become one child
\* that is full.
LEMMA MergeKeeps ==
  ASSUME NEW h \in Nat, h # 0, NEW n, Sound(h, n), NEW i \in 0 .. n.count - 1,
         n.kids[i].count = T - 1, n.kids[i + 1].count = T - 1,
         NEW z, z = Merge(n, i)
  PROVE  /\ Sound(h, z) /\ z.count = n.count - 1 /\ KeysOf[h][z] = KeysOf[h][n]
         /\ z.kids[i].count = Full
         /\ \A k \in Int : InWindow(n.keys, n.count, i, k) => Between(z.keys, z.count, i, k)
<1> DEFINE g == h - 1
           t == T - 1
           x == n.kids[i]
           y == n.kids[i + 1]
           m == n.keys[i]
           L == [p \in Places |-> CASE p = T - 1 -> m
                                    [] p >= T /\ p < T + y.count -> y.keys[p - T]
                                    [] OTHER -> x.keys[p]]
           C == [q \in Places |-> IF q < T THEN x.kids[q] ELSE y.kids[q - T]]
           w == Node(L, x.count + y.count + 1, C)
<1>1. /\ n.keys \in [Places -> Keys \cup {NoKey}] /\ n.count \in Nat /\ n.count <= Full
      /\ i \in Places /\ i + 1 \in Places /\ i \in Nat /\ i < n.count
      /\ IsSubtree(g, x) /\ IsSubtree(g, y) /\ m \in Keys /\ m \in KeysOf[h][n]
      /\ KeysOf[g][x] \subseteq KeysOf[h][n] /\ KeysOf[g][y] \subseteq KeysOf[h][n]
      /\ \A k \in KeysOf[g][x] \cup {m} \cup KeysOf[g][y] : InWindow(n.keys, n.count, i, k)
      /\ \A k \in KeysOf[g][x] : k < m
      /\ \A k \in KeysOf[g][y] : m < k
  BY ONLY h \in Nat, h # 0, Sound(h, n), i \in 0 .. n.count - 1, Neighbours
<1>2. g \in Nat /\ Sound(g, x) /\ Sound(g, y) /\ x.count = t /\ y.count = t
  BY ONLY <1>1, h \in Nat, h # 0, n.kids[i].count = T - 1, n.kids[i + 1].count = T - 1 DEF IsSubtree
<1>3. /\ x.keys \in [Places -> Keys \cup {NoKey}] /\ y.keys \in [Places -> Keys \cup {NoKey}]
  BY ONLY <1>2, SoundHas
<1> HIDE DEF x, y, m, g
<1>4. t \in Nat /\ t + t + 1 = Full /\ t + t < Full /\ T = t + 1 /\ t >= 1
  BY ONLY DegreeFacts
<1>5. L \in [Places -> Keys \cup {NoKey}]
  <2>1. \A p \in Places : p >= T /\ p < T + y.count => p - T \in Places
    BY ONLY <1>2, <1>4, DegreeFacts
  <2>2. \A p \in Places : L[p] \in Keys \cup {NoKey}
    BY ONLY <1>1, <1>3, <2>1
  <2> QED BY ONLY <2>2
<1>6. JoinedKeys(L, x.keys, x.count, m, y.keys, y.count)
  <2>1. ASSUME NEW p \in 0 .. t + t
        PROVE  L[p] = IF p < t THEN x.keys[p] ELSE IF p = t THEN m ELSE y.keys[p - t - 1]
    <3>1. p \in Places /\ p \in Int /\ (p >= T <=> p > t) /\ (p > t => p < T + y.count /\ p - T = p - t - 1)
      BY ONLY <1>2, <1>4, p \in 0 .. t + t, DegreeFacts
    <3> QED BY ONLY <1>4, <3>1
  <2> HIDE DEF L, t
  <2> QED BY ONLY <1>2, <2>1 DEF JoinedKeys
<1>7. C = JoinedKids(x.kids, x.count, y.kids, y.count)
  <2>1. \A q \in Places : (q < T <=> q <= t) /\ q <= t + t + 1 /\ q - T = q - t - 1
    BY ONLY <1>4, DegreeFacts
  <2> QED BY ONLY <1>2, <2>1 DEF JoinedKids
<1> HIDE DEF L, C, t
<1>8. x.count + y.count < Full /\ x.count + y.count + 1 = Full
  BY ONLY <1>2, <1>4
<1>9. Sound(g, w) /\ KeysOf[g][w] = KeysOf[g][x] \cup {m} \cup KeysOf[g][y]
  BY ONLY <1>1, <1>2, <1>5, <1>6, <1>7, <1>8, SoundJoin
<1>10. w.count = Full
  BY ONLY <1>8, NodeFields
<1> HIDE DEF w
<1>11. IsSubtree(g, w)
  <2>1. Full \in T - 1 .. Full
    BY ONLY DegreeFacts
  <2> QED BY ONLY <1>9, <1>10, <2>1 DEF IsSubtree
<1>12. \A k \in KeysOf[g][w] : InWindow(n.keys, n.count, i, k)
  BY ONLY <1>1, <1>9
<1>13. z = WithoutGap(n, i, w)
  BY DEF Merge, MergedKeys, w, L, C, x, y, m
<1>14. /\ Sound(h, z) /\ z.count = n.count - 1 /\ z.kids[i] = w
       /\ KeysOf[h][z] = (KeysOf[h][n] \ (KeysOf[g][x] \cup {m} \cup KeysOf[g][y])) \cup KeysOf[g][w]
       /\ \A p \in 0 .. n.count - 2 : z.keys[p] = IF p < i THEN n.keys[p] ELSE n.keys[p + 1]
  BY ONLY <1>11, <1>12, <1>13, h \in Nat, h # 0, Sound(h, n), i \in 0 .. n.count - 1, SoundClose DEF g, x, y, m
<1>15. KeysOf[h][z] = KeysOf[h][n]
  BY ONLY <1>1, <1>9, <1>14
<1>16. ASSUME NEW k \in Int, InWindow(n.keys, n.count, i, k) PROVE Between(z.keys, z.count, i, k)
  <2>1. \A p \in 0 .. n.count - 1 : (p < i => n.keys[p] < k) /\ (i < p => k < n.keys[p])
    BY ONLY <1>16 DEF InWindow
  <2>2. \A p \in 0 .. n.count - 2 : IF p < i THEN z.keys[p] < k ELSE k < z.keys[p]
    BY ONLY <1>1, <1>14, <2>1
  <2>3. z.count - 1 = n.count - 2
    BY ONLY <1>1, <1>14
  <2> QED BY ONLY <2>2, <2>3 DEF Between
<1> QED BY ONLY <1>10, <1>14, <1>15, <1>16

----------------------------------------------------------------------------
(* Neighbours that share their keys out anew.                               *)

\* Two neighbours and the key between them have the keys they had before.
LEMMA SoundTrade ==
  ASSUME NEW h \in Nat, h # 0, NEW n, Sound(h, n), NEW i \in 0 .. n.count - 1,
         NEW a, IsSubtree(h - 1, a), NEW m \in Keys, NEW b, IsSubtree(h - 1, b),
         KeysOf[h - 1][a] \cup {m} \cup KeysOf[h - 1][b] =
           KeysOf[h - 1][n.kids[i]] \cup {n.keys[i]} \cup KeysOf[h - 1][n.kids[i + 1]],
         \A k \in KeysOf[h - 1][a] : k < m,
         \A k \in KeysOf[h - 1][b] : m < k,
         NEW K, K = [n.keys EXCEPT ![i] = m],
         NEW C, C = [n.kids EXCEPT ![i] = a, ![i + 1] = b],
         NEW z, z = Node(K, n.count, C)
  PROVE  /\ Sound(h, z) /\ z.count = n.count /\ KeysOf[h][z] = KeysOf[h][n]
         /\ z.kids[i] = a /\ z.kids[i + 1] = b
         /\ \A k \in Int : /\ k < m /\ Between(n.keys, n.count, i, k) => Between(z.keys, z.count, i, k)
                           /\ m < k /\ Between(n.keys, n.count, i + 1, k) => Between(z.keys, z.count, i + 1, k)
<1> DEFINE g == h - 1
           W == KeysOf[g][n.kids[i]] \cup {n.keys[i]} \cup KeysOf[g][n.kids[i + 1]]
<1>1. /\ n.keys \in [Places -> Keys \cup {NoKey}] /\ n.count \in Nat /\ n.count <= Full
      /\ n.kids \in [Places -> {NoNode} \cup IF h = 0 THEN {} ELSE Trees[h - 1]]
      /\ i \in Places /\ i + 1 \in Places /\ i \in Nat /\ i < n.count
      /\ n.keys[i] \in KeysOf[h][n]
      /\ KeysOf[g][n.kids[i]] \subseteq KeysOf[h][n] /\ KeysOf[g][n.kids[i + 1]] \subseteq KeysOf[h][n]
      /\ \A k \in W : InWindow(n.keys, n.count, i, k)
  BY ONLY h \in Nat, h # 0, Sound(h, n), i \in 0 .. n.count - 1, Neighbours
<1>2. W \subseteq KeysOf[h][n]
  BY ONLY <1>1
<1>3. KeysOf[g][a] \cup {m} \cup KeysOf[g][b] = W
  OBVIOUS
<1>4. \A k \in KeysOf[g][a] \cup {m} \cup KeysOf[g][b] : InWindow(n.keys, n.count, i, k)
  <2> HIDE DEF W
  <2> QED BY ONLY <1>1, <1>3
<1>5. Sound(h, z) /\ KeysOf[h][z] = (KeysOf[h][n] \ W) \cup KeysOf[g][a] \cup {m} \cup KeysOf[g][b]
  BY <1>4, SoundShift, SMTT(30)
<1>6. KeysOf[h][z] = KeysOf[h][n]
  <2> HIDE DEF W
  <2> QED BY ONLY <1>2, <1>3, <1>5
<1>7. z.count = n.count /\ z.keys = K /\ z.kids = C
  BY ONLY z = Node(K, n.count, C), NodeFields
<1>8. z.kids[i] = a /\ z.kids[i + 1] = b
  BY ONLY <1>1, <1>7, C = [n.kids EXCEPT ![i] = a, ![i + 1] = b]
<1>9. \A p \in 0 .. n.count - 1 : z.keys[p] = IF p = i THEN m ELSE n.keys[p]
  <2>1. \A p \in 0 .. n.count - 1 : p \in Places
    BY ONLY <1>1, DegreeFacts
  <2> QED BY ONLY <1>1, <1>7, <2>1, K = [n.keys EXCEPT ![i] = m]
<1>10. ASSUME NEW k \in Int, k < m, Between(n.keys, n.count, i, k) PROVE Between(z.keys, z.count, i, k)
  BY ONLY <1>1, <1>7, <1>9, <1>10 DEF Between
<1>11. ASSUME NEW k \in Int, m < k, Between(n.keys, n.count, i + 1, k) PROVE Between(z.keys, z.count, i + 1, k)
  BY ONLY <1>1, <1>7, <1>9, <1>11 DEF Between
<1> QED BY ONLY <1>5, <1>6, <1>7, <1>8, <1>10, <1>11

\* The last subtree of a node, as a node without keys.
LEMMA LastPart ==
  ASSUME NEW h \in Nat, NEW n, Sound(h, n), n.count # 0,
         NEW L \in [Places -> Keys \cup {NoKey}],
         NEW C, C = [q \in Places |-> IF q = 0 THEN n.kids[n.count] ELSE NoNode]
  PROVE  /\ Sound(h, Node(L, 0, C))
         /\ \A k : k \in KeysOf[h][Node(L, 0, C)] <=> k \in KeysOf[h][n] /\ n.keys[n.count - 1] < k
<1>1. n.count \in Nat /\ n.count <= n.count /\ (n.count > 0) = TRUE /\ (n.count < n.count) = FALSE
  <2>1. n.count \in 0 .. Full
    BY SoundHas
  <2> QED BY ONLY <2>1, n.count # 0, DegreeFacts
<1>2. PICK d \in Nat : d = 0
  OBVIOUS
<1>3. Sliced(L, n.keys, n.count, d)
  BY <1>2 DEF Sliced
<1>4. C = SlicedKids(n.kids, n.count, d)
  <2>1. \A q \in Places : (q <= d <=> q = 0) /\ 0 + n.count = n.count
    BY ONLY <1>1, <1>2, DegreeFacts
  <2> QED BY ONLY <2>1, C = [q \in Places |-> IF q = 0 THEN n.kids[n.count] ELSE NoNode] DEF SlicedKids
<1>5. IsSlice(n, n.count, d, n.count, L, C)
  BY ONLY <1>1, <1>2, <1>3, <1>4, L \in [Places -> Keys \cup {NoKey}] DEF IsSlice
<1>6. Sound(h, Node(L, d, C)) /\ HasSlice(h, Node(L, d, C), n, n.count, n.count)
  BY ONLY h \in Nat, Sound(h, n), <1>5, SoundSlice
<1> QED BY ONLY <1>1, <1>2, <1>6 DEF HasSlice

\* The first subtree of a node, as a node without keys.
LEMMA FirstPart ==
  ASSUME NEW h \in Nat, NEW n, Sound(h, n), n.count # 0,
         NEW L \in [Places -> Keys \cup {NoKey}],
         NEW C, C = [q \in Places |-> IF q = 0 THEN n.kids[0] ELSE NoNode]
  PROVE  /\ Sound(h, Node(L, 0, C))
         /\ \A k : k \in KeysOf[h][Node(L, 0, C)] <=> k \in KeysOf[h][n] /\ k < n.keys[0]
<1>1. 0 \in Nat /\ 0 <= n.count /\ (0 < n.count) = TRUE
  <2>1. n.count \in 0 .. Full
    BY SoundHas
  <2> QED BY ONLY <2>1, n.count # 0, DegreeFacts
<1>2. \A p \in 0 .. 0 - 1 : L[p] = n.keys[p]
  OBVIOUS
<1>3. C = [q \in Places |-> IF q <= 0 THEN n.kids[q] ELSE NoNode]
  <2>1. \A q \in Places : q <= 0 <=> q = 0
    BY ONLY DegreeFacts
  <2> QED BY ONLY <2>1, C = [q \in Places |-> IF q = 0 THEN n.kids[0] ELSE NoNode]
<1>4. /\ Sound(h, Node(L, 0, C))
      /\ \A k : k \in KeysOf[h][Node(L, 0, C)] <=> k \in KeysOf[h][n] /\ (0 < n.count => k < n.keys[0])
  BY ONLY h \in Nat, Sound(h, n), L \in [Places -> Keys \cup {NoKey}], <1>1, <1>2, <1>3, SoundFirst
<1> QED BY ONLY <1>1, <1>4

\* btree_node_borrow_from_prev_child: child j + 1 gets key j, which gives way to
\* the greatest key before it.
LEMMA BorrowFromPrevKeeps ==
  ASSUME NEW h \in Nat, h # 0, NEW n, Sound(h, n), NEW j \in 0 .. n.count - 1, NEW i, i = j + 1,
         n.kids[i].count = T - 1, n.kids[j].count >= T,
         NEW z, z = BorrowFromPrev(n, i)
  PROVE  /\ Sound(h, z) /\ z.count = n.count /\ KeysOf[h][z] = KeysOf[h][n] /\ z.kids[i].count = T
         /\ \A k \in Int : Between(n.keys, n.count, i, k) => Between(z.keys, z.count, i, k)
<1> DEFINE g == h - 1
           x == n.kids[i]
           s == n.kids[j]
           m == n.keys[j]
           d == s.count - 1
           m1 == s.keys[d]
           L == Opened(x, 0, m)
           GK == IF IsLeaf(x) THEN x.kids
                 ELSE [q \in Places |-> IF q = 0 THEN s.kids[s.count] ELSE x.kids[q - 1]]
           RK == [s.kids EXCEPT ![s.count] = NoNode]
           gained == Node(L, x.count + 1, GK)
           rest == Node(s.keys, d, RK)
           LC == [q \in Places |-> IF q = 0 THEN s.kids[s.count] ELSE NoNode]
           last == Node(NoKeys, 0, LC)
<1>0. n.kids[j + 1] = x /\ i - 1 = j
  BY ONLY i = j + 1, j \in 0 .. n.count - 1
<1>1. /\ n.keys \in [Places -> Keys \cup {NoKey}] /\ n.count \in Nat /\ n.count <= Full
      /\ n.kids \in [Places -> {NoNode} \cup IF h = 0 THEN {} ELSE Trees[h - 1]]
      /\ j \in Places /\ j + 1 \in Places /\ j \in Nat /\ j < n.count
      /\ IsSubtree(g, s) /\ IsSubtree(g, x) /\ m \in Keys /\ m \in KeysOf[h][n]
      /\ \A k \in KeysOf[g][s] : k < m
      /\ \A k \in KeysOf[g][x] : m < k
  BY ONLY <1>0, h \in Nat, h # 0, Sound(h, n), j \in 0 .. n.count - 1, Neighbours
<1>2. g \in Nat /\ Sound(g, x) /\ Sound(g, s) /\ x.count = T - 1 /\ s.count >= T /\ s.count \in T - 1 .. Full
  BY ONLY <1>1, h \in Nat, h # 0, n.kids[i].count = T - 1, n.kids[j].count >= T, SMTT(30) DEF IsSubtree
<1>z. z = Node([n.keys EXCEPT ![j] = m1], n.count, [n.kids EXCEPT ![i] = gained, ![j] = rest])
  BY ONLY <1>0, z = BorrowFromPrev(n, i) DEF BorrowFromPrev
<1> HIDE DEF x, s, m, g
<1>3. /\ x.keys \in [Places -> Keys \cup {NoKey}] /\ s.keys \in [Places -> Keys \cup {NoKey}]
      /\ x.kids \in [Places -> {NoNode} \cup IF g = 0 THEN {} ELSE Trees[g - 1]]
      /\ s.kids \in [Places -> {NoNode} \cup IF g = 0 THEN {} ELSE Trees[g - 1]]
      /\ HasKids(g, x.count, x.kids) /\ HasKids(g, s.count, s.kids)
  BY ONLY <1>2, SoundHas
<1>4. /\ x.count \in Nat /\ x.count < Full /\ x.count + 1 = T /\ x.count + 1 \in T - 1 .. Full
      /\ s.count \in Nat /\ s.count # 0 /\ s.count \in Places
      /\ d \in Nat /\ d \in T - 1 .. Full /\ d + 1 = s.count /\ d < s.count /\ d <= s.count /\ d \in 0 .. s.count - 1
      /\ 0 \in 0 .. x.count /\ x.count \in 0 .. Full - 1 /\ x.count \in 0 .. Full /\ s.count \in 0 .. Full
  BY ONLY <1>2, DegreeFacts
<1>5. m1 \in Keys /\ m1 \in KeysOf[g][s] /\ KeysOf[g][s] \subseteq Keys /\ KeysOf[g][x] \subseteq Keys
  <2> HIDE DEF d
  <2> QED BY ONLY <1>2, <1>4, SoundKeys
<1>6. m1 \in Int /\ m1 < m /\ m \in Int /\ KeysOf[g][s] \subseteq Int /\ KeysOf[g][x] \subseteq Int
  <2> HIDE DEF m1
  <2> QED BY ONLY <1>1, <1>5, DegreeFacts
\* what is left of the sibling
<1>7. Sound(g, rest) /\ rest.count = d /\ \A k : k \in KeysOf[g][rest] <=> k \in KeysOf[g][s] /\ k < m1
  <2>1. RK = [q \in Places |-> IF q <= d THEN s.kids[q] ELSE NoNode]
    <3>1. \A q \in Places : RK[q] = IF q = s.count THEN NoNode ELSE s.kids[q]
      BY ONLY <1>3, <1>4
    <3>2. \A q \in Places : q > s.count => s.kids[q] = NoNode
      BY ONLY <1>3 DEF HasKids
    <3>3. \A q \in Places : (q <= d => q # s.count) /\ (~(q <= d) => q = s.count \/ q > s.count)
      BY ONLY <1>4, DegreeFacts
    <3>4. \A q \in Places : RK[q] = IF q <= d THEN s.kids[q] ELSE NoNode
      BY ONLY <3>1, <3>2, <3>3
    <3>5. RK = [q \in Places |-> RK[q]]
      BY ONLY <1>3
    <3> HIDE DEF RK
    <3> QED BY ONLY <3>4, <3>5
  <2>2. \A p \in 0 .. d - 1 : s.keys[p] = s.keys[p]
    OBVIOUS
  <2> HIDE DEF RK, d
  <2>3. Sound(g, rest) /\ \A k : k \in KeysOf[g][rest] <=> k \in KeysOf[g][s] /\ (d < s.count => k < m1)
    BY ONLY <1>2, <1>3, <1>4, <2>1, <2>2, SoundFirst, SMTT(30)
  <2> QED BY ONLY <1>4, <2>3, NodeFields
\* what the child gets
<1>8. Sound(g, last) /\ \A k : k \in KeysOf[g][last] <=> k \in KeysOf[g][s] /\ m1 < k
  <2>1. NoKeys \in [Places -> Keys \cup {NoKey}]
    BY DEF NoKeys
  <2> HIDE DEF LC
  <2>2. LC = [q \in Places |-> IF q = 0 THEN s.kids[s.count] ELSE NoNode]
    BY DEF LC
  <2> QED BY ONLY <1>2, <1>4, <2>1, <2>2, LastPart
<1>9. last.keys = NoKeys /\ last.count = 0 /\ last.kids = LC
  BY ONLY NodeFields
<1>10. L \in [Places -> Keys \cup {NoKey}] /\ JoinedKeys(L, last.keys, last.count, m, x.keys, x.count)
  <2>1. L \in [Places -> Keys \cup {NoKey}] /\ OpenedKeys(L, x.keys, x.count, 0, m)
    BY ONLY <1>1, <1>3, <1>4, OpenedIs
  <2> HIDE DEF L
  <2>2. \A p \in 0 .. 0 + x.count : L[p] = IF p < 0 THEN NoKeys[p] ELSE IF p = 0 THEN m ELSE x.keys[p - 0 - 1]
    <3>1. \A p \in 0 .. 0 + x.count : p \in 0 .. x.count /\ ~(p < 0) /\ p - 0 - 1 = p - 1
      BY ONLY <1>4
    <3> QED BY ONLY <2>1, <3>1 DEF OpenedKeys
  <2> HIDE DEF last
  <2> QED BY ONLY <1>9, <2>1, <2>2 DEF JoinedKeys
<1>11. GK = JoinedKids(last.kids, last.count, x.kids, x.count)
  <2> DEFINE J == JoinedKids(LC, 0, x.kids, x.count)
  <2>1. \A q \in Places : /\ q <= 0 <=> q = 0
                          /\ q # 0 => q - 1 \in Places /\ q - 0 - 1 = q - 1 /\ (q <= 0 + x.count + 1 <=> ~(q - 1 > x.count))
    BY ONLY <1>4, DegreeFacts
  <2>2. \A q \in Places : q > x.count => x.kids[q] = NoNode
    BY ONLY <1>3 DEF HasKids
  <2>3. \A q \in Places : J[q] = IF q = 0 THEN s.kids[s.count] ELSE x.kids[q - 1]
    <3> SUFFICES ASSUME NEW q \in Places PROVE J[q] = IF q = 0 THEN s.kids[s.count] ELSE x.kids[q - 1]
      OBVIOUS
    <3>1. J[q] = IF q <= 0 THEN LC[q] ELSE IF q <= 0 + x.count + 1 THEN x.kids[q - 0 - 1] ELSE NoNode
      BY DEF JoinedKids
    <3>2. q = 0 => LC[q] = s.kids[s.count]
      BY DEF LC
    <3> HIDE DEF J, LC
    <3> QED BY ONLY <2>1, <2>2, <3>1, <3>2, q \in Places
  <2>4. IsLeaf(x) <=> g = 0
    BY ONLY <1>2, LeafIs
  <2>5. \A q \in Places : GK[q] = J[q]
    <3>1. CASE g = 0
      <4>1. \A q \in Places : x.kids[q] = NoNode /\ s.kids[q] = NoNode
        BY ONLY <1>3, <3>1 DEF HasKids
      <4>2. GK = x.kids
        BY ONLY <2>4, <3>1
      <4> HIDE DEF GK, J
      <4> QED BY ONLY <1>4, <2>1, <2>3, <4>1, <4>2
    <3>2. CASE g # 0
      <4>1. GK = [q \in Places |-> IF q = 0 THEN s.kids[s.count] ELSE x.kids[q - 1]]
        BY ONLY <2>4, <3>2
      <4> HIDE DEF GK, J
      <4> QED BY ONLY <2>3, <4>1
    <3> QED BY ONLY <3>1, <3>2
  <2>6. GK = [q \in Places |-> GK[q]] /\ J = [q \in Places |-> J[q]]
    BY ONLY <1>3 DEF JoinedKids
  <2>7. GK = J
    <3> HIDE DEF GK, J
    <3> QED BY ONLY <2>5, <2>6
  <2> HIDE DEF last
  <2> QED BY ONLY <1>9, <2>7
<1>12. Sound(g, gained) /\ KeysOf[g][gained] = KeysOf[g][last] \cup {m} \cup KeysOf[g][x] /\ gained.count = T
  <2>1. last.count + x.count < Full /\ last.count + x.count + 1 = x.count + 1
    BY ONLY <1>4, <1>9
  <2>2. \A k \in KeysOf[g][last] : k < m
    BY ONLY <1>1, <1>8
  <2> HIDE DEF last, L, GK
  <2>3. /\ Sound(g, Node(L, last.count + x.count + 1, GK))
        /\ KeysOf[g][Node(L, last.count + x.count + 1, GK)] = KeysOf[g][last] \cup {m} \cup KeysOf[g][x]
    BY ONLY <1>1, <1>2, <1>8, <1>10, <1>11, <2>1, <2>2, SoundJoin
  <2> QED BY ONLY <1>4, <2>1, <2>3, NodeFields
<1> HIDE DEF gained, rest, last, m1, d
<1>13. IsSubtree(g, rest) /\ IsSubtree(g, gained)
  <2>1. T \in T - 1 .. Full
    BY ONLY DegreeFacts
  <2> QED BY ONLY <1>4, <1>7, <1>12, <2>1 DEF IsSubtree
<1>14. KeysOf[g][rest] \cup {m1} \cup KeysOf[g][gained] = KeysOf[g][s] \cup {m} \cup KeysOf[g][x]
  <2>1. \A k \in KeysOf[g][s] : k < m1 \/ k = m1 \/ m1 < k
    BY ONLY <1>6
  <2> QED BY ONLY <1>5, <1>7, <1>8, <1>12, <2>1
<1>15. (\A k \in KeysOf[g][rest] : k < m1) /\ (\A k \in KeysOf[g][gained] : m1 < k)
  <2>1. \A k \in KeysOf[g][x] : m1 < k
    BY ONLY <1>1, <1>6
  <2> QED BY ONLY <1>6, <1>7, <1>8, <1>12, <2>1
<1>16. [n.kids EXCEPT ![i] = gained, ![j] = rest] = [n.kids EXCEPT ![j] = rest, ![j + 1] = gained]
  <2>1. i \in Places /\ j \in Places /\ i = j + 1 /\ i # j
    BY ONLY <1>1, i = j + 1
  <2> QED BY ONLY <1>1, <2>1
<1>17. /\ Sound(h, z) /\ z.count = n.count /\ KeysOf[h][z] = KeysOf[h][n] /\ z.kids[j + 1] = gained
       /\ \A k \in Int : m1 < k /\ Between(n.keys, n.count, j + 1, k) => Between(z.keys, z.count, j + 1, k)
  <2>1. KeysOf[g][rest] \cup {m1} \cup KeysOf[g][gained] =
          KeysOf[g][n.kids[j]] \cup {n.keys[j]} \cup KeysOf[g][n.kids[j + 1]]
    BY ONLY <1>0, <1>14 DEF s, m
  <2>2. z = Node([n.keys EXCEPT ![j] = m1], n.count, [n.kids EXCEPT ![j] = rest, ![j + 1] = gained])
    BY ONLY <1>z, <1>16
  <2> QED BY ONLY <1>5, <1>13, <1>15, <2>1, <2>2, h \in Nat, h # 0, Sound(h, n), j \in 0 .. n.count - 1, SoundTrade, SMTT(30) DEF g
<1>18. ASSUME NEW k \in Int, Between(n.keys, n.count, i, k) PROVE m1 < k
  <2>1. j \in 0 .. n.count - 1 /\ j < i
    BY ONLY <1>1, i = j + 1
  <2>2. m < k
    BY ONLY <1>18, <2>1 DEF Between, m
  <2> QED BY ONLY <1>6, <2>2, k \in Int
<1>19. z.kids[i].count = T
  BY ONLY <1>12, <1>17, i = j + 1
<1> QED BY ONLY <1>17, <1>18, <1>19, i = j + 1

\* btree_node_borrow_from_next_child: child i gets key i, which gives way to the
\* smallest key behind it.
LEMMA BorrowFromNextKeeps ==
  ASSUME NEW h \in Nat, h # 0, NEW n, Sound(h, n), NEW i \in 0 .. n.count - 1,
         n.kids[i].count = T - 1, n.kids[i + 1].count >= T,
         NEW z, z = BorrowFromNext(n, i)
  PROVE  /\ Sound(h, z) /\ z.count = n.count /\ KeysOf[h][z] = KeysOf[h][n] /\ z.kids[i].count = T
         /\ \A k \in Int : Between(n.keys, n.count, i, k) => Between(z.keys, z.count, i, k)
<1> DEFINE g == h - 1
           x == n.kids[i]
           s == n.kids[i + 1]
           m == n.keys[i]
           d == s.count - 1
           m1 == s.keys[0]
           L == [x.keys EXCEPT ![x.count] = m]
           GK == IF IsLeaf(x) THEN x.kids ELSE [x.kids EXCEPT ![x.count + 1] = s.kids[0]]
           RL == [p \in Places |-> CASE p + 1 < s.count -> s.keys[p + 1]
                                     [] p + 1 = s.count -> NoKey
                                     [] OTHER -> s.keys[p]]
           RK == [q \in Places |-> IF q < s.count THEN s.kids[q + 1] ELSE NoNode]
           gained == Node(L, x.count + 1, GK)
           rest == Node(RL, d, RK)
           FC == [q \in Places |-> IF q = 0 THEN s.kids[0] ELSE NoNode]
           first == Node(NoKeys, 0, FC)
<1>1. /\ n.keys \in [Places -> Keys \cup {NoKey}] /\ n.count \in Nat /\ n.count <= Full
      /\ i \in Places /\ i + 1 \in Places /\ i \in Nat /\ i < n.count
      /\ IsSubtree(g, x) /\ IsSubtree(g, s) /\ m \in Keys /\ m \in KeysOf[h][n]
      /\ \A k \in KeysOf[g][x] : k < m
      /\ \A k \in KeysOf[g][s] : m < k
  BY ONLY h \in Nat, h # 0, Sound(h, n), i \in 0 .. n.count - 1, Neighbours
<1>2. g \in Nat /\ Sound(g, x) /\ Sound(g, s) /\ x.count = T - 1 /\ s.count >= T /\ s.count \in T - 1 .. Full
  BY ONLY <1>1, h \in Nat, h # 0, n.kids[i].count = T - 1, n.kids[i + 1].count >= T DEF IsSubtree
<1>z. z = Node([n.keys EXCEPT ![i] = m1], n.count, [n.kids EXCEPT ![i] = gained, ![i + 1] = rest])
  BY ONLY z = BorrowFromNext(n, i) DEF BorrowFromNext
<1> HIDE DEF x, s, m, g
<1>3. /\ x.keys \in [Places -> Keys \cup {NoKey}] /\ s.keys \in [Places -> Keys \cup {NoKey}]
      /\ x.kids \in [Places -> {NoNode} \cup IF g = 0 THEN {} ELSE Trees[g - 1]]
      /\ s.kids \in [Places -> {NoNode} \cup IF g = 0 THEN {} ELSE Trees[g - 1]]
      /\ HasKids(g, x.count, x.kids) /\ HasKids(g, s.count, s.kids)
  BY ONLY <1>2, SoundHas
<1>4. /\ x.count \in Nat /\ x.count < Full /\ x.count + 1 = T /\ x.count \in Places /\ x.count + 1 \in Places
      /\ s.count \in Nat /\ s.count # 0 /\ s.count <= Full
      /\ d \in Nat /\ d \in T - 1 .. Full /\ d + 1 = s.count /\ 1 + d = s.count
      /\ 0 \in 0 .. s.count - 1 /\ 0 \in Places
  BY ONLY <1>2, DegreeFacts
<1>5. m1 \in Keys /\ m1 \in KeysOf[g][s] /\ KeysOf[g][s] \subseteq Keys /\ KeysOf[g][x] \subseteq Keys
  BY ONLY <1>2, <1>4, SoundKeys
<1>6. m1 \in Int /\ m < m1 /\ m \in Int /\ KeysOf[g][s] \subseteq Int /\ KeysOf[g][x] \subseteq Int
  <2> HIDE DEF m1
  <2> QED BY ONLY <1>1, <1>5, DegreeFacts
\* what is left of the sibling
<1>7. Sound(g, rest) /\ rest.count = d /\ \A k : k \in KeysOf[g][rest] <=> k \in KeysOf[g][s] /\ m1 < k
  <2>1. RK = SlicedKids(s.kids, 1, d)
    <3>1. \A q \in Places : q < s.count <=> q <= d
      BY ONLY <1>4, DegreeFacts
    <3> HIDE DEF d
    <3> QED BY ONLY <3>1 DEF SlicedKids
  <2>2. \A p \in Places : /\ p + 1 < s.count => RL[p] = s.keys[p + 1] /\ p + 1 \in Places
                          /\ p + 1 = s.count => RL[p] = NoKey
                          /\ p + 1 > s.count => RL[p] = s.keys[p]
    <3> SUFFICES ASSUME NEW p \in Places
                 PROVE  /\ p + 1 < s.count => RL[p] = s.keys[p + 1] /\ p + 1 \in Places
                        /\ p + 1 = s.count => RL[p] = NoKey
                        /\ p + 1 > s.count => RL[p] = s.keys[p]
      OBVIOUS
    <3>1. p + 1 \in Int /\ (p + 1 < s.count => p + 1 \in Places)
      BY ONLY <1>4, p \in Places, DegreeFacts
    <3> QED BY ONLY <1>4, <3>1, p \in Places
  <2>3. RL \in [Places -> Keys \cup {NoKey}]
    <3>1. \A p \in Places : p + 1 < s.count \/ p + 1 = s.count \/ p + 1 > s.count
      BY ONLY <1>4, DegreeFacts
    <3>2. RL = [p \in Places |-> RL[p]]
      OBVIOUS
    <3> HIDE DEF RL
    <3>3. \A p \in Places : RL[p] \in Keys \cup {NoKey}
      BY ONLY <1>3, <2>2, <3>1
    <3> QED BY ONLY <3>2, <3>3
  <2>4. Sliced(RL, s.keys, 1, d)
    <3>1. \A p \in 0 .. d - 1 : p \in Places /\ p + 1 < s.count
      BY ONLY <1>4, DegreeFacts
    <3> HIDE DEF RL, d
    <3> QED BY ONLY <2>2, <3>1 DEF Sliced
  <2>5. 1 \in Nat /\ s.count <= s.count
    BY ONLY <1>4
  <2> HIDE DEF RK, RL, d
  <2>6. IsSlice(s, 1, d, s.count, RL, RK)
    BY ONLY <1>4, <2>1, <2>3, <2>4, <2>5 DEF IsSlice
  <2>7. Sound(g, rest) /\ HasSlice(g, rest, s, 1, s.count)
    BY ONLY <1>2, <2>6, SoundSlice
  <2>8. 1 > 0 /\ 1 - 1 = 0 /\ ~(s.count < s.count)
    BY ONLY <1>4
  <2>9. \A k : k \in KeysOf[g][rest] <=> k \in KeysOf[g][s] /\ m1 < k
    <3> HIDE DEF rest
    <3> QED BY ONLY <2>7, <2>8 DEF HasSlice
  <2> QED BY ONLY <2>7, <2>9, NodeFields
\* what the child gets
<1>8. Sound(g, first) /\ \A k : k \in KeysOf[g][first] <=> k \in KeysOf[g][s] /\ k < m1
  <2>1. NoKeys \in [Places -> Keys \cup {NoKey}]
    BY DEF NoKeys
  <2> HIDE DEF FC
  <2>2. FC = [q \in Places |-> IF q = 0 THEN s.kids[0] ELSE NoNode]
    BY DEF FC
  <2> QED BY ONLY <1>2, <1>4, <2>1, <2>2, FirstPart
<1>9. first.keys = NoKeys /\ first.count = 0 /\ first.kids = FC
  BY ONLY NodeFields
<1>10. L \in [Places -> Keys \cup {NoKey}] /\ JoinedKeys(L, x.keys, x.count, m, first.keys, first.count)
  <2>1. L \in [Places -> Keys \cup {NoKey}] /\ \A p \in Places : L[p] = IF p = x.count THEN m ELSE x.keys[p]
    BY ONLY <1>1, <1>3, <1>4
  <2> HIDE DEF L
  <2>2. \A p \in 0 .. x.count + 0 : L[p] = IF p < x.count THEN x.keys[p]
                                           ELSE IF p = x.count THEN m ELSE NoKeys[p - x.count - 1]
    <3>1. \A p \in 0 .. x.count + 0 : p \in Places /\ (p < x.count \/ p = x.count) /\ ~(p < x.count /\ p = x.count)
      BY ONLY <1>4, DegreeFacts
    <3> QED BY ONLY <2>1, <3>1
  <2> HIDE DEF first
  <2> QED BY ONLY <1>9, <2>1, <2>2 DEF JoinedKeys
<1>11. GK = JoinedKids(x.kids, x.count, first.kids, first.count)
  <2> DEFINE J == JoinedKids(x.kids, x.count, FC, 0)
  <2>1. \A q \in Places : /\ q <= x.count => q # x.count + 1
                          /\ q = x.count + 1 => ~(q <= x.count) /\ q <= x.count + 0 + 1 /\ q - x.count - 1 = 0
                          /\ ~(q <= x.count) /\ q # x.count + 1 => ~(q <= x.count + 0 + 1) /\ q > x.count
    BY ONLY <1>4, DegreeFacts
  <2>2. \A q \in Places : q > x.count => x.kids[q] = NoNode
    BY ONLY <1>3 DEF HasKids
  <2>3. \A q \in Places : J[q] = IF q = x.count + 1 THEN s.kids[0] ELSE x.kids[q]
    <3> SUFFICES ASSUME NEW q \in Places PROVE J[q] = IF q = x.count + 1 THEN s.kids[0] ELSE x.kids[q]
      OBVIOUS
    <3>1. J[q] = IF q <= x.count THEN x.kids[q] ELSE IF q <= x.count + 0 + 1 THEN FC[q - x.count - 1] ELSE NoNode
      BY DEF JoinedKids
    <3>2. FC[0] = s.kids[0]
      BY <1>4 DEF FC
    <3> HIDE DEF J, FC
    <3> QED BY ONLY <2>1, <2>2, <3>1, <3>2, q \in Places
  <2>4. IsLeaf(x) <=> g = 0
    BY ONLY <1>2, LeafIs
  <2>5. \A q \in Places : GK[q] = J[q]
    <3>1. CASE g = 0
      <4>1. \A q \in Places : x.kids[q] = NoNode /\ s.kids[q] = NoNode
        BY ONLY <1>3, <3>1 DEF HasKids
      <4>2. GK = x.kids
        BY ONLY <2>4, <3>1
      <4> HIDE DEF GK, J
      <4> QED BY ONLY <1>4, <2>3, <4>1, <4>2
    <3>2. CASE g # 0
      <4>1. GK = [x.kids EXCEPT ![x.count + 1] = s.kids[0]]
        BY ONLY <2>4, <3>2
      <4> HIDE DEF GK, J
      <4> QED BY ONLY <1>3, <1>4, <2>3, <4>1
    <3> QED BY ONLY <3>1, <3>2
  <2>6. GK = [q \in Places |-> GK[q]] /\ J = [q \in Places |-> J[q]]
    BY ONLY <1>3 DEF JoinedKids
  <2>7. GK = J
    <3> HIDE DEF GK, J
    <3> QED BY ONLY <2>5, <2>6
  <2> HIDE DEF first
  <2> QED BY ONLY <1>9, <2>7
<1>12. Sound(g, gained) /\ KeysOf[g][gained] = KeysOf[g][x] \cup {m} \cup KeysOf[g][first] /\ gained.count = T
  <2>1. x.count + first.count < Full /\ x.count + first.count + 1 = x.count + 1
    BY ONLY <1>4, <1>9
  <2>2. \A k \in KeysOf[g][first] : m < k
    BY ONLY <1>1, <1>8
  <2> HIDE DEF first, L, GK
  <2>3. /\ Sound(g, Node(L, x.count + first.count + 1, GK))
        /\ KeysOf[g][Node(L, x.count + first.count + 1, GK)] = KeysOf[g][x] \cup {m} \cup KeysOf[g][first]
    BY ONLY <1>1, <1>2, <1>8, <1>10, <1>11, <2>1, <2>2, SoundJoin
  <2> QED BY ONLY <1>4, <2>1, <2>3, NodeFields
<1> HIDE DEF gained, rest, first, m1, d
<1>13. IsSubtree(g, rest) /\ IsSubtree(g, gained)
  <2>1. T \in T - 1 .. Full
    BY ONLY DegreeFacts
  <2> QED BY ONLY <1>4, <1>7, <1>12, <2>1 DEF IsSubtree
<1>14. KeysOf[g][gained] \cup {m1} \cup KeysOf[g][rest] = KeysOf[g][x] \cup {m} \cup KeysOf[g][s]
  <2>1. \A k \in KeysOf[g][s] : k < m1 \/ k = m1 \/ m1 < k
    BY ONLY <1>6
  <2> QED BY ONLY <1>5, <1>7, <1>8, <1>12, <2>1
<1>15. (\A k \in KeysOf[g][gained] : k < m1) /\ (\A k \in KeysOf[g][rest] : m1 < k)
  <2>1. \A k \in KeysOf[g][x] : k < m1
    BY ONLY <1>1, <1>6
  <2> QED BY ONLY <1>6, <1>7, <1>8, <1>12, <2>1
<1>17. /\ Sound(h, z) /\ z.count = n.count /\ KeysOf[h][z] = KeysOf[h][n] /\ z.kids[i] = gained
       /\ \A k \in Int : k < m1 /\ Between(n.keys, n.count, i, k) => Between(z.keys, z.count, i, k)
  <2>1. KeysOf[g][gained] \cup {m1} \cup KeysOf[g][rest] =
          KeysOf[g][n.kids[i]] \cup {n.keys[i]} \cup KeysOf[g][n.kids[i + 1]]
    BY ONLY <1>14 DEF x, s, m
  <2> QED BY ONLY <1>5, <1>13, <1>15, <1>z, <2>1, h \in Nat, h # 0, Sound(h, n), i \in 0 .. n.count - 1, SoundTrade, SMTT(30) DEF g
<1>18. ASSUME NEW k \in Int, Between(n.keys, n.count, i, k) PROVE k < m1
  <2>1. i \in 0 .. n.count - 1 /\ ~(i < i)
    BY ONLY <1>1
  <2>2. k < m
    BY ONLY <1>18, <2>1 DEF Between, m
  <2> QED BY ONLY <1>6, <2>2, k \in Int
<1> QED BY ONLY <1>12, <1>17, <1>18

----------------------------------------------------------------------------
(* Removal.                                                                 *)

\* m is n after btree_node_fill: child at has a key to spare and stands where
\* the key belongs.
Filled(h, n, key, m, at) ==
  /\ Sound(h, m) /\ m.count \in Nat /\ m.count \in n.count - 1 .. n.count /\ KeysOf[h][m] = KeysOf[h][n]
  /\ at \in 0 .. m.count /\ Spare(m.kids[at]) /\ Between(m.keys, m.count, at, key)

\* btree_node_fill gives the child on the way to a key one more key, and loses
\* none.
LEMMA FillKeeps ==
  ASSUME NEW h \in Nat, h # 0, NEW n, Sound(h, n), n.count # 0, NEW i \in 0 .. n.count,
         ~Spare(n.kids[i]), NEW key \in Int, Between(n.keys, n.count, i, key),
         NEW m, m = Fill(n, i), NEW at, at = IF i > m.count THEN i - 1 ELSE i
  PROVE  Filled(h, n, key, m, at)
<1>1. n.count \in 0 .. Full /\ HasKids(h, n.count, n.kids) /\ Row(n.keys, n.count, KeySets(h, n.kids))
  BY ONLY h \in Nat, Sound(h, n), SoundHas
<1>2. n.count \in Nat /\ i \in Nat /\ i <= n.count /\ n.count - 1 \in n.count - 1 .. n.count
      /\ n.count \in n.count - 1 .. n.count /\ n.count - 1 \in Nat
  BY ONLY <1>1, n.count # 0, i \in 0 .. n.count, DegreeFacts
<1>3. \A q \in 0 .. n.count : IsSubtree(h - 1, n.kids[q])
  BY ONLY <1>1, h \in Nat, h # 0, InnerSets
<1>4. \A q \in 0 .. n.count : /\ Spare(n.kids[q]) => n.kids[q].count >= T
                              /\ ~Spare(n.kids[q]) => n.kids[q].count = T - 1
  BY ONLY <1>3, DegreeFacts DEF IsSubtree, Spare
<1>5. n.kids[i].count = T - 1
  BY ONLY <1>4, i \in 0 .. n.count, ~Spare(n.kids[i])
<1>6. ASSUME Sound(h, m), m.count = n.count, KeysOf[h][m] = KeysOf[h][n], m.kids[i].count = T,
             Between(m.keys, m.count, i, key)
      PROVE  Filled(h, n, key, m, at)
  <2>1. at = i /\ i \in 0 .. m.count
    BY ONLY <1>2, <1>6, at = IF i > m.count THEN i - 1 ELSE i
  <2>2. Spare(m.kids[i])
    BY ONLY <1>6, DegreeFacts DEF Spare
  <2> QED BY ONLY <1>2, <1>6, <2>1, <2>2 DEF Filled
<1>7. CASE i # 0 /\ Spare(n.kids[i - 1])
  <2> DEFINE j == i - 1
  <2>1. j \in 0 .. n.count - 1 /\ j \in 0 .. n.count /\ i = j + 1
    BY ONLY <1>2, <1>7
  <2>2. m = BorrowFromPrev(n, i)
    BY ONLY <1>7, m = Fill(n, i) DEF Fill, LendsPrev
  <2>3. n.kids[j].count >= T
    BY ONLY <1>4, <1>7, <2>1
  <2> HIDE DEF j
  <2>4. /\ Sound(h, m) /\ m.count = n.count /\ KeysOf[h][m] = KeysOf[h][n] /\ m.kids[i].count = T
        /\ \A k \in Int : Between(n.keys, n.count, i, k) => Between(m.keys, m.count, i, k)
    BY ONLY <1>5, <2>1, <2>2, <2>3, h \in Nat, h # 0, Sound(h, n), BorrowFromPrevKeeps
  <2> QED BY ONLY <1>6, <2>4, key \in Int, Between(n.keys, n.count, i, key)
<1>8. CASE ~(i # 0 /\ Spare(n.kids[i - 1])) /\ i # n.count /\ Spare(n.kids[i + 1])
  <2>1. i \in 0 .. n.count - 1 /\ i + 1 \in 0 .. n.count
    BY ONLY <1>2, <1>8
  <2>2. m = BorrowFromNext(n, i)
    BY ONLY <1>8, m = Fill(n, i) DEF Fill, LendsPrev, LendsNext
  <2>3. n.kids[i + 1].count >= T
    BY ONLY <1>4, <1>8, <2>1
  <2>4. /\ Sound(h, m) /\ m.count = n.count /\ KeysOf[h][m] = KeysOf[h][n] /\ m.kids[i].count = T
        /\ \A k \in Int : Between(n.keys, n.count, i, k) => Between(m.keys, m.count, i, k)
    BY ONLY <1>5, <2>1, <2>2, <2>3, h \in Nat, h # 0, Sound(h, n), BorrowFromNextKeeps
  <2> QED BY ONLY <1>6, <2>4, key \in Int, Between(n.keys, n.count, i, key)
<1>9. CASE ~(i # 0 /\ Spare(n.kids[i - 1])) /\ ~(i # n.count /\ Spare(n.kids[i + 1]))
  <2> DEFINE j == IF i # n.count THEN i ELSE i - 1
  <2>1. m = Merge(n, j)
    BY ONLY <1>9, m = Fill(n, i) DEF Fill, LendsPrev, LendsNext, MergeAt
  <2>2. j \in 0 .. n.count - 1 /\ j \in 0 .. n.count /\ j + 1 \in 0 .. n.count /\ (j = i \/ (j + 1 = i /\ i = n.count))
    BY ONLY <1>2, n.count # 0
  <2>3. n.kids[j].count = T - 1 /\ n.kids[j + 1].count = T - 1
    <3>1. CASE i # n.count
      <4>1. j = i /\ ~Spare(n.kids[i + 1])
        BY ONLY <1>9, <3>1
      <4> HIDE DEF j
      <4> QED BY ONLY <1>4, <1>5, <2>2, <4>1
    <3>2. CASE i = n.count
      <4>1. j = i - 1 /\ i # 0 /\ ~Spare(n.kids[i - 1]) /\ j + 1 = i
        BY ONLY <1>2, <1>9, <3>2, n.count # 0
      <4> HIDE DEF j
      <4> QED BY ONLY <1>4, <1>5, <2>2, <4>1
    <3> QED BY ONLY <3>1, <3>2
  <2> HIDE DEF j
  <2>4. /\ Sound(h, m) /\ m.count = n.count - 1 /\ KeysOf[h][m] = KeysOf[h][n] /\ m.kids[j].count = Full
        /\ \A k \in Int : InWindow(n.keys, n.count, j, k) => Between(m.keys, m.count, j, k)
    BY ONLY <2>1, <2>2, <2>3, h \in Nat, h # 0, Sound(h, n), MergeKeeps
  <2>5. InWindow(n.keys, n.count, j, key)
    BY ONLY <1>2, <2>2, key \in Int, Between(n.keys, n.count, i, key) DEF InWindow, Between
  <2>6. at = j /\ j \in 0 .. m.count
    BY ONLY <1>2, <2>2, <2>4, at = IF i > m.count THEN i - 1 ELSE i
  <2>7. Spare(m.kids[j])
    BY ONLY <2>4, DegreeFacts DEF Spare
  <2> QED BY ONLY <1>2, <2>4, <2>5, <2>6, <2>7, key \in Int DEF Filled
<1> QED BY ONLY <1>7, <1>8, <1>9

\* What a removal makes of node n.
Shrunk(h, n, key, r) ==
  Sound(h, r) /\ r.count \in n.count - 1 .. n.count /\ KeysOf[h][r] = KeysOf[h][n] \ {key}

\* A node that btree_node_remove may be called for.
Ready(h, n) == Sound(h, n) /\ (h # 0 => n.count # 0 \/ Spare(n.kids[0]))

\* A tree of height h with its leaves at one depth, whatever its keys are.
Shaped(h, n) == n \in Trees[h] /\ Even[h][n]

\* What a removal makes of node n that has run out of memory in a merge.
Halted(h, n, r) == Shaped(h, r) /\ r.count \in n.count - 1 .. n.count

Outcome(h, n, key, r) == IF r.ok THEN Shrunk(h, n, key, r.node) ELSE Halted(h, n, r.node)

RemovesAt(h) ==
  \A n : \A key \in Keys, short \in Nat : Ready(h, n) => Outcome(h, n, key, NodeRemove[h][n][key][short])

IsShape(h, n) == Shaped(h, n) /\ n.count \in T - 1 .. Full

LEMMA ShapedNode ==
  ASSUME NEW h \in Nat, NEW K \in [Places -> Keys \cup {NoKey}], NEW c \in 0 .. Full,
         NEW C \in [Places -> {NoNode} \cup IF h = 0 THEN {} ELSE Trees[h - 1]],
         h # 0,
         \A q \in Places : IF q > c THEN C[q] = NoNode ELSE IsShape(h - 1, C[q])
  PROVE  Shaped(h, Node(K, c, C))
<1> DEFINE n == Node(K, c, C)
<1>1. n \in Trees[h]
  BY NodeInTrees
<1>2. h - 1 \in Nat /\ \A q \in Places : C[q] # NoNode <=> q \in 0 .. c
  <2>1. h - 1 \in Nat
    BY h # 0
  <2>2. \A q \in Places : IsShape(h - 1, C[q]) => C[q] # NoNode
    BY <2>1, NoNodeIsNoTree DEF IsShape, Shaped
  <2>3. \A q \in Places : q > c <=> q \notin 0 .. c
    BY DegreeFacts
  <2> QED BY <2>1, <2>2, <2>3
<1>3. Children(n) = 0 .. c
  <2>1. 0 .. c \subseteq Places
    BY DegreeFacts
  <2> QED BY <1>2, <2>1, NodeFields DEF Children
<1>4. \A q \in 0 .. c : C[q].count \in T - 1 .. Full /\ Even[h - 1][C[q]]
  <2>1. \A q \in 0 .. c : q \in Places /\ ~(q > c)
    BY DegreeFacts
  <2> QED BY <2>1 DEF IsShape, Shaped
<1>5. n.count = c /\ n.kids = C
  BY NodeFields
<1>6. Even[h] = EvenStep(Even[h - 1], h)
  BY EvenDef
<1> HIDE DEF n
<1>7. Even[h][n]
  BY ONLY <1>1, <1>3, <1>4, <1>5, <1>6, h # 0 DEF EvenStep
<1> QED BY ONLY <1>1, <1>7 DEF Shaped, n

LEMMA ShapedHas ==
  ASSUME NEW h \in Nat, h # 0, NEW n, Shaped(h, n)
  PROVE  /\ n.keys \in [Places -> Keys \cup {NoKey}] /\ n.count \in 0 .. Full
         /\ n.kids \in [Places -> {NoNode} \cup IF h = 0 THEN {} ELSE Trees[h - 1]]
         /\ \A q \in Places : IF q > n.count THEN n.kids[q] = NoNode ELSE IsShape(h - 1, n.kids[q])
<1>1. n \in Trees[h] /\ Even[h][n]
  BY DEF Shaped
<1>2. /\ n.keys \in [Places -> Keys \cup {NoKey}] /\ n.count \in 0 .. Full
      /\ n.kids \in [Places -> {NoNode} \cup IF h = 0 THEN {} ELSE Trees[h - 1]]
  BY ONLY <1>1, h \in Nat, TreeFields
<1>3. Even[h] = EvenStep(Even[h - 1], h)
  BY EvenDef
<1>4. /\ Children(n) = 0 .. n.count
      /\ \A q \in Children(n) : n.kids[q].count \in T - 1 .. Full /\ Even[h - 1][n.kids[q]]
  BY ONLY <1>1, <1>3, h # 0 DEF EvenStep
<1>5. \A q \in Places : q \in Children(n) <=> n.kids[q] # NoNode
  BY DEF Children
<1>6. \A q \in Places : n.kids[q] # NoNode => n.kids[q] \in Trees[h - 1]
  BY ONLY <1>2
<1>7. \A q \in Places : q > n.count <=> q \notin 0 .. n.count
  BY ONLY <1>2, DegreeFacts
<1>8. \A q \in Places : IF q > n.count THEN n.kids[q] = NoNode ELSE IsShape(h - 1, n.kids[q])
  BY ONLY <1>4, <1>5, <1>6, <1>7 DEF IsShape, Shaped
<1> QED BY ONLY <1>2, <1>8

LEMMA ShapedSetKid ==
  ASSUME NEW h \in Nat, h # 0, NEW n, Shaped(h, n), NEW i \in 0 .. n.count, NEW kid, IsShape(h - 1, kid)
  PROVE  Shaped(h, SetKid(n, i, kid)) /\ SetKid(n, i, kid).count = n.count
<1> DEFINE C == [n.kids EXCEPT ![i] = kid]
<1>1. /\ n.keys \in [Places -> Keys \cup {NoKey}] /\ n.count \in 0 .. Full
      /\ n.kids \in [Places -> {NoNode} \cup IF h = 0 THEN {} ELSE Trees[h - 1]]
      /\ \A q \in Places : IF q > n.count THEN n.kids[q] = NoNode ELSE IsShape(h - 1, n.kids[q])
  BY ShapedHas
<1>2. i \in Places /\ ~(i > n.count)
  BY ONLY <1>1, i \in 0 .. n.count, DegreeFacts
<1>3. kid \in Trees[h - 1]
  BY DEF IsShape, Shaped
<1>4. C \in [Places -> {NoNode} \cup IF h = 0 THEN {} ELSE Trees[h - 1]]
  BY ONLY <1>1, <1>3, h # 0
<1>5. \A q \in Places : C[q] = IF q = i THEN kid ELSE n.kids[q]
  BY ONLY <1>1
<1> HIDE DEF C
<1>6. \A q \in Places : IF q > n.count THEN C[q] = NoNode ELSE IsShape(h - 1, C[q])
  BY ONLY <1>1, <1>2, <1>5, IsShape(h - 1, kid)
<1>7. Shaped(h, Node(n.keys, n.count, C))
  BY ONLY <1>1, <1>4, <1>6, h \in Nat, h # 0, ShapedNode
<1>8. SetKid(n, i, kid) = Node(n.keys, n.count, C)
  BY DEF SetKid, C
<1> QED BY <1>7, <1>8, NodeFields

LEMMA ShapedSetKey ==
  ASSUME NEW h \in Nat, h # 0, NEW n, Shaped(h, n), NEW i, NEW key \in Keys
  PROVE  Shaped(h, SetKey(n, i, key)) /\ SetKey(n, i, key).count = n.count /\ SetKey(n, i, key).kids = n.kids
<1> DEFINE K == [n.keys EXCEPT ![i] = key]
<1>1. /\ n.keys \in [Places -> Keys \cup {NoKey}] /\ n.count \in 0 .. Full
      /\ n.kids \in [Places -> {NoNode} \cup IF h = 0 THEN {} ELSE Trees[h - 1]]
      /\ \A q \in Places : IF q > n.count THEN n.kids[q] = NoNode ELSE IsShape(h - 1, n.kids[q])
  BY ShapedHas
<1>2. K \in [Places -> Keys \cup {NoKey}]
  BY ONLY <1>1, key \in Keys
<1>3. SetKey(n, i, key) = Node(K, n.count, n.kids)
  BY DEF SetKey
<1> HIDE DEF K
<1>4. Shaped(h, Node(K, n.count, n.kids))
  BY ONLY <1>1, <1>2, h \in Nat, h # 0, ShapedNode
<1> QED BY <1>3, <1>4, NodeFields

\* A node's keys are not looked at: others do as well.
LEMMA ShapedKeys ==
  ASSUME NEW h \in Nat, NEW n, IsShape(h, n), NEW K \in [Places -> Keys \cup {NoKey}]
  PROVE  IsShape(h, Node(K, n.count, n.kids))
<1> DEFINE r == Node(K, n.count, n.kids)
<1>1. n \in Trees[h] /\ Even[h][n] /\ n.count \in T - 1 .. Full
  BY DEF IsShape, Shaped
<1>2. r \in Trees[h]
  BY ONLY <1>1, h \in Nat, K \in [Places -> Keys \cup {NoKey}], TreeFields, NodeInTrees
<1>3. r.count = n.count /\ r.kids = n.kids
  BY NodeFields
<1>4. Even[h] = EvenStep(Even[h - 1], h)
  BY EvenDef
<1> HIDE DEF r
<1>5. Children(r) = Children(n)
  BY ONLY <1>3 DEF Children
<1>6. Even[h][r]
  BY ONLY <1>1, <1>2, <1>3, <1>4, <1>5 DEF EvenStep
<1> QED BY ONLY <1>1, <1>2, <1>3, <1>6 DEF IsShape, Shaped, r

LEMMA SubtreeIsShape == ASSUME NEW h, NEW n, IsSubtree(h, n) PROVE IsShape(h, n)
BY DEF IsSubtree, Sound, IsShape, Shaped

\* A merge that fails changes keys only.
LEMMA TornMergeHalts ==
  ASSUME NEW h \in Nat, h # 0, NEW n, Sound(h, n), NEW i \in 0 .. n.count - 1
  PROVE  Halted(h, n, TornMerge(n, i))
<1> DEFINE g == h - 1
           x == n.kids[i]
           y == n.kids[i + 1]
           L == MergedKeys(n, i)
           Z == [p \in Places |-> IF p < y.count THEN NoKey ELSE y.keys[p]]
           a == Node(L, x.count, x.kids)
           b == Node(Z, y.count, y.kids)
           C == [n.kids EXCEPT ![i] = a, ![i + 1] = b]
<1>1. Shaped(h, n)
  BY DEF Sound, Shaped
<1>2. /\ n.keys \in [Places -> Keys \cup {NoKey}] /\ n.count \in 0 .. Full
      /\ n.kids \in [Places -> {NoNode} \cup IF h = 0 THEN {} ELSE Trees[h - 1]]
      /\ \A q \in Places : IF q > n.count THEN n.kids[q] = NoNode ELSE IsShape(h - 1, n.kids[q])
  BY <1>1, ShapedHas
<1>3. /\ i \in Places /\ i + 1 \in Places /\ ~(i > n.count) /\ ~(i + 1 > n.count) /\ i # i + 1 /\ g \in Nat
      /\ n.count \in n.count - 1 .. n.count
  BY ONLY <1>2, i \in 0 .. n.count - 1, h \in Nat, h # 0, DegreeFacts
<1>4. IsShape(g, x) /\ IsShape(g, y)
  BY ONLY <1>2, <1>3
<1>5. x \in Trees[g] /\ y \in Trees[g]
  BY ONLY <1>4 DEF IsShape, Shaped
<1> HIDE DEF g
<1>6. /\ x.keys \in [Places -> Keys \cup {NoKey}] /\ y.keys \in [Places -> Keys \cup {NoKey}]
      /\ y.count \in 0 .. Full
  <2> HIDE DEF x, y
  <2> QED BY ONLY <1>3, <1>5, TreeFields
<1>7. L \in [Places -> Keys \cup {NoKey}]
  <2>1. \A p \in Places : p >= T => p - T \in Places
    BY DegreeFacts
  <2>2. L = [p \in Places |-> CASE p = T - 1 -> n.keys[i]
                                [] p >= T /\ p < T + y.count -> y.keys[p - T]
                                [] OTHER -> x.keys[p]]
    BY DEF MergedKeys
  <2> HIDE DEF L, x, y
  <2>3. ASSUME NEW p \in Places
        PROVE  (CASE p = T - 1 -> n.keys[i]
                  [] p >= T /\ p < T + y.count -> y.keys[p - T]
                  [] OTHER -> x.keys[p]) \in Keys \cup {NoKey}
    <3>1. p \in Int /\ T \in Int
      BY DegreeFacts
    <3>2. CASE p = T - 1
      <4>1. ~(p >= T)
        BY ONLY <3>1, <3>2
      <4> QED BY ONLY <1>2, <1>3, <3>2, <4>1
    <3>3. CASE p # T - 1 /\ p >= T /\ p < T + y.count
      BY ONLY <1>6, <2>1, <3>3, p \in Places
    <3>4. CASE p # T - 1 /\ ~(p >= T /\ p < T + y.count)
      BY ONLY <1>6, <3>4, p \in Places
    <3> QED BY ONLY <3>2, <3>3, <3>4
  <2> QED BY ONLY <2>2, <2>3
<1>8. Z \in [Places -> Keys \cup {NoKey}]
  <2> HIDE DEF y
  <2> QED BY ONLY <1>6
<1> HIDE DEF L, Z, x, y
<1>9. IsShape(g, a) /\ IsShape(g, b)
  BY ONLY <1>3, <1>4, <1>7, <1>8, ShapedKeys
<1>10. a \in Trees[g] /\ b \in Trees[g]
  BY ONLY <1>9 DEF IsShape, Shaped
<1> HIDE DEF a, b
<1>11. C \in [Places -> {NoNode} \cup IF h = 0 THEN {} ELSE Trees[h - 1]]
  BY ONLY <1>2, <1>10, h # 0 DEF g
<1>12. \A q \in Places : C[q] = IF q = i + 1 THEN b ELSE IF q = i THEN a ELSE n.kids[q]
  BY ONLY <1>2, <1>3
<1> HIDE DEF C
<1>13. \A q \in Places : IF q > n.count THEN C[q] = NoNode ELSE IsShape(h - 1, C[q])
  BY ONLY <1>2, <1>3, <1>9, <1>12 DEF g
<1>14. Shaped(h, Node(n.keys, n.count, C))
  BY ONLY <1>2, <1>11, <1>13, h \in Nat, h # 0, ShapedNode
<1>15. TornMerge(n, i) = Node(n.keys, n.count, C)
  BY ONLY TRUE DEF TornMerge, C, a, b, L, Z, x, y
<1> QED BY ONLY <1>3, <1>14, <1>15, NodeFields DEF Halted

\* A subtree with a key to spare is ready, and is a subtree still when it has lost
\* a key.
LEMMA SpareKid ==
  ASSUME NEW g \in Nat, RemovesAt(g), NEW x, IsSubtree(g, x), Spare(x), NEW key \in Keys, NEW short \in Nat,
         NEW r, r = NodeRemove[g][x][key][short]
  PROVE  IF r.ok THEN IsSubtree(g, r.node) /\ KeysOf[g][r.node] = KeysOf[g][x] \ {key} ELSE IsShape(g, r.node)
<1>1. Sound(g, x) /\ x.count \in T .. Full
  BY ONLY IsSubtree(g, x), Spare(x), DegreeFacts DEF IsSubtree, Spare
<1>2. Ready(g, x)
  BY ONLY <1>1, DegreeFacts DEF Ready
<1>3. Outcome(g, x, key, r)
  BY ONLY <1>2, RemovesAt(g), key \in Keys, short \in Nat, r = NodeRemove[g][x][key][short] DEF RemovesAt
<1>4. r.ok => Shrunk(g, x, key, r.node)
  BY ONLY <1>3 DEF Outcome
<1>5. ~r.ok => Halted(g, x, r.node)
  BY ONLY <1>3 DEF Outcome
<1>6. r.node.count \in x.count - 1 .. x.count
  BY ONLY <1>4, <1>5 DEF Shrunk, Halted
<1>7. r.node.count \in T - 1 .. Full
  BY ONLY <1>1, <1>6, DegreeFacts
<1> QED BY ONLY <1>4, <1>5, <1>7 DEF Shrunk, Halted, IsSubtree, IsShape

\* The subtree at the gap of the key shrinks.
LEMMA KidShrinks ==
  ASSUME NEW h \in Nat, h # 0, RemovesAt(h - 1), NEW n, NEW m, NEW at, NEW key \in Keys,
         Filled(h, n, key, m, at), NEW short \in Nat,
         NEW s, s = NodeRemove[h - 1][m.kids[at]][key][short],
         NEW r, r = [node |-> SetKid(m, at, s.node), ok |-> s.ok]
  PROVE  Outcome(h, n, key, r)
<1> DEFINE g == h - 1
           x == m.kids[at]
           y == s.node
<1>1. /\ Sound(h, m) /\ m.count \in Nat /\ m.count \in n.count - 1 .. n.count /\ KeysOf[h][m] = KeysOf[h][n]
      /\ at \in 0 .. m.count /\ Spare(x) /\ Between(m.keys, m.count, at, key)
  BY DEF Filled
<1>2. m.count \in 0 .. Full /\ HasKids(h, m.count, m.kids) /\ Row(m.keys, m.count, KeySets(h, m.kids))
  BY ONLY <1>1, h \in Nat, SoundHas
<1>3. IsSubtree(g, x) /\ KeySets(h, m.kids)[at] = KeysOf[g][x] /\ g \in Nat /\ key \in Int
  BY ONLY <1>1, <1>2, h \in Nat, h # 0, key \in Keys, InnerSets, DegreeFacts
<1>4. IF s.ok THEN IsSubtree(g, y) /\ KeysOf[g][y] = KeysOf[g][x] \ {key} ELSE IsShape(g, y)
  <2>1. s = NodeRemove[g][x][key][short]
    OBVIOUS
  <2> HIDE DEF x, g
  <2> QED BY ONLY <1>1, <1>3, <2>1, RemovesAt(h - 1), key \in Keys, short \in Nat, SpareKid DEF g
<1>5. \A k \in KeysOf[g][x] : Between(m.keys, m.count, at, k)
  BY ONLY <1>1, <1>2, <1>3 DEF Row
<1>6. KeysOf[g][x] \subseteq KeysOf[h][m]
  BY ONLY <1>1, <1>3, h \in Nat, SoundKeys
<1>7. key \in KeysOf[h][m] <=> key \in KeysOf[g][x]
  BY ONLY <1>1, <1>3, h \in Nat, h # 0, SoundPlace
<1> HIDE DEF y
<1>8. r.node = SetKid(m, at, y) /\ r.ok = s.ok
  BY DEF y
<1>9. CASE s.ok
  <2>1. /\ Sound(h, r.node) /\ r.node.count = m.count
        /\ KeysOf[h][r.node] = (KeysOf[h][m] \ KeysOf[g][x]) \cup KeysOf[g][y]
    BY ONLY <1>1, <1>4, <1>5, <1>8, <1>9, h \in Nat, h # 0, SoundSetKid
  <2>2. KeysOf[h][r.node] = KeysOf[h][m] \ {key}
    BY ONLY <1>4, <1>6, <1>7, <1>9, <2>1
  <2>3. Shrunk(h, n, key, r.node)
    BY ONLY <1>1, <2>1, <2>2 DEF Shrunk
  <2> QED BY ONLY <1>8, <1>9, <2>3 DEF Outcome
<1>10. CASE ~s.ok
  <2>1. Shaped(h, r.node) /\ r.node.count = m.count
    BY ONLY <1>1, <1>4, <1>8, <1>10, h \in Nat, h # 0, ShapedSetKid DEF Sound, Shaped
  <2>2. Halted(h, n, r.node)
    BY ONLY <1>1, <2>1 DEF Halted
  <2> QED BY ONLY <1>8, <1>10, <2>2 DEF Outcome
<1> QED BY ONLY <1>9, <1>10

\* btree_node_remove_from_inter_node: the key gives way to the greatest one
\* before it, which is removed from where it was.
LEMMA PredecessorKeeps ==
  ASSUME NEW h \in Nat, h # 0, RemovesAt(h - 1), NEW n, Sound(h, n), NEW i \in 0 .. n.count - 1,
         Spare(n.kids[i]), NEW m, m = Rightmost[h - 1][n.kids[i]],
         NEW short \in Nat,
         NEW s, s = NodeRemove[h - 1][n.kids[i]][m][short],
         NEW r, r = [node |-> SetKid(SetKey(n, i, m), i, s.node), ok |-> s.ok]
  PROVE  Outcome(h, n, n.keys[i], r)
<1> DEFINE g == h - 1
           x == n.kids[i]
           y == n.kids[i + 1]
           key == n.keys[i]
           a == s.node
           W == KeysOf[g][x] \cup {key} \cup KeysOf[g][y]
<1>1. /\ n.keys \in [Places -> Keys \cup {NoKey}] /\ n.count \in Nat /\ n.count <= Full
      /\ n.kids \in [Places -> {NoNode} \cup IF h = 0 THEN {} ELSE Trees[h - 1]]
      /\ i \in Places /\ i + 1 \in Places /\ i \in Nat
      /\ IsSubtree(g, x) /\ IsSubtree(g, y) /\ key \in Keys /\ key \in KeysOf[h][n]
      /\ KeysOf[g][x] \subseteq KeysOf[h][n] /\ KeysOf[g][y] \subseteq KeysOf[h][n]
      /\ \A k \in W : InWindow(n.keys, n.count, i, k)
      /\ \A k \in KeysOf[g][x] : k < key
      /\ \A k \in KeysOf[g][y] : key < k
  BY ONLY h \in Nat, h # 0, Sound(h, n), i \in 0 .. n.count - 1, Neighbours
<1>2. g \in Nat /\ Sound(g, x) /\ x.count # 0 /\ KeysOf[g][x] \subseteq Keys /\ KeysOf[g][y] \subseteq Keys
  BY ONLY <1>1, h \in Nat, h # 0, Spare(n.kids[i]), DegreeFacts, SMTT(30) DEF IsSubtree, Spare, Sound
<1>3. IsGreatest(m, KeysOf[g][x])
  BY ONLY <1>2, m = Rightmost[h - 1][n.kids[i]], Ends DEF EndsAt
<1>4. m \in Keys /\ m \in KeysOf[g][x] /\ \A k \in KeysOf[g][x] : k <= m
  BY ONLY <1>2, <1>3 DEF IsGreatest
<1>5. IF s.ok THEN IsSubtree(g, a) /\ KeysOf[g][a] = KeysOf[g][x] \ {m} ELSE IsShape(g, a)
  <2>1. s = NodeRemove[g][x][m][short] /\ Spare(x)
    OBVIOUS
  <2> HIDE DEF x, g
  <2> QED BY ONLY <1>1, <1>2, <1>4, <2>1, RemovesAt(h - 1), short \in Nat, SpareKid DEF g
<1> DEFINE v == SetKid(SetKey(n, i, m), i, a)
<1>6. r.node = v /\ r.ok = s.ok
  OBVIOUS
<1> HIDE DEF a, x, y, key, g, v
<1>7. CASE s.ok
  <2>1. key \in Int /\ m \in Int /\ m < key /\ KeysOf[g][x] \subseteq Int /\ KeysOf[g][y] \subseteq Int
    BY ONLY <1>1, <1>2, <1>4, DegreeFacts
  <2>2. /\ \A k \in KeysOf[g][a] \cup {m} \cup KeysOf[g][y] : InWindow(n.keys, n.count, i, k)
        /\ \A k \in KeysOf[g][a] : k < m
        /\ \A k \in KeysOf[g][y] : m < k
    <3>1. \A k \in KeysOf[g][a] : k < m
      BY ONLY <1>4, <1>5, <1>7, <2>1
    <3>2. \A k \in KeysOf[g][y] : m < k
      BY ONLY <1>1, <2>1
    <3> QED BY ONLY <1>1, <1>4, <1>5, <1>7, <3>1, <3>2
  <2> DEFINE K == [n.keys EXCEPT ![i] = m]
             C == [n.kids EXCEPT ![i] = a, ![i + 1] = y]
  <2>3. v = Node(K, n.count, C)
    <3>1. [n.kids EXCEPT ![i] = a] = C
      BY ONLY <1>1 DEF y
    <3> HIDE DEF C
    <3> QED BY ONLY <3>1 DEF SetKid, SetKey, Node, v
  <2>4. Sound(h, v) /\ KeysOf[h][v] = (KeysOf[h][n] \ W) \cup KeysOf[g][a] \cup {m} \cup KeysOf[g][y]
    <3>1. IsSubtree(h - 1, a) /\ IsSubtree(h - 1, y)
      BY ONLY <1>1, <1>5, <1>7 DEF g
    <3> QED BY ONLY <1>4, <2>2, <2>3, <3>1, h \in Nat, h # 0, Sound(h, n), i \in 0 .. n.count - 1, SoundShift DEF g, x, y, key
  <2>5. KeysOf[h][v] = KeysOf[h][n] \ {key}
    <3>1. key \notin KeysOf[g][x] /\ key \notin KeysOf[g][y]
      BY ONLY <1>1, <2>1
    <3> QED BY ONLY <1>1, <1>4, <1>5, <1>7, <2>4, <3>1
  <2>6. v.count = n.count
    BY ONLY <2>3, NodeFields
  <2>7. Shrunk(h, n, key, v)
    BY ONLY <1>1, <2>4, <2>5, <2>6 DEF Shrunk
  <2> QED BY ONLY <1>6, <1>7, <2>7 DEF Outcome, key
<1>8. CASE ~s.ok
  <2>1. Shaped(h, n) /\ IsShape(h - 1, a)
    BY ONLY <1>5, <1>8, Sound(h, n) DEF Sound, Shaped, g
  <2>2. /\ Shaped(h, SetKey(n, i, m)) /\ SetKey(n, i, m).count = n.count
    BY ONLY <1>4, <2>1, h \in Nat, h # 0, ShapedSetKey
  <2>3. i \in 0 .. SetKey(n, i, m).count
    BY ONLY <1>1, <2>2, i \in 0 .. n.count - 1
  <2>4. Shaped(h, v) /\ v.count = n.count
    BY ONLY <2>1, <2>2, <2>3, h \in Nat, h # 0, ShapedSetKid DEF v
  <2>5. n.count \in n.count - 1 .. n.count
    BY ONLY <1>1
  <2> QED BY ONLY <1>6, <1>8, <2>4, <2>5 DEF Outcome, Halted
<1> QED BY ONLY <1>7, <1>8

\* Or to the smallest one behind it.
LEMMA SuccessorKeeps ==
  ASSUME NEW h \in Nat, h # 0, RemovesAt(h - 1), NEW n, Sound(h, n), NEW i \in 0 .. n.count - 1,
         Spare(n.kids[i + 1]), NEW m, m = Leftmost[h - 1][n.kids[i + 1]],
         NEW short \in Nat,
         NEW s, s = NodeRemove[h - 1][n.kids[i + 1]][m][short],
         NEW r, r = [node |-> SetKid(SetKey(n, i, m), i + 1, s.node), ok |-> s.ok]
  PROVE  Outcome(h, n, n.keys[i], r)
<1> DEFINE g == h - 1
           x == n.kids[i]
           y == n.kids[i + 1]
           key == n.keys[i]
           b == s.node
           W == KeysOf[g][x] \cup {key} \cup KeysOf[g][y]
<1>1. /\ n.keys \in [Places -> Keys \cup {NoKey}] /\ n.count \in Nat /\ n.count <= Full
      /\ n.kids \in [Places -> {NoNode} \cup IF h = 0 THEN {} ELSE Trees[h - 1]]
      /\ i \in Places /\ i + 1 \in Places /\ i \in Nat
      /\ IsSubtree(g, x) /\ IsSubtree(g, y) /\ key \in Keys /\ key \in KeysOf[h][n]
      /\ KeysOf[g][x] \subseteq KeysOf[h][n] /\ KeysOf[g][y] \subseteq KeysOf[h][n]
      /\ \A k \in W : InWindow(n.keys, n.count, i, k)
      /\ \A k \in KeysOf[g][x] : k < key
      /\ \A k \in KeysOf[g][y] : key < k
  BY ONLY h \in Nat, h # 0, Sound(h, n), i \in 0 .. n.count - 1, Neighbours
<1>2. g \in Nat /\ Sound(g, y) /\ y.count # 0 /\ KeysOf[g][x] \subseteq Keys /\ KeysOf[g][y] \subseteq Keys
  BY ONLY <1>1, h \in Nat, h # 0, Spare(n.kids[i + 1]), DegreeFacts, SMTT(30) DEF IsSubtree, Spare, Sound
<1>3. IsLeast(m, KeysOf[g][y])
  BY ONLY <1>2, m = Leftmost[h - 1][n.kids[i + 1]], Ends DEF EndsAt
<1>4. m \in Keys /\ m \in KeysOf[g][y] /\ \A k \in KeysOf[g][y] : m <= k
  BY ONLY <1>2, <1>3, SMTT(30) DEF IsLeast
<1>5. IF s.ok THEN IsSubtree(g, b) /\ KeysOf[g][b] = KeysOf[g][y] \ {m} ELSE IsShape(g, b)
  <2>1. s = NodeRemove[g][y][m][short] /\ Spare(y)
    OBVIOUS
  <2> HIDE DEF y, g
  <2> QED BY ONLY <1>1, <1>2, <1>4, <2>1, RemovesAt(h - 1), short \in Nat, SpareKid DEF g
<1> DEFINE v == SetKid(SetKey(n, i, m), i + 1, b)
<1>6. r.node = v /\ r.ok = s.ok
  OBVIOUS
<1> HIDE DEF b, x, y, key, g, v
<1>7. CASE s.ok
  <2>1. key \in Int /\ m \in Int /\ key < m /\ KeysOf[g][x] \subseteq Int /\ KeysOf[g][y] \subseteq Int
    BY ONLY <1>1, <1>2, <1>4, DegreeFacts
  <2>2. /\ \A k \in KeysOf[g][x] \cup {m} \cup KeysOf[g][b] : InWindow(n.keys, n.count, i, k)
        /\ \A k \in KeysOf[g][x] : k < m
        /\ \A k \in KeysOf[g][b] : m < k
    <3>1. \A k \in KeysOf[g][b] : m < k
      BY ONLY <1>4, <1>5, <1>7, <2>1
    <3>2. \A k \in KeysOf[g][x] : k < m
      BY ONLY <1>1, <2>1
    <3> QED BY ONLY <1>1, <1>4, <1>5, <1>7, <3>1, <3>2
  <2> DEFINE K == [n.keys EXCEPT ![i] = m]
             C == [n.kids EXCEPT ![i] = x, ![i + 1] = b]
  <2>3. v = Node(K, n.count, C)
    <3>1. [n.kids EXCEPT ![i + 1] = b] = C
      BY ONLY <1>1 DEF x
    <3> HIDE DEF C
    <3> QED BY ONLY <3>1 DEF SetKid, SetKey, Node, v
  <2>4. Sound(h, v) /\ KeysOf[h][v] = (KeysOf[h][n] \ W) \cup KeysOf[g][x] \cup {m} \cup KeysOf[g][b]
    <3>1. IsSubtree(h - 1, x) /\ IsSubtree(h - 1, b)
      BY ONLY <1>1, <1>5, <1>7 DEF g
    <3>2. /\ \A k \in KeysOf[h - 1][x] \cup {m} \cup KeysOf[h - 1][b] : InWindow(n.keys, n.count, i, k)
          /\ \A k \in KeysOf[h - 1][x] : k < m
          /\ \A k \in KeysOf[h - 1][b] : m < k
      BY ONLY <2>2 DEF g
    <3>3. /\ Sound(h, v)
          /\ KeysOf[h][v] = (KeysOf[h][n] \ (KeysOf[h - 1][n.kids[i]] \cup {n.keys[i]} \cup KeysOf[h - 1][n.kids[i + 1]]))
                               \cup KeysOf[h - 1][x] \cup {m} \cup KeysOf[h - 1][b]
      BY ONLY <1>4, <2>3, <3>1, <3>2, h \in Nat, h # 0, Sound(h, n), i \in 0 .. n.count - 1, SoundShift, SMTT(30)
    <3> QED BY ONLY <3>3 DEF g, x, y, key
  <2>5. KeysOf[h][v] = KeysOf[h][n] \ {key}
    <3>1. key \notin KeysOf[g][x] /\ key \notin KeysOf[g][y]
      BY ONLY <1>1, <2>1
    <3> QED BY ONLY <1>1, <1>4, <1>5, <1>7, <2>4, <3>1
  <2>6. v.count = n.count
    BY ONLY <2>3, NodeFields
  <2>7. Shrunk(h, n, key, v)
    BY ONLY <1>1, <2>4, <2>5, <2>6 DEF Shrunk
  <2> QED BY ONLY <1>6, <1>7, <2>7 DEF Outcome, key
<1>8. CASE ~s.ok
  <2>1. Shaped(h, n) /\ IsShape(h - 1, b)
    BY ONLY <1>5, <1>8, Sound(h, n) DEF Sound, Shaped, g
  <2>2. /\ Shaped(h, SetKey(n, i, m)) /\ SetKey(n, i, m).count = n.count
    BY ONLY <1>4, <2>1, h \in Nat, h # 0, ShapedSetKey
  <2>3. i + 1 \in 0 .. SetKey(n, i, m).count
    BY ONLY <1>1, <2>2, i \in 0 .. n.count - 1
  <2>4. Shaped(h, v) /\ v.count = n.count
    BY ONLY <2>1, <2>2, <2>3, h \in Nat, h # 0, ShapedSetKid DEF v
  <2>5. n.count \in n.count - 1 .. n.count
    BY ONLY <1>1
  <2> QED BY ONLY <1>6, <1>8, <2>4, <2>5 DEF Outcome, Halted
<1> QED BY ONLY <1>7, <1>8

\* btree_node_remove from a node with children.
LEMMA RemoveInner ==
  ASSUME NEW h \in Nat, h # 0, RemovesAt(h - 1), NEW n, Ready(h, n), NEW key \in Keys, NEW short \in Nat
  PROVE  Outcome(h, n, key, RemoveAt(NodeRemove[h - 1], h, n, key, short))
<1> DEFINE i == Smaller(n, key)
           r == RemoveAt(NodeRemove[h - 1], h, n, key, short)
           With(m, at, s) == [node |-> SetKid(m, at, s.node), ok |-> s.ok]
           here == i < n.count /\ n.keys[i] = key
<1>1. Sound(h, n) /\ (n.count # 0 \/ Spare(n.kids[0]))
  BY ONLY Ready(h, n), h # 0 DEF Ready
<1>2. n.count \in 0 .. Full /\ HasKids(h, n.count, n.kids) /\ Row(n.keys, n.count, KeySets(h, n.kids))
  BY ONLY <1>1, h \in Nat, SoundHas
<1>3. n.count \in Nat /\ key \in Int
  BY ONLY <1>2, key \in Keys, DegreeFacts
<1>4. i \in 0 .. n.count /\ (here \/ Between(n.keys, n.count, i, key))
  BY ONLY <1>2, <1>3, SmallerIs
<1>5. ~IsLeaf(n)
  BY ONLY <1>1, h \in Nat, h # 0, LeafIs
<1>6. \A q \in 0 .. n.count : IsSubtree(h - 1, n.kids[q])
  BY ONLY <1>2, h \in Nat, h # 0, InnerSets
<1>7. \A q \in 0 .. n.count : ~Spare(n.kids[q]) => n.kids[q].count = T - 1
  BY ONLY <1>6, DegreeFacts, SMTT(30) DEF IsSubtree, Spare
<1>8. CASE here /\ Spare(n.kids[i])
  <2> DEFINE m == Rightmost[h - 1][n.kids[i]]
  <2>1. r = With(SetKey(n, i, m), i, NodeRemove[h - 1][SetKey(n, i, m).kids[i]][m][short])
    BY ONLY <1>5, <1>8, Zenon DEF RemoveAt
  <2>2. SetKey(n, i, m).kids = n.kids
    BY ONLY NodeFields DEF SetKey
  <2>3. i \in 0 .. n.count - 1 /\ n.keys[i] = key
    BY ONLY <1>3, <1>4, <1>8
  <2> HIDE DEF i, r
  <2>4. Outcome(h, n, n.keys[i], r)
    BY ONLY short \in Nat, <1>1, <1>8, <2>1, <2>2, <2>3, h \in Nat, h # 0, RemovesAt(h - 1), PredecessorKeeps, Zenon
  <2> QED BY ONLY <2>3, <2>4 DEF r
<1>9. CASE here /\ ~Spare(n.kids[i]) /\ Spare(n.kids[i + 1])
  <2> DEFINE m == Leftmost[h - 1][n.kids[i + 1]]
  <2>1. r = With(SetKey(n, i, m), i + 1, NodeRemove[h - 1][SetKey(n, i, m).kids[i + 1]][m][short])
    BY ONLY <1>5, <1>9, Zenon DEF RemoveAt
  <2>2. SetKey(n, i, m).kids = n.kids
    BY ONLY NodeFields DEF SetKey
  <2>3. i \in 0 .. n.count - 1 /\ n.keys[i] = key
    BY ONLY <1>3, <1>4, <1>9
  <2> HIDE DEF i, r
  <2>4. Outcome(h, n, n.keys[i], r)
    BY ONLY short \in Nat, <1>1, <1>9, <2>1, <2>2, <2>3, h \in Nat, h # 0, RemovesAt(h - 1), SuccessorKeeps, Zenon
  <2> QED BY ONLY <2>3, <2>4 DEF r
<1>10. CASE here /\ ~Spare(n.kids[i]) /\ ~Spare(n.kids[i + 1])
  <2> DEFINE m == Merge(n, i)
  <2>1. i \in 0 .. n.count - 1 /\ i \in 0 .. n.count /\ i + 1 \in 0 .. n.count /\ n.keys[i] = key
    BY ONLY <1>3, <1>4, <1>10
  <2>2. CASE h = short /\ ~IsLeaf(n.kids[i])
    <3>1. r = [node |-> TornMerge(n, i), ok |-> FALSE]
      BY ONLY <1>5, <1>10, <2>2 DEF RemoveAt
    <3> HIDE DEF i, r
    <3>2. Halted(h, n, TornMerge(n, i))
      BY ONLY <1>1, <2>1, h \in Nat, h # 0, TornMergeHalts
    <3> QED BY ONLY <3>1, <3>2 DEF Outcome, r
  <2>3. CASE ~(h = short /\ ~IsLeaf(n.kids[i]))
    <3>1. r = With(m, i, NodeRemove[h - 1][m.kids[i]][key][short])
      BY ONLY <1>5, <1>10, <2>3 DEF RemoveAt
    <3>2. n.kids[i].count = T - 1 /\ n.kids[i + 1].count = T - 1
      BY ONLY <1>7, <1>10, <2>1
    <3> HIDE DEF i, r, m
    <3>3. /\ Sound(h, m) /\ m.count = n.count - 1 /\ KeysOf[h][m] = KeysOf[h][n] /\ m.kids[i].count = Full
          /\ \A k \in Int : InWindow(n.keys, n.count, i, k) => Between(m.keys, m.count, i, k)
      BY ONLY <1>1, <2>1, <3>2, h \in Nat, h # 0, MergeKeeps DEF m
    <3>4. InWindow(n.keys, n.count, i, key)
      BY ONLY <1>1, <2>1, h \in Nat, h # 0, Neighbours
    <3>5. /\ i \in 0 .. m.count /\ m.count \in Nat /\ m.count \in n.count - 1 .. n.count /\ Spare(m.kids[i])
      BY ONLY <1>3, <2>1, <3>3, DegreeFacts DEF Spare
    <3>6. Filled(h, n, key, m, i)
      BY ONLY <1>3, <3>3, <3>4, <3>5 DEF Filled
    <3> QED BY ONLY <3>1, <3>6, h \in Nat, h # 0, RemovesAt(h - 1), key \in Keys, short \in Nat, KidShrinks, SMTT(30) DEF r
  <2> QED BY ONLY <2>2, <2>3, Zenon
<1>11. CASE ~here
  <2> DEFINE m == IF Spare(n.kids[i]) THEN n ELSE Fill(n, i)
             at == IF i > m.count THEN i - 1 ELSE i
             merges == ~Spare(n.kids[i]) /\ ~LendsPrev(n, i) /\ ~LendsNext(n, i)
             j == MergeAt(n, i)
             stops == merges /\ h = short /\ ~IsLeaf(n.kids[j])
  <2>1. Between(n.keys, n.count, i, key)
    BY ONLY <1>4, <1>11
  <2>2. ~Spare(n.kids[i]) => n.count # 0
    <3>1. ASSUME n.count = 0 PROVE Spare(n.kids[i])
      <4>1. i = 0
        BY ONLY <1>4, <3>1
      <4> QED BY ONLY <1>1, <3>1, <4>1
    <3> QED BY ONLY <3>1
  <2>3. CASE stops
    <3>1. r = [node |-> TornMerge(n, j), ok |-> FALSE]
      BY ONLY <1>5, <1>11, <2>3, Zenon DEF RemoveAt
    <3>2. j \in 0 .. n.count - 1
      BY ONLY <1>3, <1>4, <2>2, <2>3 DEF MergeAt
    <3> HIDE DEF i, r, j
    <3>3. Halted(h, n, TornMerge(n, j))
      BY ONLY <1>1, <3>2, h \in Nat, h # 0, TornMergeHalts
    <3> QED BY ONLY <3>1, <3>3 DEF Outcome, r
  <2>4. CASE ~stops
    <3>1. r = With(m, at, NodeRemove[h - 1][m.kids[at]][key][short])
      BY ONLY <1>5, <1>11, <2>4, Zenon DEF RemoveAt
    <3>2. Filled(h, n, key, m, at)
      <4>1. CASE Spare(n.kids[i])
        <5>1. m = n /\ at = i
          BY ONLY <1>3, <1>4, <4>1
        <5>2. n.count \in n.count - 1 .. n.count
          BY ONLY <1>3
        <5> HIDE DEF i, m, at
        <5> QED BY ONLY <1>1, <1>3, <1>4, <2>1, <4>1, <5>1, <5>2 DEF Filled
      <4>2. CASE ~Spare(n.kids[i])
        <5>1. m = Fill(n, i)
          BY ONLY <4>2
        <5> HIDE DEF i, m
        <5> QED BY ONLY <1>1, <1>3, <1>4, <2>1, <2>2, <4>2, <5>1, h \in Nat, h # 0, FillKeeps
      <4> QED BY ONLY <4>1, <4>2
    <3> HIDE DEF i, r, m, at
    <3> QED BY ONLY <3>1, <3>2, h \in Nat, h # 0, RemovesAt(h - 1), key \in Keys, short \in Nat, KidShrinks DEF r
  <2> QED BY ONLY <2>3, <2>4, Zenon
<1> QED BY ONLY <1>8, <1>9, <1>10, <1>11

\* btree_node_remove takes the key and nothing else from a tree, or halts at a
\* merge without memory and leaves the shape of the tree alone.
LEMMA RemoveKeeps == \A h \in Nat : RemovesAt(h)
<1> DEFINE Good == {h \in Nat : RemovesAt(h)}
<1>1. ASSUME NEW h \in Nat, NEW n, NEW key \in Keys, NEW short \in Nat, Ready(h, n)
      PROVE  NodeRemove[h][n][key][short] = RemoveAt(NodeRemove[h - 1], h, n, key, short)
  <2>1. n \in Trees[h]
    BY <1>1 DEF Ready, Sound
  <2>2. NodeRemove[h] = NodeRemoveStep(NodeRemove[h - 1], h)
    BY NodeRemoveDef
  <2> QED BY ONLY <2>1, <2>2, key \in Keys, short \in Nat DEF NodeRemoveStep
<1>2. ASSUME NEW h \in Nat, h = 0 PROVE RemovesAt(h)
  <2> SUFFICES ASSUME NEW n, NEW key \in Keys, NEW short \in Nat, Ready(h, n)
               PROVE  Outcome(h, n, key, NodeRemove[h][n][key][short])
    BY DEF RemovesAt
  <2> DEFINE i == Smaller(n, key)
             S == KeySets(h, n.kids)
             s == NodeRemove[h][n][key][short]
             r == s.node
             here == i < n.count /\ n.keys[i] = key
  <2>1. Sound(h, n)
    BY ONLY Ready(h, n) DEF Ready
  <2>2. /\ n.count \in 0 .. Full /\ Row(n.keys, n.count, S) /\ KeysOf[h][n] = RowKeys(n.keys, n.count, S)
    BY ONLY <2>1, h \in Nat, SoundHas
  <2>3. n.count \in Nat /\ key \in Int /\ n.count - 1 \in n.count - 1 .. n.count /\ n.count \in n.count - 1 .. n.count
    BY ONLY <2>2, key \in Keys, DegreeFacts
  <2>4. i \in 0 .. n.count /\ (here \/ Between(n.keys, n.count, i, key))
    BY ONLY <2>2, <2>3, SmallerIs
  <2>5. IsLeaf(n)
    BY ONLY <1>2, <2>1, h \in Nat, LeafIs
  <2>6. s = RemoveAt(NodeRemove[h - 1], h, n, key, short)
    BY ONLY <1>1, h \in Nat, Ready(h, n), key \in Keys, short \in Nat
  <2> HIDE DEF s
  <2>7. CASE here
    <3>1. s.ok /\ r = Node(Closed(n, i), n.count - 1, NoKids)
      BY ONLY <2>5, <2>7, <2>6 DEF RemoveAt
    <3>2. i \in 0 .. n.count - 1 /\ n.keys[i] = key
      BY ONLY <2>3, <2>4, <2>7
    <3>3. r.count = n.count - 1
      BY ONLY <3>1, NodeFields
    <3> HIDE DEF i, r
    <3>4. Sound(h, r) /\ KeysOf[h][r] = KeysOf[h][n] \ {key}
      BY ONLY <1>2, <2>1, <3>1, <3>2, h \in Nat, LeafClose
    <3>5. Shrunk(h, n, key, r)
      BY ONLY <2>3, <3>3, <3>4, SMTT(30) DEF Shrunk
    <3> QED BY ONLY <3>1, <3>5 DEF Outcome, r, s
  <2>8. CASE ~here
    <3>1. s.ok /\ r = n
      BY ONLY <2>5, <2>8, <2>6 DEF RemoveAt
    <3>2. S[i] = {}
      <4>1. i \in Places
        BY ONLY <2>2, <2>4, DegreeFacts
      <4> HIDE DEF i
      <4> QED BY ONLY <1>2, <4>1, LeafSets
    <3>3. Between(n.keys, n.count, i, key)
      BY ONLY <2>4, <2>8
    <3> HIDE DEF i, r, S
    <3>4. key \notin KeysOf[h][n]
      BY ONLY <2>2, <2>3, <2>4, <3>2, <3>3, RowPlace
    <3>5. Shrunk(h, n, key, r)
      BY ONLY <2>1, <2>3, <3>1, <3>4, SMTT(30) DEF Shrunk
    <3> QED BY ONLY <3>1, <3>5 DEF Outcome, r, s
  <2> QED BY ONLY <2>7, <2>8
<1>3. 0 \in Good
  BY <1>2
<1>4. ASSUME NEW m \in Good PROVE m + 1 \in Good
  <2> DEFINE h == m + 1
  <2>1. h \in Nat /\ h # 0 /\ h - 1 = m /\ RemovesAt(m)
    BY <1>4
  <2> HIDE DEF h
  <2>2. RemovesAt(h)
    <3> SUFFICES ASSUME NEW n, NEW key \in Keys, NEW short \in Nat, Ready(h, n)
                 PROVE  Outcome(h, n, key, NodeRemove[h][n][key][short])
      BY DEF RemovesAt
    <3>1. Outcome(h, n, key, RemoveAt(NodeRemove[h - 1], h, n, key, short))
      BY <2>1, RemoveInner
    <3> QED BY <1>1, <2>1, <3>1
  <2> QED BY <2>1, <2>2 DEF h
<1>5. Good = Nat
  <2> HIDE DEF Good
  <2>1. Good \in SUBSET Nat
    BY DEF Good
  <2> QED BY <1>3, <1>4, <2>1, NatInductionOnSets
<1> QED BY <1>5

----------------------------------------------------------------------------
(* Search.                                                                  *)

FindsAt(h) == \A n : \A key \in Keys : Sound(h, n) /\ key \in KeysOf[h][n] => Search[h][n][key]

\* btree_search goes for a key where it is.
LEMMA SearchFinds == \A h \in Nat : FindsAt(h)
<1> DEFINE Good == {h \in Nat : FindsAt(h)}
<1>1. ASSUME NEW h \in Nat, NEW n, NEW key \in Keys, Sound(h, n)
      PROVE  Search[h][n][key] = SearchAt(Search[h - 1], n, key)
  <2>1. n \in Trees[h]
    BY <1>1 DEF Sound
  <2>2. Search[h] = SearchStep(Search[h - 1], h)
    BY SearchDef
  <2> QED BY ONLY <2>1, <2>2, key \in Keys DEF SearchStep
<1>2. ASSUME NEW h \in Nat, NEW n, NEW key \in Keys, Sound(h, n), key \in KeysOf[h][n],
             h # 0 => FindsAt(h - 1)
      PROVE  Search[h][n][key]
  <2> DEFINE i == Smaller(n, key)
             S == KeySets(h, n.kids)
  <2>1. /\ n.count \in 0 .. Full /\ HasKids(h, n.count, n.kids) /\ Row(n.keys, n.count, S)
        /\ KeysOf[h][n] = RowKeys(n.keys, n.count, S)
    BY ONLY h \in Nat, Sound(h, n), SoundHas
  <2>2. n.count \in Nat /\ key \in Int
    BY ONLY <2>1, key \in Keys, DegreeFacts
  <2>3. i \in 0 .. n.count /\ (n.keys[i] = key \/ Between(n.keys, n.count, i, key))
    BY ONLY <2>1, <2>2, SmallerIs
  <2>4. CASE n.keys[i] = key
    <3>1. SearchAt(Search[h - 1], n, key)
      BY ONLY <2>4 DEF SearchAt
    <3> QED BY ONLY <1>1, <1>2, <3>1
  <2>5. CASE Between(n.keys, n.count, i, key)
    <3> HIDE DEF i, S
    <3>1. key \in S[i]
      BY ONLY <1>2, <2>1, <2>2, <2>3, <2>5, RowPlace
    <3>2. h # 0
      <4>1. i \in Places
        BY ONLY <2>1, <2>3, DegreeFacts
      <4> QED BY ONLY <3>1, <4>1, LeafSets DEF S
    <3>3. IsSubtree(h - 1, n.kids[i]) /\ S[i] = KeysOf[h - 1][n.kids[i]]
      BY ONLY <2>1, <2>3, <3>2, h \in Nat, InnerSets DEF S
    <3>4. Search[h - 1][n.kids[i]][key]
      BY ONLY <1>2, <3>1, <3>2, <3>3 DEF FindsAt, IsSubtree
    <3>5. ~IsLeaf(n)
      BY ONLY <1>2, <3>2, LeafIs
    <3>6. SearchAt(Search[h - 1], n, key)
      BY ONLY <3>4, <3>5 DEF SearchAt, i
    <3> QED BY ONLY <1>1, <1>2, <3>6
  <2> QED BY ONLY <2>3, <2>4, <2>5
<1>3. 0 \in Good
  BY <1>2 DEF FindsAt
<1>4. ASSUME NEW m \in Good PROVE m + 1 \in Good
  <2> DEFINE h == m + 1
  <2>1. h \in Nat /\ h # 0 /\ h - 1 = m /\ FindsAt(m)
    BY <1>4
  <2> HIDE DEF h
  <2>2. FindsAt(h)
    BY <1>2, <2>1 DEF FindsAt
  <2> QED BY <2>1, <2>2 DEF h
<1>5. Good = Nat
  <2> HIDE DEF Good
  <2>1. Good \in SUBSET Nat
    BY DEF Good
  <2> QED BY <1>3, <1>4, <2>1, NatInductionOnSets
<1> QED BY <1>5

----------------------------------------------------------------------------
(* The root.                                                                *)

\* The node that btree_insert makes for the first key.
LEMMA FirstNode ==
  ASSUME NEW h \in Nat, h = 0, NEW key \in Keys,
         NEW r, r = Node([NoKeys EXCEPT ![0] = key], 1, NoKids)
  PROVE  Sound(h, r) /\ r.count = 1 /\ KeysOf[h][r] = {key}
<1> DEFINE K == [NoKeys EXCEPT ![0] = key]
           S == KeySets(h, NoKids)
<1>1. K \in [Places -> Keys \cup {NoKey}] /\ K[0] = key
  BY ONLY key \in Keys, DegreeFacts DEF NoKeys
<1>2. HasKids(h, 1, NoKids) /\ NoKids \in [Places -> {NoNode} \cup IF h = 0 THEN {} ELSE Trees[h - 1]]
  BY ONLY h = 0, LeafKids
<1>3. S[0] = {} /\ S[1] = {}
  <2>1. 0 \in Places /\ 1 \in Places
    BY ONLY DegreeFacts
  <2> QED BY ONLY <2>1, h = 0, LeafSets
<1>4. 0 .. 1 - 1 = {0} /\ 0 .. 1 = {0, 1} /\ 1 \in 0 .. Full
  BY ONLY DegreeFacts
<1> HIDE DEF S, K
<1>5. Row(K, 1, S)
  BY ONLY <1>1, <1>3, <1>4, key \in Keys, DegreeFacts DEF Row
<1>6. RowKeys(K, 1, S) = {key}
  BY ONLY <1>1, <1>3, <1>4 DEF RowKeys
<1>7. r = Node(K, 1, NoKids)
  BY DEF K
<1> DEFINE c == 1
<1> HIDE DEF c
<1>8. Sound(h, Node(K, c, NoKids)) /\ KeysOf[h][Node(K, c, NoKids)] = RowKeys(K, c, S)
  <2>1. c \in 0 .. Full /\ HasKids(h, c, NoKids) /\ Row(K, c, S) /\ RowKeys(K, c, S) \subseteq Keys
    BY ONLY <1>2, <1>4, <1>5, <1>6, key \in Keys DEF c
  <2> QED BY ONLY <1>1, <1>2, <2>1, h \in Nat, SoundNode DEF S
<1>9. r.count = 1
  BY ONLY <1>7, NodeFields
<1> QED BY ONLY <1>6, <1>7, <1>8, <1>9 DEF c

\* A node without keys above a tree holds what the tree holds.
LEMMA AboveKeeps ==
  ASSUME NEW h \in Nat, h # 0, NEW x, IsSubtree(h - 1, x),
         NEW r, r = Node(NoKeys, 0, [NoKids EXCEPT ![0] = x])
  PROVE  Sound(h, r) /\ r.count = 0 /\ r.kids[0] = x /\ KeysOf[h][r] = KeysOf[h - 1][x]
<1> DEFINE C == [NoKids EXCEPT ![0] = x]
           S == KeySets(h, C)
           c == 0
<1>1. 0 \in Places /\ c \in 0 .. Full /\ 0 .. c - 1 = {} /\ 0 .. c = {0}
  BY ONLY DegreeFacts
<1>2. NoKeys \in [Places -> Keys \cup {NoKey}]
  BY DEF NoKeys
<1>3. C[0] = x /\ \A q \in Places : q # 0 => C[q] = NoNode
  BY ONLY <1>1 DEF NoKids
<1>4. x \in Trees[h - 1]
  BY ONLY IsSubtree(h - 1, x) DEF IsSubtree, Sound
<1>5. C \in [Places -> {NoNode} \cup IF h = 0 THEN {} ELSE Trees[h - 1]]
  BY ONLY <1>4, h # 0 DEF NoKids
<1>6. \A q \in Places : q > c <=> q # 0
  BY ONLY DegreeFacts
<1> HIDE DEF C, c
<1>7. HasKids(h, c, C)
  BY ONLY <1>3, <1>6, h # 0, IsSubtree(h - 1, x) DEF HasKids
<1> HIDE DEF S
<1>8. S[0] = KeysOf[h - 1][x] /\ KeysOf[h - 1][x] \subseteq Keys
  <2>1. S[0] = KeysOf[h - 1][C[0]]
    BY ONLY <1>1, <1>7, h \in Nat, h # 0, InnerSets DEF S
  <2> QED BY ONLY <1>3, <2>1, IsSubtree(h - 1, x) DEF IsSubtree, Sound
<1>9. Row(NoKeys, c, S)
  BY ONLY <1>1, <1>8, DegreeFacts DEF Row, Between
<1>10. RowKeys(NoKeys, c, S) = KeysOf[h - 1][x]
  BY ONLY <1>1, <1>8 DEF RowKeys
<1>11. Sound(h, Node(NoKeys, c, C)) /\ KeysOf[h][Node(NoKeys, c, C)] = RowKeys(NoKeys, c, S)
  BY ONLY <1>1, <1>2, <1>5, <1>7, <1>8, <1>9, <1>10, h \in Nat, SoundNode DEF S
<1>12. r = Node(NoKeys, c, C)
  BY DEF C, c
<1>13. r.count = 0 /\ r.kids[0] = x
  BY ONLY <1>3, <1>12, NodeFields DEF c
<1> QED BY ONLY <1>10, <1>11, <1>12, <1>13

\* The keys of a node without keys are those of its first child.
LEMMA BareKeys ==
  ASSUME NEW h \in Nat, NEW r, Sound(h, r), r.count = 0
  PROVE  /\ h = 0 => KeysOf[h][r] = {}
         /\ h # 0 => IsSubtree(h - 1, r.kids[0]) /\ KeysOf[h][r] = KeysOf[h - 1][r.kids[0]]
<1> DEFINE S == KeySets(h, r.kids)
           c == r.count
<1>1. c \in 0 .. Full /\ HasKids(h, c, r.kids) /\ KeysOf[h][r] = RowKeys(r.keys, c, S)
  BY ONLY h \in Nat, Sound(h, r), SoundHas
<1>2. 0 \in 0 .. c /\ 0 \in Places /\ 0 .. c - 1 = {} /\ 0 .. c = {0}
  BY ONLY r.count = 0, DegreeFacts
<1> HIDE DEF S, c
<1>3. KeysOf[h][r] = S[0]
  BY ONLY <1>1, <1>2 DEF RowKeys
<1>4. h = 0 => S[0] = {}
  BY ONLY <1>2, LeafSets DEF S
<1>5. h # 0 => IsSubtree(h - 1, r.kids[0]) /\ S[0] = KeysOf[h - 1][r.kids[0]]
  BY ONLY <1>1, <1>2, h \in Nat, InnerSets DEF S
<1> QED BY ONLY <1>3, <1>4, <1>5

\* A root without keys, which an insertion that ran out of memory left, is split
\* by the next insertion or stays as it is.
LEMMA BareRootInsert ==
  ASSUME NEW h \in Nat, h # 0, NEW x, Sound(h, x), x.count = 0, x.kids[0].count = Full,
         NEW key \in Keys, NEW mem \in Nat, NEW r, r = InsertNonfull[h][x][key][mem]
  PROVE  r.node = x \/ r.node.count = 1
<1> DEFINE v == InsertNonfull[h - 1]
           s == SplitChild(x, 0)
           j == IF s.keys[0] < key THEN 0 + 1 ELSE 0
           u == v[s.kids[j]][key][mem - 1]
<1>1. NotGreater(x, key) = 0
  <2>1. {p \in 0 .. x.count - 1 : x.keys[p] <= key} = {}
    BY ONLY x.count = 0
  <2> QED BY ONLY <2>1, FS_EmptySet DEF NotGreater
<1>2. ~IsLeaf(x) /\ NeedsSplit(x.kids[0])
  BY ONLY h \in Nat, h # 0, Sound(h, x), x.kids[0].count = Full, LeafIs DEF NeedsSplit
<1>3. r = InsertAt(v, x, key, mem)
  <2>1. x \in Trees[h]
    BY DEF Sound
  <2>2. InsertNonfull[h] = InsertNonfullStep(InsertNonfull[h - 1], h)
    BY InsertNonfullDef
  <2> QED BY ONLY <2>1, <2>2, key \in Keys, mem \in Nat, r = InsertNonfull[h][x][key][mem] DEF InsertNonfullStep
<1>4. mem = 0 => r.node = x
  BY ONLY <1>1, <1>2, <1>3, Zenon DEF InsertAt
<1>5. mem # 0 => r = [node |-> SetKid(s, j, u.node), ok |-> u.ok]
  BY ONLY <1>1, <1>2, <1>3, Zenon DEF InsertAt
<1> HIDE DEF j, u
<1>6. SetKid(s, j, u.node).count = s.count /\ s.count = 1
  <2>1. s.count = x.count + 1
    BY ONLY NodeFields DEF SplitChild
  <2> HIDE DEF s
  <2>2. SetKid(s, j, u.node).count = s.count
    BY ONLY NodeFields DEF SetKid
  <2> QED BY ONLY <2>1, <2>2, x.count = 0
<1> QED BY ONLY <1>4, <1>5, <1>6

----------------------------------------------------------------------------
(* The invariant: what the tree is between two operations.                  *)

\* A tree of height h holds the keys in M.  One with a bare root is what an
\* insertion leaves that had a node for the new root and none to split the old one.
Settled(h, n, M) ==
  /\ h \in Nat /\ Sound(h, n) /\ KeysOf[h][n] = M
  /\ n.count = 0 => h # 0 /\ n.kids[0].count = Full

Holds(h, n, M) == IF n = NoNode THEN h = 0 /\ M = {} ELSE Settled(h, n, M)

\* A removal that stopped in a merge has left nothing but the shape.
BTreeInv == IF torn THEN height \in Nat /\ Shaped(height, root) ELSE Holds(height, root, members)

LEMMA SettledHolds == ASSUME NEW h, NEW n, NEW M, Settled(h, n, M) PROVE Holds(h, n, M)
BY NoNodeIsNoTree DEF Settled, Sound, Holds

LEMMA FullIsSubtree == ASSUME NEW h, NEW n, Sound(h, n), n.count = Full PROVE IsSubtree(h, n)
BY DegreeFacts DEF IsSubtree

LEMMA InsertHolds ==
  ASSUME BTreeInv, ~torn, NEW key \in Keys, key \notin members, NEW mem \in Nat, NEW r, r = Inserted(key, mem)
  PROVE  Holds(IF Rises(mem) THEN height + 1 ELSE height, r.node,
               IF r.ok THEN members \cup {key} ELSE members)
<1> DEFINE M == IF r.ok THEN members \cup {key} ELSE members
           H == IF Rises(mem) THEN height + 1 ELSE height
<1>1. CASE root = NoNode
  <2>1. height = 0 /\ height \in Nat /\ members = {}
    BY ONLY <1>1, BTreeInv, ~torn DEF BTreeInv, Holds
  <2>2. H = height
    BY ONLY <1>1 DEF Rises
  <2> HIDE DEF H
  <2>3. CASE mem = 0
    <3>1. r = [node |-> root, ok |-> FALSE]
      BY ONLY <1>1, <2>3, r = Inserted(key, mem) DEF Inserted
    <3> QED BY ONLY <1>1, <2>1, <2>2, <3>1 DEF Holds, H
  <2>4. CASE mem > 0
    <3> DEFINE x == Node([NoKeys EXCEPT ![0] = key], 1, NoKids)
    <3>1. mem # 0
      BY ONLY <2>4, mem \in Nat
    <3>2. r = [node |-> x, ok |-> TRUE]
      BY ONLY <1>1, <2>4, <3>1, r = Inserted(key, mem) DEF Inserted
    <3>3. Sound(height, x) /\ x.count = 1 /\ KeysOf[height][x] = {key}
      BY ONLY <2>1, key \in Keys, FirstNode
    <3> HIDE DEF x
    <3>4. M = {key} /\ x.count # 0
      BY ONLY <2>1, <3>2, <3>3
    <3>5. Settled(height, x, M)
      BY ONLY <2>1, <3>3, <3>4 DEF Settled
    <3> HIDE DEF M
    <3> QED BY ONLY <2>2, <3>2, <3>5, SettledHolds DEF M, H
  <2> QED BY ONLY <2>3, <2>4, mem \in Nat
<1>2. CASE root # NoNode
  <2>1. Settled(height, root, members)
    BY ONLY <1>2, BTreeInv, ~torn DEF BTreeInv, Holds
  <2>2. height \in Nat /\ Sound(height, root) /\ KeysOf[height][root] = members
    BY ONLY <2>1 DEF Settled
  <2>3. root.count \in 0 .. Full
    BY ONLY <2>2, SoundHas
  <2>4. CASE ~NeedsSplit(root)
    <3>1. r = InsertNonfull[height][root][key][mem]
      BY ONLY <1>2, <2>4, r = Inserted(key, mem) DEF Inserted
    <3>2. H = height
      BY ONLY <2>4 DEF Rises
    <3>3. root.count < Full
      BY ONLY <2>3, <2>4, DegreeFacts DEF NeedsSplit
    <3>4. Grown(height, root, key, r)
      BY ONLY <2>2, <3>1, <3>3, key \in Keys, key \notin members, mem \in Nat, InsertKeeps DEF InsertsAt
    <3>5. r.node.count = 0 => height # 0 /\ r.node.kids[0].count = Full
      <4> SUFFICES ASSUME r.node.count = 0 PROVE height # 0 /\ r.node.kids[0].count = Full
        OBVIOUS
      <4>1. root.count = 0
        BY ONLY <2>3, <3>4, r.node.count = 0, DegreeFacts DEF Grown
      <4>2. height # 0 /\ root.kids[0].count = Full
        BY ONLY <2>1, <4>1 DEF Settled
      <4>3. r.node = root \/ r.node.count = 1
        BY ONLY <2>2, <3>1, <4>1, <4>2, key \in Keys, mem \in Nat, BareRootInsert
      <4> QED BY ONLY <4>2, <4>3, r.node.count = 0
    <3>6. KeysOf[height][r.node] = M
      BY ONLY <2>2, <3>4 DEF Grown
    <3> HIDE DEF M
    <3>7. Settled(height, r.node, M)
      BY ONLY <2>2, <3>4, <3>5, <3>6 DEF Settled, Grown
    <3> QED BY ONLY <3>2, <3>7, SettledHolds DEF M
  <2>5. CASE NeedsSplit(root) /\ mem = 0
    <3>1. r = [node |-> root, ok |-> FALSE]
      BY ONLY <1>2, <2>5, r = Inserted(key, mem) DEF Inserted
    <3>2. H = height
      BY ONLY <2>5 DEF Rises
    <3> QED BY ONLY <3>1, <3>2, BTreeInv, ~torn DEF BTreeInv
  <2>6. CASE NeedsSplit(root) /\ mem > 0
    <3> DEFINE h == height + 1
    <3>1. h \in Nat /\ h # 0 /\ h - 1 = height
      BY ONLY <2>2
    <3>2. H = h
      BY ONLY <1>2, <2>6 DEF Rises
    <3> HIDE DEF h, H
    <3>3. IsSubtree(h - 1, root) /\ root.count = Full
      BY ONLY <2>2, <2>6, <3>1, FullIsSubtree DEF NeedsSplit
    <3>4. Sound(h, Above) /\ Above.count = 0 /\ Above.kids[0] = root /\ KeysOf[h][Above] = KeysOf[h - 1][root]
      BY ONLY <3>1, <3>3, AboveKeeps DEF Above
    <3>5. KeysOf[h][Above] = members
      BY ONLY <2>2, <3>1, <3>4
    <3>6. CASE mem = 1
      <4>1. r = [node |-> Above, ok |-> FALSE]
        <5>1. mem # 0 /\ ~(mem > 1) /\ mem > 0
          BY ONLY <3>6
        <5> QED BY ONLY <1>2, <2>6, <3>6, <5>1, r = Inserted(key, mem) DEF Inserted
      <4>2. Settled(h, Above, members)
        BY ONLY <3>1, <3>3, <3>4, <3>5 DEF Settled
      <4> QED BY ONLY <3>2, <4>1, <4>2, SettledHolds DEF H
    <3>7. CASE mem # 1
      <4> DEFINE y == SplitChild(Above, 0)
      <4>1. mem # 0 /\ mem > 1 /\ mem - 2 \in Nat
        BY ONLY <2>6, <3>7, mem \in Nat
      <4>2. r = InsertNonfull[h][y][key][mem - 2]
        BY ONLY <1>2, <2>6, <3>7, <4>1, r = Inserted(key, mem) DEF Inserted, h
      <4>3. Sound(h, y) /\ y.count = Above.count + 1 /\ KeysOf[h][y] = KeysOf[h][Above]
        <5> DEFINE i == 0
        <5>1. i \in 0 .. Above.count /\ Above.count < Full /\ Above.kids[i].count = Full
          BY ONLY <3>3, <3>4, DegreeFacts
        <5>2. y = SplitChild(Above, i)
          OBVIOUS
        <5> HIDE DEF i, y
        <5> QED BY ONLY <3>1, <3>4, <5>1, <5>2, SplitKeeps
      <4> HIDE DEF y
      <4>4. y.count = 1 /\ y.count < Full /\ key \notin KeysOf[h][y]
        BY ONLY <3>4, <3>5, <4>3, key \notin members, DegreeFacts
      <4>5. Grown(h, y, key, r)
        BY ONLY <3>1, <4>1, <4>2, <4>3, <4>4, key \in Keys, InsertKeeps DEF InsertsAt
      <4>6. r.node.count # 0
        BY ONLY <4>4, <4>5 DEF Grown
      <4>7. KeysOf[h][r.node] = M
        BY ONLY <3>5, <4>3, <4>5 DEF Grown
      <4> HIDE DEF M
      <4>8. Settled(h, r.node, M)
        BY ONLY <3>1, <4>5, <4>6, <4>7 DEF Settled, Grown
      <4> QED BY ONLY <3>2, <4>8, SettledHolds DEF M, H
    <3> QED BY ONLY <3>6, <3>7
  <2> QED BY ONLY <2>4, <2>5, <2>6, mem \in Nat
<1> QED BY ONLY <1>1, <1>2

LEMMA RemoveHolds ==
  ASSUME BTreeInv, ~torn, root # NoNode, NEW key \in Keys, NEW short \in Nat,
         NEW s, s = NodeRemove[height][root][key][short]
  PROVE  IF s.ok THEN Holds(IF Sinks(s.node) THEN height - 1 ELSE height, Shortened(s.node), members \ {key})
         ELSE height \in Nat /\ Shaped(height, s.node)
<1> DEFINE h == height
           r == s.node
           M == members \ {key}
           H == IF Sinks(r) THEN height - 1 ELSE height
<1>1. Settled(h, root, members)
  BY DEF BTreeInv, Holds
<1>2. h \in Nat /\ Sound(h, root) /\ KeysOf[h][root] = members
  BY ONLY <1>1 DEF Settled
<1>3. Ready(h, root)
  BY ONLY <1>1, <1>2, DegreeFacts DEF Settled, Ready, Spare
<1> HIDE DEF h
<1>4. Outcome(h, root, key, s)
  <2>1. s = NodeRemove[h][root][key][short]
    BY DEF h
  <2> QED BY ONLY <1>2, <1>3, <2>1, key \in Keys, short \in Nat, RemoveKeeps DEF RemovesAt
<1>5. CASE ~s.ok
  BY ONLY <1>2, <1>4, <1>5 DEF Outcome, Halted, h
<1>6. CASE s.ok
  <2>1. Shrunk(h, root, key, r)
    BY ONLY <1>4, <1>6 DEF Outcome
  <2> HIDE DEF r
  <2>2. Sound(h, r) /\ KeysOf[h][r] = M
    BY ONLY <1>2, <2>1 DEF Shrunk
  <2>3. r.count \in Nat /\ (IsLeaf(r) <=> h = 0)
    BY ONLY <1>2, <2>2, SoundHas, LeafIs, DegreeFacts
  <2>4. Sinks(r) <=> r.count = 0 /\ ~IsLeaf(r)
    BY ONLY TRUE DEF Sinks
  <2> HIDE DEF M
  <2>5. CASE r.count # 0
    <3>1. r.count > 0 /\ H = height
      BY ONLY <2>3, <2>4, <2>5
    <3>2. Shortened(r) = r
      BY ONLY <2>5, <3>1 DEF Shortened
    <3>3. Settled(h, r, M)
      BY ONLY <1>2, <2>2, <2>5 DEF Settled
    <3> QED BY ONLY <3>1, <3>2, <1>6, <3>3, SettledHolds DEF M, h, r
  <2>6. CASE r.count = 0 /\ h = 0
    <3>1. IsLeaf(r) /\ ~(r.count > 0) /\ H = height
      BY ONLY <2>3, <2>4, <2>6
    <3>2. Shortened(r) = NoNode
      BY ONLY <2>6, <3>1 DEF Shortened
    <3>3. M = {}
      BY ONLY <1>2, <2>2, <2>6, BareKeys
    <3> QED BY ONLY <2>6, <3>1, <3>2, <3>3, <1>6 DEF Holds, M, h, r
  <2>7. CASE r.count = 0 /\ h # 0
    <3> DEFINE x == r.kids[0]
               g == h - 1
    <3>1. ~IsLeaf(r) /\ ~(r.count > 0) /\ H = g
      BY ONLY <2>3, <2>4, <2>7 DEF h
    <3>2. Shortened(r) = x
      BY ONLY <2>7, <3>1 DEF Shortened
    <3>3. IsSubtree(g, x) /\ KeysOf[h][r] = KeysOf[g][x]
      BY ONLY <1>2, <2>2, <2>7, BareKeys
    <3>4. g \in Nat
      BY ONLY <1>2, <2>7
    <3> HIDE DEF g, x
    <3>5. x.count # 0
      BY ONLY <3>3, DegreeFacts DEF IsSubtree
    <3>6. Settled(g, x, M)
      BY ONLY <2>2, <3>3, <3>4, <3>5 DEF Settled, IsSubtree
    <3> QED BY ONLY <3>1, <3>2, <3>6, <1>6, SettledHolds DEF M, r
  <2> QED BY ONLY <2>5, <2>6, <2>7
<1> QED BY ONLY <1>5, <1>6

\* The invariant holds before the first operation and after each, an insertion or
\* a removal that ran out of memory half-way included.
THEOREM BTreeInvHolds == Spec => []BTreeInv
<1>1. Init => BTreeInv
  BY DEF Init, BTreeInv, Holds
<1>2. BTreeInv /\ [Next]_btvars => BTreeInv'
  <2> SUFFICES ASSUME BTreeInv, [Next]_btvars PROVE BTreeInv'
    OBVIOUS
  <2>1. ASSUME NEW key \in Keys, NEW mem \in 0 .. Mem, BtreeInsert(key, mem) PROVE BTreeInv'
    <3>1. mem \in Nat
      BY DegreeAssumption
    <3> DEFINE r == Inserted(key, mem)
    <3>2. /\ ~torn /\ ~torn' /\ key \notin members /\ root' = r.node
          /\ members' = IF r.ok THEN members \cup {key} ELSE members
          /\ height' = IF Rises(mem) THEN height + 1 ELSE height
      BY <2>1 DEF BtreeInsert
    <3> HIDE DEF r
    <3>3. Holds(IF Rises(mem) THEN height + 1 ELSE height, r.node, IF r.ok THEN members \cup {key} ELSE members)
      BY ONLY <3>1, <3>2, BTreeInv, key \in Keys, InsertHolds DEF r
    <3>4. Holds(height', root', members')
      BY ONLY <3>2, <3>3
    <3> QED BY ONLY <3>2, <3>4 DEF BTreeInv, Holds, Settled, Sound
  <2>2. ASSUME NEW key \in Keys, NEW short \in {0} \cup 2 .. height, BtreeRemove(key, short) PROVE BTreeInv'
    <3> DEFINE s == NodeRemove[height][root][key][short]
    <3>1. ~torn /\ root # NoNode
      BY <2>2 DEF BtreeRemove
    <3>2. height \in Nat
      BY ONLY <3>1, BTreeInv DEF BTreeInv, Holds, Settled
    <3>3. short \in Nat
      BY ONLY <3>2, short \in {0} \cup 2 .. height
    <3>4. IF s.ok THEN /\ root' = Shortened(s.node) /\ members' = members \ {key} /\ torn' = torn
                       /\ height' = IF Sinks(s.node) THEN height - 1 ELSE height
          ELSE root' = s.node /\ torn' = TRUE /\ height' = height
      BY <2>2 DEF BtreeRemove
    <3>5. IF s.ok THEN Holds(IF Sinks(s.node) THEN height - 1 ELSE height, Shortened(s.node), members \ {key})
          ELSE height \in Nat /\ Shaped(height, s.node)
      BY ONLY <3>1, <3>3, BTreeInv, key \in Keys, RemoveHolds
    <3> HIDE DEF s
    <3>6. CASE s.ok
      <4>1. Holds(height', root', members') /\ ~torn'
        BY ONLY <3>1, <3>4, <3>5, <3>6
      <4> QED BY ONLY <4>1 DEF BTreeInv, Holds, Settled, Sound
    <3>7. CASE ~s.ok
      <4>1. height' \in Nat /\ Shaped(height', root') /\ torn'
        BY ONLY <3>4, <3>5, <3>7
      <4> QED BY ONLY <4>1 DEF BTreeInv, Shaped
    <3> QED BY ONLY <3>6, <3>7
  <2>3. CASE BtreeDestroy
    BY <2>3 DEF BtreeDestroy, BTreeInv, Holds
  <2>4. CASE UNCHANGED btvars
    BY <2>4 DEF btvars, BTreeInv, Holds, Settled, Sound, Shaped
  <2> QED BY <2>1, <2>2, <2>3, <2>4 DEF Next
<1> QED BY <1>1, <1>2, PTL DEF Spec

\* The tree holds the keys that were inserted and not removed, in order, for every
\* minimum degree, every set of keys and any number of nodes to be had, as long as
\* no removal ran out of memory in a merge: splits, merges and keys moved between
\* nodes (btree_split_child, btree_node_merge, btree_node_fill) neither lose a key
\* nor bring one back.
THEOREM KeepsKeysHolds == Spec => []KeepsKeys
<1>1. BTreeInv => KeepsKeys
  BY DEF BTreeInv, Holds, Settled, Sound, KeepsKeys
<1> QED BY <1>1, BTreeInvHolds, PTL

\* After every operation, one that ran out of memory half-way included, every node
\* but the root has T - 1 to 2T - 1 keys and one child more than keys, and all
\* leaves are at one depth.
THEOREM BalancedHolds == Spec => []Balanced
<1>1. BTreeInv => Balanced
  <2> SUFFICES ASSUME BTreeInv, root # NoNode PROVE root.count \in 0 .. Full /\ Even[height][root]
    BY DEF Balanced
  <2>1. height \in Nat /\ Shaped(height, root)
    BY DEF BTreeInv, Holds, Settled, Sound, Shaped
  <2> QED BY ONLY <2>1, TreeFields DEF Shaped
<1> QED BY <1>1, BTreeInvHolds, PTL

\* As long as no removal ran out of memory in a merge, btree_search finds every key
\* inserted and not removed since.
THEOREM FindsMembersHolds == Spec => []FindsMembers
<1>1. BTreeInv => FindsMembers
  <2> SUFFICES ASSUME BTreeInv, ~torn, NEW key \in members PROVE root # NoNode /\ Search[height][root][key]
    BY DEF FindsMembers, Lookup
  <2>1. root # NoNode
    BY DEF BTreeInv, Holds
  <2>2. height \in Nat /\ Sound(height, root) /\ key \in KeysOf[height][root]
    BY ONLY <2>1, ~torn, BTreeInv, key \in members DEF BTreeInv, Holds, Settled
  <2>3. key \in Keys
    BY ONLY <2>2 DEF Sound
  <2> QED BY ONLY <2>1, <2>2, <2>3, SearchFinds DEF FindsAt
<1> QED BY <1>1, BTreeInvHolds, PTL
=============================================================================
