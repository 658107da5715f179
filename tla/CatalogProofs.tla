--------------------------- MODULE CatalogProofs ----------------------------
(***************************************************************************)
(* Proofs about the hash table: for every hash function, every set of keys *)
(* and every capacity, no entry is lost or duplicated by growing, no       *)
(* BUG_ON is reached, and callers see a map; and about the catalog that    *)
(* uses it: whatever CREATE statements race, a table that was reported as  *)
(* created stays in it until the database is closed.                       *)
(***************************************************************************)
EXTENDS Catalog, FiniteSetTheorems, TLAPS

USE HashAssumption, CapacityAssumption, NoValueAssumption

\* What the loops have done so far, and that nothing outlives the table.
LoopFacts ==
  /\ op \in {"resize", "foreach"} => \A b \in 0 .. i - 1 : array[b] = {}
  /\ op = "foreach" => todo = IF i < cap THEN array[i] ELSE {}
  /\ op = "none" => Pairs = {} /\ i = 0

HTInv ==
  /\ HTTypeOK /\ Located /\ UniqueKeys /\ CountMatches /\ FreeNeverAborts
  /\ IsFiniteSet(Pairs)
  /\ LoopFacts

----------------------------------------------------------------------------
(* Arrays of buckets *)

\* A key has a bucket in every array.
LEMMA IndexRange ==
  ASSUME NEW k \in Keys, NEW n \in Nat \ {0} PROVE Index(k, n) \in 0 .. n - 1
<1>1. Hash[k] \in Nat
  OBVIOUS
<1> QED BY <1>1 DEF Index

\* A fresh array holds nothing.
LEMMA EmptyFacts ==
  ASSUME NEW n \in Nat
  PROVE  /\ EmptyArray(n) \in Buckets(n)
         /\ AllOf(EmptyArray(n), n) = {}
         /\ \A b \in 0 .. n - 1 : EmptyArray(n)[b] = {}
BY DEF EmptyArray, Buckets, AllOf

\* What adding an entry to a bucket does to the array.
LEMMA AddedFacts ==
  ASSUME NEW n \in Nat, NEW a \in Buckets(n), NEW b \in 0 .. n - 1, NEW e \in Entry
  PROVE  /\ Added(a, b, e) \in Buckets(n)
         /\ Added(a, b, e)[b] = a[b] \cup {e}
         /\ \A c \in 0 .. n - 1 : c # b => Added(a, b, e)[c] = a[c]
         /\ AllOf(Added(a, b, e), n) = AllOf(a, n) \cup {e}
<1>1. /\ Added(a, b, e) \in Buckets(n)
      /\ Added(a, b, e)[b] = a[b] \cup {e}
      /\ \A c \in 0 .. n - 1 : c # b => Added(a, b, e)[c] = a[c]
  BY DEF Added, Buckets
<1> QED BY <1>1 DEF AllOf

\* What taking an entry from a bucket does, when no other bucket has it.
LEMMA DroppedFacts ==
  ASSUME NEW n \in Nat, NEW a \in Buckets(n), NEW b \in 0 .. n - 1, NEW e,
         \A c \in 0 .. n - 1 : e \in a[c] => c = b
  PROVE  /\ Dropped(a, b, e) \in Buckets(n)
         /\ Dropped(a, b, e)[b] = a[b] \ {e}
         /\ \A c \in 0 .. n - 1 : c # b => Dropped(a, b, e)[c] = a[c]
         /\ AllOf(Dropped(a, b, e), n) = AllOf(a, n) \ {e}
<1>1. /\ Dropped(a, b, e) \in Buckets(n)
      /\ Dropped(a, b, e)[b] = a[b] \ {e}
      /\ \A c \in 0 .. n - 1 : c # b => Dropped(a, b, e)[c] = a[c]
  BY DEF Dropped, Buckets
<1> HIDE DEF Dropped
<1>2. ASSUME NEW x \in AllOf(Dropped(a, b, e), n) PROVE x \in AllOf(a, n) /\ x # e
  <2>1. PICK c \in 0 .. n - 1 : x \in Dropped(a, b, e)[c]
    BY DEF AllOf
  <2>2. x \in a[c] /\ (c = b => x # e)
    BY <1>1, <2>1
  <2> QED BY <2>2 DEF AllOf
<1>3. ASSUME NEW x \in AllOf(a, n), x # e PROVE x \in AllOf(Dropped(a, b, e), n)
  <2>1. PICK c \in 0 .. n - 1 : x \in a[c]
    BY DEF AllOf
  <2>2. x \in Dropped(a, b, e)[c]
    BY <1>1, <1>3, <2>1
  <2> QED BY <2>2 DEF AllOf
<1>4. AllOf(Dropped(a, b, e), n) = AllOf(a, n) \ {e}
  BY <1>2, <1>3
<1> QED BY <1>1, <1>4

\* Walking one bucket finds what the whole array has for a key.
LEMMA FoundFacts ==
  ASSUME HTInv, NEW k \in Keys
  PROVE  /\ Found(k) = {e \in InArray : e.key = k}
         /\ Index(k, cap) \in 0 .. cap - 1
         /\ InArray \subseteq Entry
<1>1. Index(k, cap) \in 0 .. cap - 1 /\ array \in Buckets(cap) /\ cap \in Nat
  BY IndexRange DEF HTInv, HTTypeOK
<1>2. InArray \subseteq Entry
  BY <1>1 DEF InArray, AllOf, Buckets
<1>3. ASSUME NEW e \in InArray, e.key = k PROVE e \in Found(k)
  <2>1. PICK b \in 0 .. cap - 1 : e \in array[b]
    BY DEF InArray, AllOf
  <2>2. Index(k, cap) = b
    BY <1>3, <2>1 DEF HTInv, Located
  <2> QED BY <1>3, <2>1, <2>2 DEF Found
<1>4. \A e \in Found(k) : e \in InArray /\ e.key = k
  BY <1>1 DEF Found, InArray, AllOf
<1> QED BY <1>1, <1>2, <1>3, <1>4

----------------------------------------------------------------------------
(* Each step keeps the invariant *)

\* What is known of the parts of the table when no resize runs.
LEMMA NoGrowth == op # "resize" => Pairs = InArray /\ InGrown = {}
BY DEF Pairs, InGrown

\* A new entry: one more pair, in the bucket its key leads to.
LEMMA PutFacts ==
  ASSUME HTInv, NEW k \in Keys, NEW v \in Vals, PutNew(k, v)
  PROVE  /\ HTTypeOK' /\ Located'
         /\ InArray' = InArray \cup {[key |-> k, val |-> v]} /\ InGrown' = {}
         /\ ~\E e \in InArray : e.key = k
<1> DEFINE e == [key |-> k, val |-> v]
           b == Index(k, cap)
<1>1. /\ op = "idle" /\ array' = Added(array, b, e) /\ cap' = cap /\ todo' = todo
      /\ count' = count + 1 /\ answer' = TRUE
      /\ \/ op' = op /\ grown' = grown /\ i' = i
         \/ op' = "resize" /\ grown' = EmptyArray(2 * cap) /\ i' = 0
  BY DEF PutNew
<1>2. /\ cap \in Nat \ {0} /\ array \in Buckets(cap) /\ e \in Entry /\ e.key = k
      /\ count \in Int /\ i \in 0 .. cap /\ todo \subseteq Entry
  BY DEF HTInv, HTTypeOK, Entry
<1>3. b \in 0 .. cap - 1 /\ b = Index(k, cap) /\ cap \in Nat
  BY <1>2, FoundFacts
<1> HIDE DEF e, b
<1>4. /\ array' \in Buckets(cap)
      /\ array'[b] = array[b] \cup {e}
      /\ \A c \in 0 .. cap - 1 : c # b => array'[c] = array[c]
      /\ AllOf(array', cap) = AllOf(array, cap) \cup {e}
  <2>1. array' = Added(array, b, e)
    BY <1>1
  <2>2. /\ Added(array, b, e) \in Buckets(cap)
        /\ Added(array, b, e)[b] = array[b] \cup {e}
        /\ \A c \in 0 .. cap - 1 : c # b => Added(array, b, e)[c] = array[c]
        /\ AllOf(Added(array, b, e), cap) = AllOf(array, cap) \cup {e}
    BY <1>2, <1>3, AddedFacts
  <2> QED BY <2>1, <2>2
<1>5. op' = "resize" => /\ grown' \in Buckets(2 * cap) /\ AllOf(grown', 2 * cap) = {}
                        /\ \A c \in 0 .. 2 * cap - 1 : grown'[c] = {}
  <2>1. 2 * cap \in Nat
    BY <1>2
  <2> QED BY <1>1, <2>1, EmptyFacts
<1>6. HTTypeOK'
  BY <1>1, <1>2, <1>4, <1>5 DEF HTTypeOK
<1>7. \A c \in 0 .. cap - 1 : \A f \in array'[c] : Index(f.key, cap) = c
  BY <1>1, <1>2, <1>3, <1>4 DEF HTInv, Located
<1>8. Located'
  BY <1>1, <1>5, <1>7 DEF Located, Index
<1>9. InArray' = InArray \cup {e} /\ InGrown' = {}
  BY <1>1, <1>4, <1>5 DEF InArray, InGrown
<1>10. ~\E f \in InArray : f.key = k
  BY FoundFacts DEF PutNew
<1> QED BY <1>6, <1>8, <1>9, <1>10 DEF e

LEMMA PutStep ==
  ASSUME HTInv, NEW k \in Keys, NEW v \in Vals, PutNew(k, v)
  PROVE  HTInv' /\ Map!DPut(k, v)
<1> DEFINE e == [key |-> k, val |-> v]
<1>1. /\ op = "idle" /\ count' = count + 1 /\ answer' = TRUE
      /\ op' = "idle" \/ (op' = "resize" /\ i' = 0)
  BY DEF PutNew
<1>2. Pairs = InArray /\ InGrown = {}
  BY <1>1, NoGrowth
<1>3. e.key = k
  OBVIOUS
<1>4. /\ InArray' = InArray \cup {e} /\ InGrown' = {} /\ HTTypeOK' /\ Located'
      /\ ~\E f \in InArray : f.key = k
  BY PutFacts
<1> HIDE DEF e
<1>5. Pairs' = Pairs \cup {e}
  BY <1>2, <1>4 DEF Pairs
<1>6. e \notin Pairs
  BY <1>2, <1>3, <1>4
<1>7. IsFiniteSet(Pairs') /\ Cardinality(Pairs') = Cardinality(Pairs) + 1
  BY <1>5, <1>6, FS_AddElement DEF HTInv
<1>8. CountMatches'
  BY <1>1, <1>7 DEF HTInv, CountMatches
<1>9. UniqueKeys'
  BY <1>2, <1>3, <1>4, <1>5 DEF HTInv, UniqueKeys
<1>10. LoopFacts' /\ FreeNeverAborts'
  BY <1>1 DEF LoopFacts, FreeNeverAborts
<1>11. Map!DPut(k, v)
  BY <1>1, <1>2, <1>4, <1>5 DEF e, Map!DPut, Map!Has
<1> QED BY <1>4, <1>7, <1>8, <1>9, <1>10, <1>11 DEF HTInv

\* What taking out the entry that a walk found for k changes.
LEMMA UnlinkFacts ==
  ASSUME HTInv, op # "resize", NEW k \in Keys, NEW e \in Found(k), Unlink(k, e),
         cap' = cap, op' # "resize"
  PROVE  /\ array' \in Buckets(cap) /\ Located' /\ UniqueKeys' /\ CountMatches'
         /\ array'[Index(k, cap)] = array[Index(k, cap)] \ {e}
         /\ \A c \in 0 .. cap - 1 : c # Index(k, cap) => array'[c] = array[c]
         /\ e \in Pairs /\ e.key = k /\ Pairs' = Pairs \ {e} /\ IsFiniteSet(Pairs')
         /\ count' \in Int /\ Index(k, cap) \in 0 .. cap - 1
<1> DEFINE b == Index(k, cap)
<1>1. array' = Dropped(array, b, e) /\ count' = count - 1
  BY DEF Unlink
<1>2. /\ cap \in Nat \ {0} /\ array \in Buckets(cap) /\ b \in 0 .. cap - 1
      /\ e \in InArray /\ e.key = k /\ count \in Int /\ cap \in Nat
      /\ b = Index(k, cap)
  BY FoundFacts DEF HTInv, HTTypeOK
<1> HIDE DEF b
<1>3. \A c \in 0 .. cap - 1 : e \in array[c] => c = b
  BY <1>2 DEF HTInv, Located
<1>4. /\ array' \in Buckets(cap)
      /\ array'[b] = array[b] \ {e}
      /\ \A c \in 0 .. cap - 1 : c # b => array'[c] = array[c]
      /\ AllOf(array', cap) = AllOf(array, cap) \ {e}
  <2>1. array' = Dropped(array, b, e)
    BY <1>1
  <2>2. /\ Dropped(array, b, e) \in Buckets(cap)
        /\ Dropped(array, b, e)[b] = array[b] \ {e}
        /\ \A c \in 0 .. cap - 1 : c # b => Dropped(array, b, e)[c] = array[c]
        /\ AllOf(Dropped(array, b, e), cap) = AllOf(array, cap) \ {e}
    BY <1>2, <1>3, DroppedFacts
  <2> QED BY <2>1, <2>2
<1>5. Pairs = InArray /\ InGrown = {}
  BY NoGrowth
<1>6. InArray' = InArray \ {e} /\ InGrown' = {}
  BY <1>4 DEF InArray, InGrown
<1>7. Pairs' = Pairs \ {e} /\ e \in Pairs
  BY <1>2, <1>5, <1>6 DEF Pairs
<1>8. IsFiniteSet(Pairs') /\ Cardinality(Pairs') = Cardinality(Pairs) - 1
  BY <1>7, FS_RemoveElement DEF HTInv
<1>9. CountMatches'
  BY <1>1, <1>8 DEF HTInv, CountMatches
<1>10. UniqueKeys'
  BY <1>6, <1>7 DEF HTInv, UniqueKeys
<1>11. Located'
  <2>1. \A c \in 0 .. cap - 1 : \A f \in array'[c] : Index(f.key, cap) = c
    BY <1>4 DEF HTInv, Located
  <2> QED BY <2>1 DEF Located, Index
<1> QED BY <1>1, <1>2, <1>4, <1>7, <1>8, <1>9, <1>10, <1>11

LEMMA RemoveStep ==
  ASSUME HTInv, NEW k \in Keys, Remove(k) PROVE HTInv' /\ Map!DRemove(k)
<1>1. op = "idle" /\ op' = op /\ cap' = cap /\ grown' = grown /\ i' = i /\ todo' = todo
  BY DEF Remove
<1>2. CASE Found(k) = {} /\ answer' = NoValue /\ UNCHANGED <<array, count>>
  <2>1. UNCHANGED <<op, cap, array, count, grown, i, todo>>
    BY <1>1, <1>2
  <2>2. Pairs' = Pairs /\ InArray' = InArray /\ InGrown' = InGrown
    BY <2>1 DEF Pairs, InArray, InGrown
  <2>3. HTInv'
    BY <1>2, <2>1, <2>2 DEF HTInv, HTTypeOK, Located, Index, UniqueKeys, CountMatches,
                            FreeNeverAborts, LoopFacts
  <2>4. ~\E p \in Pairs : p.key = k
    BY <1>1, <1>2, FoundFacts, NoGrowth
  <2> QED BY <1>2, <2>2, <2>3, <2>4 DEF Map!DRemove, Map!Has
<1>3. ASSUME NEW e \in Found(k), Unlink(k, e), answer' = e.val
      PROVE  HTInv' /\ Map!DRemove(k)
  <2>1. /\ array' \in Buckets(cap) /\ Located' /\ UniqueKeys' /\ CountMatches'
        /\ e \in Pairs /\ e.key = k /\ Pairs' = Pairs \ {e} /\ IsFiniteSet(Pairs')
        /\ count' \in Int
    BY <1>1, <1>3, UnlinkFacts
  <2>2. e \in Entry
    BY <1>1, <2>1, FoundFacts, NoGrowth
  <2>3. HTTypeOK'
    BY <1>1, <1>3, <2>1, <2>2 DEF HTInv, HTTypeOK, Entry
  <2>4. LoopFacts' /\ FreeNeverAborts'
    BY <1>1 DEF LoopFacts, FreeNeverAborts
  <2> QED BY <1>3, <2>1, <2>3, <2>4 DEF HTInv, Map!DRemove
<1> QED BY <1>2, <1>3 DEF Remove

\* Get and a refused put only answer.
LEMMA AnswerStep ==
  ASSUME HTInv, NEW k \in Keys, Get(k) \/ PutRefused(k)
  PROVE  HTInv' /\ (Get(k) => Map!DGet(k))
                /\ (PutRefused(k) => \A v \in Vals : Map!DPut(k, v))
<1>1. UNCHANGED <<op, cap, array, count, grown, i, todo>> /\ op = "idle"
  BY DEF Get, PutRefused
<1>2. Pairs' = Pairs /\ InArray' = InArray /\ InGrown' = InGrown
  BY <1>1 DEF Pairs, InArray, InGrown
<1>3. Found(k) = {e \in Pairs : e.key = k} /\ Pairs \subseteq Entry
  BY <1>1, FoundFacts, NoGrowth
<1>4. answer' \in Vals \cup BOOLEAN \cup {NoValue}
  BY <1>3 DEF Get, PutRefused, Entry
<1>5. HTInv'
  BY <1>1, <1>2, <1>4 DEF HTInv, HTTypeOK, Located, Index, UniqueKeys, CountMatches,
                          FreeNeverAborts, LoopFacts
<1>6. ASSUME Get(k) PROVE Map!DGet(k)
  BY <1>2, <1>3, <1>6 DEF Get, Map!DGet, Map!Has
<1>7. ASSUME PutRefused(k), NEW v \in Vals PROVE Map!DPut(k, v)
  BY <1>2, <1>7 DEF PutRefused, Map!DPut
<1> QED BY <1>5, <1>6, <1>7

\* A fresh table is empty.
LEMMA InitStep ==
  ASSUME HTInv, HashtableInit PROVE HTInv' /\ UNCHANGED <<Pairs, answer>>
<1>1. /\ op = "none" /\ op' = "idle" /\ cap' = InitCap /\ array' = EmptyArray(InitCap)
      /\ count' = 0 /\ UNCHANGED <<grown, i, todo, answer>>
  BY DEF HashtableInit
<1>2. /\ array' \in Buckets(InitCap) /\ AllOf(array', InitCap) = {}
      /\ \A b \in 0 .. InitCap - 1 : array'[b] = {}
  BY <1>1, EmptyFacts
<1>3. InArray' = {} /\ InGrown' = {} /\ Pairs' = {} /\ Pairs = {}
  BY <1>1, <1>2 DEF Pairs, InArray, InGrown, HTInv, LoopFacts
<1>4. i = 0
  BY <1>1 DEF HTInv, LoopFacts
<1>5. HTTypeOK'
  BY <1>1, <1>2, <1>4 DEF HTInv, HTTypeOK
<1>6. IsFiniteSet(Pairs') /\ CountMatches'
  BY <1>1, <1>3, FS_EmptySet DEF CountMatches
<1>7. Located' /\ UniqueKeys' /\ LoopFacts' /\ FreeNeverAborts'
  BY <1>1, <1>2, <1>3 DEF Located, UniqueKeys, LoopFacts, FreeNeverAborts
<1> QED BY <1>1, <1>3, <1>5, <1>6, <1>7 DEF HTInv

\* Moving an entry to the new array changes where it is, not whether.
LEMMA MoveStep ==
  ASSUME HTInv, NEW e \in Entry, ResizeMove(e) PROVE HTInv' /\ UNCHANGED <<Pairs, answer>>
<1> DEFINE b == Index(e.key, 2 * cap)
<1>1. /\ op = "resize" /\ i < cap /\ e \in array[i]
      /\ array' = Dropped(array, i, e) /\ grown' = Added(grown, b, e)
      /\ UNCHANGED <<op, cap, count, i, todo, answer>>
  BY DEF ResizeMove
<1>2. /\ cap \in Nat \ {0} /\ cap \in Nat /\ 2 * cap \in Nat \ {0} /\ 2 * cap \in Nat
      /\ array \in Buckets(cap) /\ grown \in Buckets(2 * cap) /\ i \in 0 .. cap - 1
      /\ e.key \in Keys
  BY <1>1 DEF HTInv, HTTypeOK, Entry
<1>3. b \in 0 .. 2 * cap - 1 /\ b = Index(e.key, 2 * cap)
  BY <1>2, IndexRange
<1> HIDE DEF b
<1>4. \A c \in 0 .. cap - 1 : e \in array[c] => c = i
  BY <1>1, <1>2 DEF HTInv, Located
<1>5. /\ array' \in Buckets(cap) /\ array'[i] = array[i] \ {e}
      /\ \A c \in 0 .. cap - 1 : c # i => array'[c] = array[c]
      /\ AllOf(array', cap) = AllOf(array, cap) \ {e}
  BY <1>1, <1>2, <1>4, DroppedFacts
<1>6. /\ grown' \in Buckets(2 * cap) /\ grown'[b] = grown[b] \cup {e}
      /\ \A c \in 0 .. 2 * cap - 1 : c # b => grown'[c] = grown[c]
      /\ AllOf(grown', 2 * cap) = AllOf(grown, 2 * cap) \cup {e}
  BY <1>1, <1>2, <1>3, AddedFacts
<1>7. InArray' = InArray \ {e} /\ InGrown' = InGrown \cup {e} /\ e \in InArray
  BY <1>1, <1>2, <1>5, <1>6 DEF InArray, InGrown, AllOf
<1>8. Pairs' = Pairs
  BY <1>7 DEF Pairs
<1>9. HTTypeOK'
  BY <1>1, <1>5, <1>6 DEF HTInv, HTTypeOK
<1>10. Located'
  <2>1. \A c \in 0 .. cap - 1 : \A f \in array'[c] : Index(f.key, cap) = c
    BY <1>5 DEF HTInv, Located
  <2>2. \A c \in 0 .. 2 * cap - 1 : \A f \in grown'[c] : Index(f.key, 2 * cap) = c
    BY <1>1, <1>3, <1>6 DEF HTInv, Located
  <2> QED BY <1>1, <2>1, <2>2 DEF Located
<1>11. UniqueKeys' /\ CountMatches' /\ IsFiniteSet(Pairs') /\ FreeNeverAborts'
  BY <1>1, <1>7, <1>8 DEF HTInv, UniqueKeys, CountMatches, FreeNeverAborts
<1>12. LoopFacts'
  <2>1. \A c \in 0 .. i - 1 : c \in 0 .. cap - 1 /\ c # i
    BY <1>2
  <2> QED BY <1>1, <1>5, <2>1 DEF HTInv, LoopFacts
<1> QED BY <1>1, <1>8, <1>9, <1>10, <1>11, <1>12 DEF HTInv

\* The steps that only move on to the next bucket, or start.
LEMMA WalkStep ==
  ASSUME HTInv, ResizeNextBucket \/ ForeachNextBucket \/ ForeachStart
  PROVE  HTInv' /\ UNCHANGED <<Pairs, answer>>
<1>1. UNCHANGED <<cap, array, count, grown, answer>> /\ op # "none"
  BY DEF ResizeNextBucket, ForeachNextBucket, ForeachStart
<1>2. op' = op \/ (op = "idle" /\ op' = "foreach")
  BY DEF ResizeNextBucket, ForeachNextBucket, ForeachStart
<1>3. Pairs' = Pairs /\ InArray' = InArray /\ InGrown' = InGrown
  BY <1>1, <1>2 DEF Pairs, InArray, InGrown
<1>4. Located' /\ UniqueKeys' /\ CountMatches' /\ IsFiniteSet(Pairs') /\ FreeNeverAborts'
  BY <1>1, <1>2, <1>3 DEF HTInv, Located, UniqueKeys, CountMatches, FreeNeverAborts
<1>5. cap \in Nat \ {0} /\ i \in 0 .. cap /\ \A b \in 0 .. cap - 1 : array[b] \subseteq Entry
  BY DEF HTInv, HTTypeOK, Buckets
<1>6. HTTypeOK' /\ LoopFacts'
  <2>1. CASE ResizeNextBucket
    BY <1>1, <1>3, <1>5, <2>1 DEF ResizeNextBucket, HTInv, HTTypeOK, LoopFacts
  <2>2. CASE ForeachNextBucket
    <3>1. /\ op = "foreach" /\ op' = op /\ i < cap /\ i' = i + 1 /\ array[i] = {}
          /\ todo' = IF i + 1 < cap THEN array[i + 1] ELSE {}
      BY <2>2 DEF ForeachNextBucket, HTInv, LoopFacts
    <3>2. HTTypeOK'
      BY <1>1, <1>5, <3>1 DEF HTInv, HTTypeOK
    <3>3. LoopFacts'
      BY <1>1, <1>5, <3>1 DEF HTInv, LoopFacts
    <3> QED BY <3>2, <3>3
  <2>3. CASE ForeachStart
    BY <1>1, <1>5, <2>3 DEF ForeachStart, HTInv, HTTypeOK, LoopFacts
  <2> QED BY <2>1, <2>2, <2>3
<1> QED BY <1>1, <1>3, <1>4, <1>6 DEF HTInv

\* When the old array is empty, the new one has everything.
LEMMA ResizeEndStep ==
  ASSUME HTInv, ResizeEnd PROVE HTInv' /\ UNCHANGED <<Pairs, answer>>
<1>1. /\ op = "resize" /\ i = cap /\ op' = "idle" /\ array' = grown /\ cap' = 2 * cap
      /\ i' = 0 /\ UNCHANGED <<count, todo, answer>>
  BY DEF ResizeEnd
<1>2. cap \in Nat \ {0} /\ 2 * cap \in Nat \ {0} /\ 0 \in 0 .. 2 * cap
  BY DEF HTInv, HTTypeOK
<1>3. \A b \in 0 .. cap - 1 : array[b] = {}
  BY <1>1 DEF HTInv, LoopFacts
<1>4. InArray = {}
  BY <1>3 DEF InArray, AllOf
<1>5. InArray' = InGrown /\ InGrown' = {}
  BY <1>1 DEF InArray, InGrown
<1>6. Pairs' = Pairs
  BY <1>4, <1>5 DEF Pairs
<1>7. HTTypeOK'
  BY <1>1, <1>2 DEF HTInv, HTTypeOK
<1>8. Located'
  BY <1>1 DEF HTInv, Located
<1>9. UniqueKeys' /\ CountMatches' /\ IsFiniteSet(Pairs') /\ FreeNeverAborts' /\ LoopFacts'
  BY <1>1, <1>5, <1>6 DEF HTInv, UniqueKeys, CountMatches, FreeNeverAborts, LoopFacts
<1> QED BY <1>1, <1>6, <1>7, <1>8, <1>9 DEF HTInv

\* The callback finds the very entry it was called for.
LEMMA CallStep ==
  ASSUME HTInv, NEW e \in todo, ForeachCall(e) PROVE HTInv' /\ Map!DRemove(e.key)
<1>1. /\ op = "foreach" /\ i < cap /\ todo' = todo \ {e}
      /\ cap' = cap /\ grown' = grown /\ i' = i
  BY DEF ForeachCall
<1>2. /\ cap \in Nat \ {0} /\ i \in 0 .. cap - 1 /\ todo = array[i] /\ e \in Entry
      /\ e.key \in Keys /\ Index(e.key, cap) = i
  BY <1>1 DEF HTInv, HTTypeOK, LoopFacts, Located, Entry
<1>3. e \in Found(e.key)
  BY <1>2 DEF Found
<1>4. PICK f \in Found(e.key) : Unlink(e.key, f) /\ answer' = f.val /\ op' = op
  BY <1>3 DEF ForeachCall
<1>5. /\ array' \in Buckets(cap) /\ Located' /\ UniqueKeys' /\ CountMatches'
      /\ array'[i] = array[i] \ {f}
      /\ \A c \in 0 .. cap - 1 : c # i => array'[c] = array[c]
      /\ f \in Pairs /\ f.key = e.key /\ Pairs' = Pairs \ {f} /\ IsFiniteSet(Pairs')
      /\ count' \in Int
  BY <1>1, <1>2, <1>4, UnlinkFacts
<1>6. e \in Pairs /\ f \in Entry
  BY <1>1, <1>2, <1>3, <1>5, FoundFacts, NoGrowth
<1>7. f = e
  BY <1>5, <1>6 DEF HTInv, UniqueKeys
<1>8. HTTypeOK'
  BY <1>1, <1>4, <1>5, <1>6 DEF HTInv, HTTypeOK, Entry
<1>9. LoopFacts' /\ FreeNeverAborts'
  <2>1. \A c \in 0 .. i - 1 : c \in 0 .. cap - 1 /\ c # i
    BY <1>2
  <2> QED BY <1>1, <1>2, <1>4, <1>5, <1>7, <2>1 DEF HTInv, LoopFacts, FreeNeverAborts
<1>10. Map!DRemove(e.key)
  BY <1>4, <1>5 DEF Map!DRemove
<1> QED BY <1>5, <1>8, <1>9, <1>10 DEF HTInv

\* hashtable_free finds a count of zero and empty buckets.
LEMMA FreeStep == ASSUME HTInv, HashtableFree PROVE HTInv' /\ Map!DFree
<1>1. /\ op = "foreach" /\ i = cap /\ i' = 0 /\ answer' = NoValue
      /\ UNCHANGED <<cap, array, count, grown, todo>>
  BY DEF HashtableFree
<1>2. cap \in Nat \ {0} /\ \A b \in 0 .. cap - 1 : array[b] = {}
  BY <1>1 DEF HTInv, HTTypeOK, LoopFacts
<1>3. AllOf(array, cap) = {} /\ Pairs = {}
  BY <1>1, <1>2 DEF Pairs, InArray, InGrown, AllOf
<1>4. count = 0
  BY <1>3, FS_EmptySet DEF HTInv, CountMatches
<1>5. op' = "none"
  BY <1>3, <1>4 DEF HashtableFree
<1>6. InArray' = {} /\ InGrown' = {} /\ Pairs' = {}
  BY <1>1, <1>3, <1>5 DEF Pairs, InArray, InGrown
<1>7. HTTypeOK'
  BY <1>1, <1>2, <1>5 DEF HTInv, HTTypeOK
<1>8. Located'
  BY <1>1, <1>5 DEF HTInv, Located
<1>9. CountMatches' /\ IsFiniteSet(Pairs')
  BY <1>1, <1>3, <1>6 DEF HTInv, CountMatches
<1>10. UniqueKeys' /\ LoopFacts' /\ FreeNeverAborts'
  BY <1>1, <1>5, <1>6 DEF UniqueKeys, LoopFacts, FreeNeverAborts
<1> QED BY <1>1, <1>3, <1>6, <1>7, <1>8, <1>9, <1>10 DEF HTInv, Map!DFree

----------------------------------------------------------------------------
(* The theorems *)

LEMMA InitHolds == HTInit => HTInv /\ Map!DInit
<1> SUFFICES ASSUME HTInit PROVE HTInv /\ Map!DInit
  OBVIOUS
<1>1. /\ op = "none" /\ cap = InitCap /\ array = EmptyArray(InitCap) /\ count = 0
      /\ i = 0 /\ todo = {} /\ answer = NoValue
  BY DEF HTInit
<1>2. array \in Buckets(InitCap) /\ AllOf(array, InitCap) = {}
  BY <1>1, EmptyFacts
<1>3. InArray = {} /\ InGrown = {} /\ Pairs = {}
  BY <1>1, <1>2 DEF Pairs, InArray, InGrown
<1>4. HTTypeOK
  BY <1>1, <1>2 DEF HTTypeOK
<1>5. Located
  BY <1>1, EmptyFacts DEF Located
<1>6. CountMatches /\ IsFiniteSet(Pairs)
  BY <1>1, <1>3, FS_EmptySet DEF CountMatches
<1>7. UniqueKeys /\ LoopFacts /\ FreeNeverAborts
  BY <1>1, <1>3 DEF UniqueKeys, LoopFacts, FreeNeverAborts
<1> QED BY <1>1, <1>3, <1>4, <1>5, <1>6, <1>7 DEF HTInv, Map!DInit

\* Every step keeps the invariant and is a step of the map, or none at all.
LEMMA NextHolds ==
  HTInv /\ [HTNext]_htvars => HTInv' /\ [Map!DNext]_(Map!dvars)
<1> SUFFICES ASSUME HTInv, [HTNext]_htvars PROVE HTInv' /\ [Map!DNext]_(Map!dvars)
  OBVIOUS
<1>1. CASE HashtableInit
  BY <1>1, InitStep DEF Map!dvars
<1>2. ASSUME NEW k \in Keys, NEW v \in Vals, PutNew(k, v)
      PROVE  HTInv' /\ [Map!DNext]_(Map!dvars)
  BY <1>2, PutStep DEF Map!DNext
<1>3. ASSUME NEW k \in Keys, NEW v \in Vals, PutRefused(k)
      PROVE  HTInv' /\ [Map!DNext]_(Map!dvars)
  BY <1>3, AnswerStep DEF Map!DNext
<1>4. ASSUME NEW k \in Keys, Get(k) PROVE HTInv' /\ [Map!DNext]_(Map!dvars)
  BY <1>4, AnswerStep DEF Map!DNext
<1>5. ASSUME NEW k \in Keys, Remove(k) PROVE HTInv' /\ [Map!DNext]_(Map!dvars)
  BY <1>5, RemoveStep DEF Map!DNext
<1>6. CASE ResizeEnd
  BY <1>6, ResizeEndStep DEF Map!dvars
<1>7. CASE ResizeNextBucket \/ ForeachNextBucket \/ ForeachStart
  BY <1>7, WalkStep DEF Map!dvars
<1>8. ASSUME NEW e \in Entry, ResizeMove(e) PROVE HTInv' /\ [Map!DNext]_(Map!dvars)
  BY <1>8, MoveStep DEF Map!dvars
<1>9. ASSUME NEW e \in todo, ForeachCall(e) PROVE HTInv' /\ [Map!DNext]_(Map!dvars)
  <2>1. e.key \in Keys
    BY DEF HTInv, HTTypeOK, Entry
  <2> QED BY <1>9, <2>1, CallStep DEF Map!DNext
<1>10. CASE HashtableFree
  BY <1>10, FreeStep DEF Map!DNext
<1>11. CASE UNCHANGED htvars
  <2>1. UNCHANGED <<op, cap, array, count, grown, i, todo, answer>>
    BY <1>11 DEF htvars
  <2>2. Pairs' = Pairs /\ InArray' = InArray /\ InGrown' = InGrown
    BY <2>1 DEF Pairs, InArray, InGrown
  <2> QED BY <2>1, <2>2 DEF HTInv, HTTypeOK, Located, UniqueKeys, CountMatches,
                            FreeNeverAborts, LoopFacts, Map!dvars
<1> QED BY <1>1, <1>2, <1>3, <1>4, <1>5, <1>6, <1>7, <1>8, <1>9, <1>10, <1>11
        DEF HTNext, Resizing, Clearing

LEMMA HTSpecInv == HTSpec => []HTInv
BY InitHolds, NextHolds, PTL DEF HTSpec

\* The variables of the hash table keep their types.
THEOREM HTTypeCorrect == HTSpec => []HTTypeOK
BY HTSpecInv, PTL DEF HTInv

\* A lookup that walks the one bucket its key hashes to misses nothing, in
\* whichever array a running resize has the entry.
THEOREM EntriesLocated == HTSpec => []Located
BY HTSpecInv, PTL DEF HTInv

\* No key has two entries, and no entry is in both arrays of a resize: a get, a
\* put and a remove, which stop at the first match, leave no other behind.
THEOREM KeysAreUnique == HTSpec => []UniqueKeys
BY HTSpecInv, PTL DEF HTInv

\* hashtable->count, which decides about growing and about the BUG_ON of
\* hashtable_free, is the number of entries.
THEOREM CountIsExact == HTSpec => []CountMatches
BY HTSpecInv, PTL DEF HTInv

\* Neither BUG_ON of hashtable_free is reached, nor does a callback that
\* removes the entry it visits ever miss it.
THEOREM FreeIsSafe == HTSpec => []FreeNeverAborts
BY HTSpecInv, PTL DEF HTInv

\* The hash table implements a map: for every hash function, key set and
\* capacity each operation answers what a map would, and the steps of a resize
\* cannot be told from standing still.
THEOREM DictionaryRefined == HTSpec => ImplementsDictionary
BY HTSpecInv, InitHolds, NextHolds, PTL DEF HTSpec, ImplementsDictionary, Map!DSpec

----------------------------------------------------------------------------
(* The catalog *)

EntryOf(s) == [key |-> name[s], val |-> s]

\* Where sessions can be: a table is in the catalog as soon as hashtable_put
\* returns to its session, and nobody is about while the database is closed.
Whereabouts ==
  /\ pc \in [Sessions -> {"idle", "lock", "lock if", "check", "build", "add", "unlock", "dead"}]
  /\ name \in [Sessions -> Keys]
  /\ \A s \in Sessions : pc[s] = "unlock" => EntryOf(s) \in Pairs
  /\ op \in {"foreach", "none"} => acked = {} /\ \A s \in Sessions : pc[s] = "idle"

CatInv == HTInv /\ MutexHeld /\ AckedStays /\ Whereabouts

USE SessionAssumption

----------------------------------------------------------------------------
(* What the steps do to the hash table *)

\* A step that leaves the hash table alone.
LEMMA QuietStep == ASSUME HTInv, Quiet PROVE HTInv' /\ Pairs' = Pairs /\ op' = op
<1>1. UNCHANGED <<op, cap, array, count, grown, i, todo, answer>>
  BY DEF Quiet, htvars
<1>2. Pairs' = Pairs /\ InArray' = InArray /\ InGrown' = InGrown
  BY <1>1 DEF Pairs, InArray, InGrown
<1> QED BY <1>1, <1>2 DEF HTInv, HTTypeOK, Located, UniqueKeys, CountMatches,
                          FreeNeverAborts, LoopFacts

\* A step of hashtable_resize moves entries but keeps them.
LEMMA ResizingStep ==
  ASSUME HTInv, Resizing PROVE HTInv' /\ Pairs' = Pairs /\ op = "resize" /\ op' # "none" /\ op' # "foreach"
<1>1. op = "resize" /\ op' \in {"resize", "idle"}
  BY DEF Resizing, ResizeMove, ResizeNextBucket, ResizeEnd
<1> QED BY <1>1, MoveStep, WalkStep, ResizeEndStep DEF Resizing

----------------------------------------------------------------------------
(* Every step keeps the invariant *)

\* The steps that end a statement or move it on without touching the catalog.
LEMMA SessionStep ==
  ASSUME CatInv, NEW s \in Sessions,
         \/ \E n \in Keys : UseTable(s, n)
         \/ \E n \in Keys, ifNotExists \in BOOLEAN : AnalyseCreate(s, n, ifNotExists)
         \/ DatabaseLock(s) \/ CheckIfNotExists(s) \/ BuildTable(s)
  PROVE  CatInv'
<1>1. Quiet /\ acked' = acked
  BY DEF UseTable, AnalyseCreate, Dies, DatabaseLock, CheckIfNotExists, BuildTable
<1>2. HTInv' /\ Pairs' = Pairs /\ op' = op
  BY <1>1, QuietStep DEF CatInv
<1>3. AckedStays'
  BY <1>1, <1>2 DEF CatInv, AckedStays
<1>4. CASE \/ \E n \in Keys : UseTable(s, n)
           \/ \E n \in Keys, ifNotExists \in BOOLEAN : AnalyseCreate(s, n, ifNotExists)
  <2>1. mutex' = mutex /\ op \in {"idle", "resize"}
    BY <1>4 DEF UseTable, AnalyseCreate, Dies, Open
  <2>2. \/ name' = name /\ pc' = [t \in Sessions |-> "dead"]
        \/ /\ pc[s] = "idle" /\ \E n \in Keys : name' = [name EXCEPT ![s] = n]
           /\ \E p \in {"idle", "lock", "lock if"} : pc' = [pc EXCEPT ![s] = p]
    BY <1>4 DEF UseTable, AnalyseCreate, Dies, Ends
  <2>3. CASE name' = name /\ pc' = [t \in Sessions |-> "dead"]
    BY <1>1, <1>2, <1>3, <2>1, <2>3 DEF CatInv, MutexHeld, Whereabouts
  <2>4. ASSUME pc[s] = "idle", NEW n \in Keys, name' = [name EXCEPT ![s] = n],
               NEW p \in {"idle", "lock", "lock if"}, pc' = [pc EXCEPT ![s] = p]
        PROVE  CatInv'
    <3>1. \A t \in Sessions : t # s => pc'[t] = pc[t] /\ EntryOf(t)' = EntryOf(t)
      BY <2>4 DEF CatInv, Whereabouts, EntryOf
    <3>2. pc'[s] = p /\ name' \in [Sessions -> Keys]
      BY <2>4 DEF CatInv, Whereabouts
    <3>3. MutexHeld'
      BY <2>1, <2>4, <3>1, <3>2 DEF CatInv, MutexHeld
    <3>4. Whereabouts'
      BY <1>1, <1>2, <2>1, <2>4, <3>1, <3>2 DEF CatInv, Whereabouts
    <3> QED BY <1>2, <1>3, <3>3, <3>4 DEF CatInv
  <2> QED BY <2>2, <2>3, <2>4
<1>5. CASE DatabaseLock(s) \/ CheckIfNotExists(s) \/ BuildTable(s)
  <2>1. /\ name' = name /\ pc[s] # "idle"
        /\ \/ /\ mutex = NoSession /\ mutex' = s
              /\ \E p \in {"check", "build"} : pc' = [pc EXCEPT ![s] = p]
           \/ /\ pc[s] \in {"check", "build"} /\ mutex' = NoSession
              /\ pc' = [pc EXCEPT ![s] = "idle"]
           \/ /\ pc[s] \in {"check", "build"} /\ mutex' = mutex
              /\ \E p \in {"build", "add"} : pc' = [pc EXCEPT ![s] = p]
    BY <1>5 DEF DatabaseLock, CheckIfNotExists, BuildTable, Unlocks, Ends
  <2>2. \A t \in Sessions : EntryOf(t)' = EntryOf(t)
    BY <2>1 DEF EntryOf
  <2>3. PICK p \in {"check", "build", "idle", "add"} : pc' = [pc EXCEPT ![s] = p]
    BY <2>1
  <2>4. pc'[s] = p /\ \A t \in Sessions : t # s => pc'[t] = pc[t]
    BY <2>3 DEF CatInv, Whereabouts
  <2>5. MutexHeld'
    <3>1. \/ mutex = NoSession /\ mutex' = s /\ pc'[s] \in {"check", "build"}
          \/ mutex = s /\ mutex' = NoSession /\ pc'[s] = "idle"
          \/ mutex = s /\ mutex' = s /\ pc'[s] \in {"build", "add"}
      BY <2>1 DEF CatInv, MutexHeld, Whereabouts
    <3>2. \A t \in Sessions : t # s => pc'[t] = pc[t]
      BY <2>4
    <3> QED BY <3>1, <3>2 DEF CatInv, MutexHeld
  <2>6. Whereabouts'
    BY <1>1, <1>2, <2>1, <2>2, <2>3, <2>4 DEF CatInv, Whereabouts
  <2> QED BY <1>2, <1>3, <2>5, <2>6 DEF CatInv
<1> QED BY <1>4, <1>5

\* database_table_add: the entry is in the catalog when hashtable_put is done
\* with it, and nobody else is near.
LEMMA AddStep ==
  ASSUME CatInv, NEW s \in Sessions, TableAdd(s) \/ TableAddResizes(s) \/ DatabaseUnlock(s)
  PROVE  CatInv'
<1>1. /\ HTInv /\ name' = name /\ name[s] \in Keys /\ mutex = s /\ s # NoSession
      /\ pc[s] \in {"add", "unlock"}
  BY DEF CatInv, Whereabouts, MutexHeld, TableAdd, TableAddResizes, DatabaseUnlock
<1>2. \A t \in Sessions : EntryOf(t)' = EntryOf(t)
  BY <1>1 DEF EntryOf
<1>3. op \notin {"foreach", "none"}
  BY <1>1 DEF CatInv, Whereabouts
<1>4. CASE TableAdd(s)
  <2>1. CASE PutNew(name[s], s) /\ pc' = [pc EXCEPT ![s] = "unlock"] /\ mutex' = mutex
    <3>1. HTInv' /\ Map!DPut(name[s], s) /\ answer' = TRUE
      BY <1>1, <2>1, PutStep DEF PutNew
    <3>2. Pairs' = Pairs \cup {EntryOf(s)}
      BY <3>1 DEF Map!DPut, EntryOf
    <3>3. op' \notin {"foreach", "none"} /\ acked' = acked
      BY <1>4, <2>1 DEF PutNew, TableAdd
    <3>4. pc'[s] = "unlock" /\ \A t \in Sessions : t # s => pc'[t] = pc[t]
      BY <2>1 DEF CatInv, Whereabouts
    <3>5. AckedStays' /\ MutexHeld'
      BY <1>1, <2>1, <3>2, <3>3, <3>4 DEF CatInv, AckedStays, MutexHeld
    <3>6. Whereabouts'
      BY <1>1, <1>2, <2>1, <3>2, <3>3, <3>4 DEF CatInv, Whereabouts
    <3> QED BY <3>1, <3>5, <3>6 DEF CatInv
  <2>2. CASE (Quiet \/ PutRefused(name[s])) /\ Unlocks(s, "error")
    <3>1. HTInv' /\ Pairs' = Pairs /\ op' = op
      <4>1. CASE Quiet
        BY <1>1, <4>1, QuietStep
      <4>2. CASE PutRefused(name[s])
        BY <1>1, <4>2, AnswerStep DEF PutRefused, Pairs, InArray, InGrown
      <4> QED BY <2>2, <4>1, <4>2
    <3>2. acked' = acked /\ mutex' = NoSession /\ pc' = [pc EXCEPT ![s] = "idle"]
      BY <1>4, <2>2 DEF TableAdd, Unlocks, Ends
    <3>3. pc'[s] = "idle" /\ \A t \in Sessions : t # s => pc'[t] = pc[t]
      BY <3>2 DEF CatInv, Whereabouts
    <3>4. AckedStays' /\ MutexHeld'
      BY <1>1, <3>1, <3>2, <3>3 DEF CatInv, AckedStays, MutexHeld
    <3>5. Whereabouts'
      BY <1>1, <1>2, <1>3, <3>1, <3>2, <3>3 DEF CatInv, Whereabouts
    <3> QED BY <3>1, <3>4, <3>5 DEF CatInv
  <2> QED BY <1>4, <2>1, <2>2 DEF TableAdd
<1>5. CASE TableAddResizes(s)
  <2>1. /\ HTInv' /\ Pairs' = Pairs /\ op' \notin {"none", "foreach"}
        /\ UNCHANGED <<mutex, pc, name, acked>>
    BY <1>1, <1>5, ResizingStep DEF TableAddResizes
  <2>2. AckedStays' /\ MutexHeld'
    BY <2>1 DEF CatInv, AckedStays, MutexHeld
  <2>3. Whereabouts'
    BY <1>2, <2>1 DEF CatInv, Whereabouts
  <2> QED BY <2>1, <2>2, <2>3 DEF CatInv
<1>6. CASE DatabaseUnlock(s)
  <2>1. /\ mutex' = NoSession /\ pc' = [pc EXCEPT ![s] = "idle"] /\ Quiet
        /\ acked' = acked \cup {EntryOf(s)} /\ pc[s] = "unlock"
    BY <1>6 DEF DatabaseUnlock, Unlocks, Ends, EntryOf
  <2>2. HTInv' /\ Pairs' = Pairs /\ op' = op
    BY <1>1, <2>1, QuietStep
  <2>3. pc'[s] = "idle" /\ \A t \in Sessions : t # s => pc'[t] = pc[t]
    BY <2>1 DEF CatInv, Whereabouts
  <2>4. AckedStays' /\ MutexHeld'
    BY <1>1, <2>1, <2>2, <2>3 DEF CatInv, AckedStays, MutexHeld, Whereabouts
  <2>5. Whereabouts'
    BY <1>1, <1>2, <1>3, <2>1, <2>2, <2>3 DEF CatInv, Whereabouts
  <2> QED BY <2>2, <2>4, <2>5 DEF CatInv
<1> QED BY <1>4, <1>5, <1>6

\* Opening and closing the database happens while no session is about.
LEMMA CloseStep ==
  ASSUME CatInv, DatabaseOpen \/ DatabaseClose \/ CloseTables PROVE CatInv'
<1>1. /\ \A s \in Sessions : pc[s] = "idle"
      /\ UNCHANGED <<mutex, pc, name>> /\ HTInv
  BY DEF CatInv, Whereabouts, DatabaseOpen, HashtableInit, DatabaseClose, CloseTables,
         Clearing, ForeachCall, ForeachNextBucket, HashtableFree
<1>2. HTInv'
  <2>1. CASE DatabaseOpen
    BY <1>1, <2>1, InitStep DEF DatabaseOpen
  <2>2. CASE DatabaseClose
    BY <1>1, <2>2, WalkStep DEF DatabaseClose
  <2>3. CASE CloseTables
    BY <1>1, <2>3, CallStep, FreeStep, WalkStep DEF CloseTables, Clearing
  <2> QED BY <2>1, <2>2, <2>3
<1>3. acked' = {}
  BY DEF CatInv, Whereabouts, DatabaseOpen, HashtableInit, DatabaseClose, CloseTables,
         Clearing, ForeachCall, ForeachNextBucket, HashtableFree
<1>4. AckedStays' /\ MutexHeld'
  BY <1>1, <1>3 DEF CatInv, AckedStays, MutexHeld
<1>5. Whereabouts'
  BY <1>1, <1>3 DEF CatInv, Whereabouts
<1> QED BY <1>2, <1>4, <1>5 DEF CatInv

----------------------------------------------------------------------------
(* The theorems *)

LEMMA CatInitInv == CatInit => CatInv
<1> SUFFICES ASSUME CatInit PROVE CatInv
  OBVIOUS
<1>1. HTInv
  BY InitHolds DEF CatInit
<1>2. AckedStays /\ MutexHeld /\ Whereabouts
  BY DEF CatInit, AckedStays, MutexHeld, Whereabouts
<1> QED BY <1>1, <1>2 DEF CatInv

LEMMA CatNextInv == CatInv /\ [CatNext]_catvars => CatInv'
<1> SUFFICES ASSUME CatInv, [CatNext]_catvars PROVE CatInv'
  OBVIOUS
<1>1. CASE DatabaseOpen \/ DatabaseClose \/ CloseTables
  BY <1>1, CloseStep
<1>2. ASSUME NEW s \in Sessions, NEW n \in Keys, UseTable(s, n) PROVE CatInv'
  BY <1>2, SessionStep
<1>3. ASSUME NEW s \in Sessions, NEW n \in Keys, NEW ifNotExists \in BOOLEAN,
             AnalyseCreate(s, n, ifNotExists)
      PROVE  CatInv'
  BY <1>3, SessionStep
<1>4. ASSUME NEW s \in Sessions, Continue(s) PROVE CatInv'
  BY <1>4, SessionStep, AddStep DEF Continue
<1>5. CASE UNCHANGED catvars
  <2>1. Quiet /\ UNCHANGED <<mutex, pc, name, acked>>
    BY <1>5 DEF catvars, Quiet, htvars
  <2>2. HTInv' /\ Pairs' = Pairs /\ op' = op
    BY <2>1, QuietStep DEF CatInv
  <2>3. \A s \in Sessions : EntryOf(s)' = EntryOf(s)
    BY <2>1 DEF EntryOf
  <2>4. AckedStays' /\ MutexHeld'
    BY <2>1, <2>2 DEF CatInv, AckedStays, MutexHeld
  <2>5. Whereabouts'
    BY <2>1, <2>2, <2>3 DEF CatInv, Whereabouts
  <2> QED BY <2>2, <2>4, <2>5 DEF CatInv
<1> QED BY <1>1, <1>2, <1>3, <1>4, <1>5 DEF CatNext

LEMMA CatSpecInv == CatSpec => []CatInv
BY CatInitInv, CatNextInv, PTL DEF CatSpec

\* What the type invariant says beyond CatInv.
Outcomes == {"none", "found", "missing", "error", "kept", "created"}
HolderAndReplies == mutex \in Sessions \cup {NoSession} /\ reply \in [Sessions -> Outcomes]

LEMMA HolderAndRepliesStay ==
  ASSUME HolderAndReplies, [CatNext]_catvars PROVE HolderAndReplies'
<1>1. CASE DatabaseOpen \/ DatabaseClose \/ CloseTables \/ UNCHANGED catvars
  BY <1>1 DEF HolderAndReplies, catvars, DatabaseOpen, DatabaseClose, CloseTables
<1>2. ASSUME NEW s \in Sessions,
             \/ \E n \in Keys : UseTable(s, n)
             \/ \E n \in Keys, ifNotExists \in BOOLEAN : AnalyseCreate(s, n, ifNotExists)
      PROVE  HolderAndReplies'
  <2>1. mutex' = mutex
    BY <1>2 DEF UseTable, AnalyseCreate, Dies
  <2>2. reply' = reply \/ \E r \in Outcomes : reply' = [reply EXCEPT ![s] = r]
    BY <1>2 DEF UseTable, AnalyseCreate, Dies, Ends, Outcomes
  <2> QED BY <2>1, <2>2 DEF HolderAndReplies
<1>3. ASSUME NEW s \in Sessions, Continue(s) PROVE HolderAndReplies'
  <2>1. mutex' \in {mutex, s, NoSession}
    BY <1>3 DEF Continue, DatabaseLock, CheckIfNotExists, BuildTable, TableAdd,
                TableAddResizes, DatabaseUnlock, Unlocks
  <2>2. reply' = reply \/ \E r \in Outcomes : reply' = [reply EXCEPT ![s] = r]
    BY <1>3 DEF Continue, DatabaseLock, CheckIfNotExists, BuildTable, TableAdd,
                TableAddResizes, DatabaseUnlock, Unlocks, Ends, Outcomes
  <2> QED BY <2>1, <2>2 DEF HolderAndReplies
<1> QED BY <1>1, <1>2, <1>3 DEF CatNext

\* Whoever races, every session is where a session can be, the lock is held by
\* a session or by none, and what was acknowledged are entries of the catalog.
THEOREM CatTypeCorrect == CatSpec => []CatTypeOK
<1>1. CatInit => HolderAndReplies
  BY DEF CatInit, HolderAndReplies, Outcomes
<1>2. CatSpec => []HolderAndReplies
  BY <1>1, HolderAndRepliesStay, PTL DEF CatSpec
<1>3. CatInv /\ HolderAndReplies => CatTypeOK
  <2> SUFFICES ASSUME CatInv, HolderAndReplies PROVE CatTypeOK
    OBVIOUS
  <2>1. HTTypeOK /\ acked \subseteq Pairs
    BY DEF CatInv, HTInv, AckedStays
  <2>2. Pairs \subseteq Entry
    BY <2>1 DEF HTTypeOK, Pairs, InArray, InGrown, AllOf, Buckets
  <2> QED BY <2>1, <2>2 DEF CatInv, CatTypeOK, HolderAndReplies, Whereabouts, Outcomes
<1> QED BY <1>2, <1>3, CatSpecInv, PTL

\* A table whose CREATE was reported to succeed is in the catalog, as the table
\* that this CREATE built, until the database is closed: for any number of
\* sessions, names and collisions, and through any number of resizes.
THEOREM CreatedTablesStay == CatSpec => []AckedStays
BY CatSpecInv, PTL DEF CatInv

\* No two sessions are between database_lock and database_unlock at once, and
\* the lock is held by a session that will give it back.
THEOREM LockIsExclusive == CatSpec => []MutexHeld
BY CatSpecInv, PTL DEF CatInv
=============================================================================
