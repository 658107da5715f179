----------------------------- MODULE HashTable ------------------------------
(***************************************************************************)
(* The hash table of MidoriDB (src/src/datastructure/hashtable.c), which   *)
(* holds the tables of a database and the name sets of the analysers:      *)
(* chained buckets in an array that doubles when the table is half full.   *)
(*                                                                         *)
(* A bucket is a list in the code; keys are unique, so no operation can    *)
(* tell its order and it is a set here.  The loops of hashtable_resize and *)
(* hashtable_foreach take one entry per step.                              *)
(***************************************************************************)
EXTENDS Integers, FiniteSets

CONSTANTS
  Keys, Vals,
  Hash,     \* hash_fn: a number for every key
  InitCap,  \* HASHTABLE_DEFAULT_CAPACITY
  MaxCap,   \* bound: capacity that memory suffices for
  NoValue   \* NULL

ASSUME HashAssumption == Hash \in [Keys -> Nat]

ASSUME CapacityAssumption == InitCap \in Nat \ {0} /\ MaxCap \in Nat

ASSUME NoValueAssumption == NoValue \notin Vals \cup BOOLEAN

VARIABLES
  op,     \* "none": not initialised; "idle"; the loop that runs, "resize"
          \* or "foreach"; "abort": a BUG_ON was hit
  cap,    \* hashtable->capacity
  array,  \* hashtable->array
  count,  \* hashtable->count
  grown,  \* new_array of hashtable_resize
  i,      \* index of the bucket that the running loop is at
  todo,   \* hashtable_foreach: entries of that bucket it has not visited
  answer  \* what the last operation returned

htvars == <<op, cap, array, count, grown, i, todo, answer>>

Entry == [key : Keys, val : Vals]

Buckets(n) == [0 .. n - 1 -> SUBSET Entry]

EmptyArray(n) == [b \in 0 .. n - 1 |-> {}]

\* The bucket of a key in an array of n buckets.
Index(k, n) == Hash[k] % n

\* What a walk of the bucket of k finds: at most one entry, see UniqueKeys.
Found(k) == {e \in array[Index(k, cap)] : e.key = k}

Added(a, b, e) == [a EXCEPT ![b] = a[b] \cup {e}]

Dropped(a, b, e) == [a EXCEPT ![b] = a[b] \ {e}]

AllOf(a, n) == UNION {a[b] : b \in 0 .. n - 1}

----------------------------------------------------------------------------
HTInit ==
  /\ op = "none" /\ cap = InitCap /\ array = EmptyArray(InitCap) /\ count = 0
  /\ grown = EmptyArray(2 * InitCap) /\ i = 0 /\ todo = {} /\ answer = NoValue

HashtableInit ==
  /\ op = "none"
  /\ op' = "idle"
  /\ cap' = InitCap
  /\ array' = EmptyArray(InitCap)
  /\ count' = 0
  /\ UNCHANGED <<grown, i, todo, answer>>

\* Mutants of PutNew: the bucket is not searched for the key; the new array is
\* allocated as large as the old one.
PutNewUnchecked(k, v) ==
  /\ op = "idle"
  /\ array' = Added(array, Index(k, cap), [key |-> k, val |-> v])
  /\ count' = count + 1
  /\ answer' = TRUE
  /\ UNCHANGED <<op, cap, grown, i, todo>>

PutNewSmallArray(k, v) ==
  /\ op = "idle"
  /\ Found(k) = {}
  /\ array' = Added(array, Index(k, cap), [key |-> k, val |-> v])
  /\ count' = count + 1
  /\ answer' = TRUE
  /\ \/ op' = op /\ UNCHANGED <<grown, i>>
     \/ /\ 2 * count' >= cap
        /\ op' = "resize"
        /\ grown' = EmptyArray(cap)
        /\ i' = 0
  /\ UNCHANGED <<cap, todo>>

\* hashtable_put starts to resize when the load factor reaches one half.
\* When the new array cannot be allocated it goes on with the old one.
PutNew(k, v) ==
  /\ op = "idle"
  /\ Found(k) = {}
  /\ array' = Added(array, Index(k, cap), [key |-> k, val |-> v])
  /\ count' = count + 1
  /\ answer' = TRUE
  /\ \/ op' = op /\ UNCHANGED <<grown, i>>
     \/ /\ 2 * count' >= cap
        /\ 2 * cap <= MaxCap
        /\ op' = "resize"
        /\ grown' = EmptyArray(2 * cap)
        /\ i' = 0
  /\ UNCHANGED <<cap, todo>>

\* The key is there, or the entry cannot be allocated.
PutRefused(k) ==
  /\ op = "idle"
  /\ answer' = FALSE
  /\ UNCHANGED <<op, cap, array, count, grown, i, todo>>

Get(k) ==
  /\ op = "idle"
  /\ \/ Found(k) = {} /\ answer' = NoValue
     \/ \E e \in Found(k) : answer' = e.val
  /\ UNCHANGED <<op, cap, array, count, grown, i, todo>>

\* Mutant of Unlink: the entry is not counted off.
UnlinkKeepsCount(k, e) ==
  array' = Dropped(array, Index(k, cap), e) /\ UNCHANGED count

\* hashtable_remove, up to what it returns.
Unlink(k, e) ==
  /\ array' = Dropped(array, Index(k, cap), e)
  /\ count' = count - 1

Remove(k) ==
  /\ op = "idle"
  /\ \/ Found(k) = {} /\ answer' = NoValue /\ UNCHANGED <<array, count>>
     \/ \E e \in Found(k) : Unlink(k, e) /\ answer' = e.val
  /\ UNCHANGED <<op, cap, grown, i, todo>>

----------------------------------------------------------------------------
(* hashtable_resize *)

\* Mutants of ResizeMove: the bucket is that of the old capacity; the entry is
\* not linked into the new array.
ResizeMoveOldIndex(e) ==
  /\ op = "resize" /\ i < cap
  /\ e \in array[i]
  /\ array' = Dropped(array, i, e)
  /\ grown' = Added(grown, Index(e.key, cap), e)
  /\ UNCHANGED <<op, cap, count, i, todo, answer>>

ResizeMoveLoses(e) ==
  /\ op = "resize" /\ i < cap
  /\ e \in array[i]
  /\ array' = Dropped(array, i, e)
  /\ UNCHANGED <<op, cap, count, grown, i, todo, answer>>

\* list_del from the old bucket, list_add to the new one.
ResizeMove(e) ==
  /\ op = "resize" /\ i < cap
  /\ e \in array[i]
  /\ array' = Dropped(array, i, e)
  /\ grown' = Added(grown, Index(e.key, 2 * cap), e)
  /\ UNCHANGED <<op, cap, count, i, todo, answer>>

\* Mutant of ResizeNextBucket: an empty bucket is looked at for ever.
ResizeNextBucketStays ==
  /\ op = "resize" /\ i < cap
  /\ array[i] = {}
  /\ UNCHANGED htvars

ResizeNextBucket ==
  /\ op = "resize" /\ i < cap
  /\ array[i] = {}
  /\ i' = i + 1
  /\ UNCHANGED <<op, cap, array, count, grown, todo, answer>>

ResizeEnd ==
  /\ op = "resize" /\ i = cap
  /\ op' = "idle"
  /\ array' = grown
  /\ cap' = 2 * cap
  /\ grown' = EmptyArray(2 * InitCap)
  /\ i' = 0
  /\ UNCHANGED <<count, todo, answer>>

Resizing == ResizeNextBucket \/ ResizeEnd \/ \E e \in Entry : ResizeMove(e)

----------------------------------------------------------------------------
(* hashtable_foreach with a callback that removes and frees the entry it is  *)
(* given (free_table, free_str_entries), then hashtable_free                 *)

ForeachStart ==
  /\ op = "idle"
  /\ op' = "foreach"
  /\ i' = 0
  /\ todo' = array[0]
  /\ UNCHANGED <<cap, array, count, grown, answer>>

\* The callback removes by key, not by the entry at hand: it would
\* dereference NULL if the key led elsewhere.
ForeachCall(e) ==
  /\ op = "foreach" /\ i < cap
  /\ e \in todo
  /\ todo' = todo \ {e}
  /\ \/ /\ Found(e.key) = {}
        /\ op' = "abort"
        /\ UNCHANGED <<array, count, answer>>
     \/ \E f \in Found(e.key) :
          Unlink(e.key, f) /\ answer' = f.val /\ UNCHANGED op
  /\ UNCHANGED <<cap, grown, i>>

ForeachNextBucket ==
  /\ op = "foreach" /\ i < cap
  /\ todo = {}
  /\ i' = i + 1
  /\ todo' = IF i + 1 < cap THEN array[i + 1] ELSE {}
  /\ UNCHANGED <<op, cap, array, count, grown, answer>>

\* BUG_ON(hashtable->count != 0) and, bucket by bucket,
\* BUG_ON(!list_is_empty(ptr)).
HashtableFree ==
  /\ op = "foreach" /\ i = cap
  /\ op' = IF count # 0 \/ AllOf(array, cap) # {} THEN "abort" ELSE "none"
  /\ i' = 0
  /\ answer' = NoValue
  /\ UNCHANGED <<cap, array, count, grown, todo>>

Clearing == ForeachNextBucket \/ HashtableFree \/ \E e \in todo : ForeachCall(e)

----------------------------------------------------------------------------
HTNext ==
  \/ HashtableInit
  \/ \E k \in Keys, v \in Vals : PutNew(k, v) \/ PutRefused(k)
  \/ \E k \in Keys : Get(k) \/ Remove(k)
  \/ Resizing
  \/ ForeachStart
  \/ Clearing

HTSpec == HTInit /\ [][HTNext]_htvars

\* The loops run to their end once they were entered.
HTFairSpec == HTSpec /\ WF_htvars(Resizing) /\ WF_htvars(Clearing)

----------------------------------------------------------------------------
(* Properties *)

InArray == AllOf(array, cap)
InGrown == IF op = "resize" THEN AllOf(grown, 2 * cap) ELSE {}

\* The entries of the table, wherever a running resize has them.
Pairs == InArray \cup InGrown

\* Every variable keeps its type.
HTTypeOK ==
  /\ op \in {"none", "idle", "resize", "foreach", "abort"}
  /\ cap \in Nat \ {0}
  /\ array \in Buckets(cap)
  /\ count \in Int
  /\ op = "resize" => grown \in Buckets(2 * cap)
  /\ i \in 0 .. cap
  /\ todo \subseteq Entry
  /\ answer \in Vals \cup BOOLEAN \cup {NoValue}

\* Every entry is in the bucket that its key leads to for the capacity of the
\* array it is in, so that a lookup that walks one bucket misses nothing.
Located ==
  /\ \A b \in 0 .. cap - 1 : \A e \in array[b] : Index(e.key, cap) = b
  /\ op = "resize" => \A b \in 0 .. 2 * cap - 1 : \A e \in grown[b] : Index(e.key, 2 * cap) = b

\* No key has two entries, not even one in each array while the table grows.
UniqueKeys ==
  /\ \A d, e \in Pairs : d.key = e.key => d = e
  /\ InArray \cap InGrown = {}

\* The counter that decides when to grow and whether the table may be freed is
\* the number of entries.
CountMatches == count = Cardinality(Pairs)

\* No BUG_ON is reached: the callbacks that empty the table while
\* hashtable_foreach walks it leave nothing behind (hashtable.c:70, 74).
FreeNeverAborts == op # "abort"

Map == INSTANCE Dictionary WITH pairs <- Pairs

\* Whatever the buckets look like, callers see a map: in particular growing
\* loses no entry, duplicates none and changes no answer.
ImplementsDictionary == Map!DSpec

\* A table that grows is usable again, one that is being emptied gets freed.
LoopsEnd == op \in {"resize", "foreach"} ~> op \in {"idle", "none"}
=============================================================================
