----------------------------- MODULE Dictionary -----------------------------
(***************************************************************************)
(* What the hash table of MidoriDB promises (datastructure/hashtable.h): a *)
(* finite map from keys to values.  How the entries are spread over        *)
(* buckets, and that the buckets are rebuilt while the map grows, does not *)
(* show.                                                                   *)
(***************************************************************************)
CONSTANTS Keys, Vals, NoValue

VARIABLES
  pairs,  \* the entries, records of a key and a value
  answer  \* what the last operation returned

dvars == <<pairs, answer>>

Has(k) == \E p \in pairs : p.key = k

DInit == pairs = {} /\ answer = NoValue

\* A key that is already there is refused; so is any key when memory is short.
DPut(k, v) ==
  \/ ~Has(k) /\ pairs' = pairs \cup {[key |-> k, val |-> v]} /\ answer' = TRUE
  \/ pairs' = pairs /\ answer' = FALSE

DGet(k) ==
  /\ \/ \E p \in pairs : p.key = k /\ answer' = p.val
     \/ ~Has(k) /\ answer' = NoValue
  /\ UNCHANGED pairs

DRemove(k) ==
  \/ \E p \in pairs : p.key = k /\ answer' = p.val /\ pairs' = pairs \ {p}
  \/ ~Has(k) /\ answer' = NoValue /\ UNCHANGED pairs

\* Freeing the map is possible once it is empty.
DFree == pairs = {} /\ answer' = NoValue /\ UNCHANGED pairs

DNext ==
  \/ \E k \in Keys, v \in Vals : DPut(k, v)
  \/ \E k \in Keys : DGet(k) \/ DRemove(k)
  \/ DFree

DSpec == DInit /\ [][DNext]_dvars
=============================================================================
