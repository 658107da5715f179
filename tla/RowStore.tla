------------------------------ MODULE RowStore ------------------------------
(***************************************************************************)
(* What a table promises to the statements that use it: a sequence of      *)
(* rows.  An insertion adds its row at the end, a deletion takes one row   *)
(* out, an update replaces one row where it is.  A table may be compacted: *)
(* while that goes on the rows do not change.                              *)
(***************************************************************************)
EXTENDS Integers, SequencesExt

CONSTANT Rows

VARIABLES open, compacting, rows

storeVars == <<open, compacting, rows>>

StoreInit == open = FALSE /\ compacting = FALSE /\ rows = <<>>

Open == ~open /\ open' = TRUE /\ rows' = <<>> /\ UNCHANGED compacting

Close == open /\ ~compacting /\ open' = FALSE /\ rows' = <<>> /\ UNCHANGED compacting

\* A row is added, removed or replaced.
Changed(before, after) ==
  \/ \E row \in Rows : after = Append(before, row)
  \/ \E i \in 1 .. Len(before) : after = RemoveAt(before, i)
  \/ \E i \in 1 .. Len(before), row \in Rows : after = ReplaceAt(before, i, row)

Change ==
  /\ open /\ ~compacting /\ UNCHANGED <<open, compacting>>
  /\ \E before \in {rows}, after \in {rows'} : Changed(before, after)

Compaction == open /\ compacting' = ~compacting /\ UNCHANGED <<open, rows>>

StoreNext == Open \/ Close \/ Change \/ Compaction

StoreSpec == StoreInit /\ [][StoreNext]_storeVars
=============================================================================
