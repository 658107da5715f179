-------------------------- MODULE TableRefinement --------------------------
(***************************************************************************)
(* The datablocks of a table implement a sequence of rows: the rows of the *)
(* live slots, in the order in which a scan of the datablocks meets them.  *)
(***************************************************************************)
EXTENDS Table, SequencesExt, FiniteSets

\* The slots are numbered in the order of list_for_each over the datablocks and
\* of the loop over the rows of each.
BlockOf(p) == p \div Slots + 1

SlotOf(p) == p % Slots

SlotAtPlace(p) == blocks[BlockOf(p)][SlotOf(p)]

\* Where the rows are.
LivePlaces == {p \in 0 .. Len(blocks) * Slots - 1 : Live(SlotAtPlace(p))}

\* The k-th of a set of places: k of them are not behind it.
Nth(places, k) == CHOOSE p \in places : Cardinality({q \in places : q <= p}) = k

LiveRows == LET places == LivePlaces
            IN  [k \in 1 .. Cardinality(places) |-> Content(SlotAtPlace(Nth(places, k)))]

\* Every operation on the datablocks does to the rows what RowStore says, and
\* no iteration of table_vacuum changes them, not even half way through.
Store == INSTANCE RowStore WITH
           Rows <- Inputs, open <- phase # "none", compacting <- phase = "vacuum",
           rows <- LiveRows

ImplementsStore == Store!StoreSpec
=============================================================================
