----------------------------- MODULE ResultSet -----------------------------
(***************************************************************************)
(* The rows of a SELECT: executor_select.c stores them in a table of their *)
(* own, deletes those that joins, WHERE and GROUP BY drop, and vacuums the *)
(* table; the client then walks it with query_cur_step (engine/query.c).   *)
(***************************************************************************)
EXTENDS TableRefinement

CONSTANT Garbage   \* a row read from bytes that nothing initialised

VARIABLES
  reading,  \* "building", "fresh" (no step taken yet), "row", "end", "abort"
  cursor,   \* cursor_blk (index in the list) and cursor_offset, in slots
  fetched   \* the rows that the client has got, in order

rsVars == <<phase, blocks, free, heap, vac, reading, cursor, fetched>>

cursorVars == <<reading, cursor, fetched>>

RSInit ==
  /\ Init
  /\ reading = "building"
  /\ cursor = [blk |-> 0, slot |-> 0]
  /\ fetched = <<>>

\* Mutant of Building: the final table_vacuum is missing.
BuildingUncompacted ==
  /\ reading = "building"
  /\ \/ TableInit
     \/ \E row \in Inputs : InsertRow(row)
     \/ \E b \in 1 .. Len(blocks), s \in SlotIds : DeleteRow(b, s)
  /\ \/ reading' = reading
     \/ reading' = "fresh" /\ blocks # <<>>
  /\ UNCHANGED <<cursor, fetched>>

\* executor_run_select_stmt before and in its final vacuum, for a SELECT of all
\* columns: that others are taken out of the rows in place before the vacuum is
\* SelectClause of module Select.
Building ==
  /\ reading = "building"
  /\ \/ TableInit
     \/ \E row \in Inputs : InsertRow(row)
     \/ \E b \in 1 .. Len(blocks), s \in SlotIds : DeleteRow(b, s)
     \/ VacuumStart
     \/ Vacuuming
  /\ reading' = IF phase = "vacuum" /\ phase' = "ready" THEN "fresh" ELSE reading
  /\ UNCHANGED <<cursor, fetched>>

----------------------------------------------------------------------------
(* query_cur_step *)

PageLeft == (cursor.slot + 1) * RowSize <= PageSize

\* Mutant of NextCursor: the walk starts with the last datablock.
NextCursorFromLast ==
  CASE reading = "fresh" -> [blk |-> Len(blocks), slot |-> 0]
    [] reading = "row" /\ PageLeft -> [cursor EXCEPT !.slot = @ + 1]
    [] OTHER -> [blk |-> cursor.blk + 1, slot |-> 0]

NextCursor ==
  CASE reading = "fresh" -> [blk |-> 1, slot |-> 0]
    [] reading = "row" /\ PageLeft -> [cursor EXCEPT !.slot = @ + 1]
    [] OTHER -> [blk |-> cursor.blk + 1, slot |-> 0]

\* The flags and the row at the cursor.  Past the last slot of a datablock lie
\* bytes that were never written: they read as anything.
SlotsAt(c) == IF c.slot \in SlotIds THEN {blocks[c.blk][c.slot]}
              ELSE {[BlankSlot EXCEPT !.empty = e, !.deleted = d] :
                      e \in BOOLEAN, d \in BOOLEAN}

RowAt(c) == IF c.slot \in SlotIds THEN Content(blocks[c.blk][c.slot]) ELSE Garbage

\* Mutant of CurStep: behind the last datablock the answer is still
\* MIDORIDB_ROW.
CurStepEndIsRow ==
  /\ reading \in {"fresh", "row"}
  /\ cursor' = NextCursor
  /\ UNCHANGED vars
  /\ NextCursor.blk <= Len(blocks)
  /\ \E slot \in SlotsAt(NextCursor) :
       \/ slot.deleted /\ reading' = "abort" /\ UNCHANGED fetched
       \/ ~slot.deleted /\ slot.empty /\ UNCHANGED <<reading, fetched>>
       \/ /\ Live(slot)
          /\ reading' = "row"
          /\ fetched' = Append(fetched, RowAt(NextCursor))

CurStep ==
  /\ reading \in {"fresh", "row"}
  /\ cursor' = NextCursor
  /\ UNCHANGED vars
  /\ IF NextCursor.blk > Len(blocks)
     THEN reading' = "end" /\ UNCHANGED fetched
     ELSE \E slot \in SlotsAt(NextCursor) :
            \/ slot.deleted /\ reading' = "abort" /\ UNCHANGED fetched
            \/ ~slot.deleted /\ slot.empty /\ reading' = "end" /\ UNCHANGED fetched
            \/ /\ Live(slot)
               /\ reading' = "row"
               /\ fetched' = Append(fetched, RowAt(NextCursor))

RSNext == Building \/ CurStep

RSSpec == RSInit /\ [][RSNext]_rsVars

\* The client steps until it is told that there is no more.
RSFairSpec == RSSpec /\ WF_rsVars(CurStep)

----------------------------------------------------------------------------
(* Properties *)

\* The client gets the rows in the order of the table, none twice, none that
\* was deleted, and nothing that is not a row.
FetchedInOrder == reading # "building" => IsPrefix(fetched, LiveRows)

\* query_cur_step says "end of result_set is reached" only when the client has
\* got every row (query.h:47-53).
EndMeansAll == reading = "end" => fetched = LiveRows

\* query_cur_step never meets a deleted row (query.c:137: "at this point we
\* shouldn't have any of this, so clearly something went really wrong here").
NoDeletedAtCursor == reading # "abort"

\* A client that keeps stepping is eventually told that the rows are at an end.
ReadingEnds == reading = "fresh" ~> reading = "end"
=============================================================================
