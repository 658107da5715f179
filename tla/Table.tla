------------------------------- MODULE Table -------------------------------
(***************************************************************************)
(* The storage engine of one table (src/src/primitive/{table,row,vacuum,   *)
(* datablock}.c): a list of fixed-size datablocks, each cut into slots of  *)
(* one row, plus the heap cells that hold the contents of VARCHAR columns. *)
(*                                                                         *)
(* All offsets of the code are multiples of the row size of the table, so  *)
(* they are kept in slots: free = 2 stands for free_dtbkl_offset =         *)
(* 2 * RowSize.  The comparisons with DATABLOCK_PAGE_SIZE stay in bytes.   *)
(*                                                                         *)
(* table_vacuum is not one step: each iteration of its nested loops is an  *)
(* action, so that what holds in the middle of a compaction can be stated. *)
(***************************************************************************)
EXTENDS Integers, Sequences

CONSTANTS
  PageSize,   \* bytes in a datablock (DATABLOCK_PAGE_SIZE)
  RowSize,    \* bytes of a row, header and data (table_calc_row_size)
  HdrSize,    \* bytes of the row header (flags, null bitmap, padding)
  NCols,      \* number of columns of the table
  VarCols,    \* the columns whose slot holds a pointer (CT_VARCHAR)
  Vals,       \* non-zero column values
  Inputs,     \* the rows that callers store
  Cells,      \* heap cells that a VARCHAR may be given
  Zero,       \* the all-zero value: a NULL pointer, an unset number
  Null,       \* a column that is NULL in a row
  Unalloc,    \* content of a heap cell that is not allocated
  MaxBlocks   \* bound: datablocks of the table

Cols == 1 .. NCols

ASSUME SizeAssumption ==
  /\ PageSize \in Nat /\ RowSize \in Nat /\ HdrSize \in Nat
  /\ 0 < HdrSize /\ HdrSize < RowSize /\ RowSize < PageSize

ASSUME SchemaAssumption ==
  /\ NCols \in Nat
  /\ VarCols \subseteq Cols
  /\ Inputs \subseteq [Cols -> Vals \cup {Null}]
  /\ MaxBlocks \in Nat

ASSUME ValueAssumption ==
  /\ Zero \notin Cells /\ Zero \notin Vals /\ Null \notin Vals
  /\ Null # Zero
  /\ Unalloc \notin Vals \cup {Zero}

VARIABLES
  phase,   \* "none": no table; "ready"; "vacuum"; "abort"; "crash"
  blocks,  \* datablock_head: the datablocks in list order
  free,    \* free_dtbkl_offset: first unused slot of the last datablock
  heap,    \* what each heap cell holds
  vac      \* the loop variables of table_vacuum

vars == <<phase, blocks, free, heap, vac>>

----------------------------------------------------------------------------
(* Slots and rows *)

Slots == PageSize \div RowSize        \* rows that table_datablock_init lays out
SlotIds == 0 .. Slots - 1

\* The test of table_insert_row and table_vacuum; it is strict, so a slot that
\* ends exactly at the end of the page is never used.
Fits(n) == (n + 1) * RowSize < PageSize

\* A VARCHAR column of a slot holds a pointer, any other column its value.
SlotData == {d \in [Cols -> Vals \cup Cells \cup {Zero}] :
               \A c \in VarCols : d[c] \in Cells \cup {Zero}}

Slot == [empty : BOOLEAN, deleted : BOOLEAN, nulls : SUBSET Cols, data : SlotData]

BlankSlot == [empty |-> TRUE, deleted |-> FALSE, nulls |-> {},
              data |-> [c \in Cols |-> Zero]]

BlankBlock == [s \in SlotIds |-> BlankSlot]

\* The block list bs after slot was written at slot s of block b.
SetSlot(bs, b, s, slot) == [bs EXCEPT ![b] = [bs[b] EXCEPT ![s] = slot]]

Live(slot) == ~slot.empty /\ ~slot.deleted

NullsOf(row) == {c \in Cols : row[c] = Null}

\* The bytes of a value: a NULL column is left zeroed.
Bytes(row, c) == IF row[c] = Null THEN Zero ELSE row[c]

\* The slot that holds row, its VARCHAR columns in the cells ptr.
Filled(row, ptr) ==
  [empty |-> FALSE, deleted |-> FALSE, nulls |-> NullsOf(row),
   data |-> [c \in Cols |-> IF c \in VarCols THEN ptr[c] ELSE Bytes(row, c)]]

\* The row a reader finds in a slot.
Content(slot) ==
  [c \in Cols |-> IF c \in slot.nulls THEN Null
                  ELSE IF c \in VarCols THEN heap[slot.data[c]]
                  ELSE slot.data[c]]

\* The heap cells that the row in a slot refers to: what
\* table_free_row_content releases.  An empty slot refers to none.
CellsOf(slot) ==
  IF slot.empty THEN {} ELSE {slot.data[c] : c \in VarCols} \ {Zero}

Release(cells) == [x \in Cells |-> IF x \in cells THEN Unalloc ELSE heap[x]]

FreeCells == {x \in Cells : heap[x] = Unalloc}

\* Ways in which zalloc can serve the VARCHAR columns of one row.
Grants == {p \in [VarCols -> FreeCells] :
             \A c, d \in VarCols : p[c] = p[d] => c = d}

\* What the heap holds after the values of row went to the cells ptr.
Written(row, ptr) ==
  [x \in Cells |-> IF \E c \in VarCols : ptr[c] = x
                   THEN Bytes(row, CHOOSE c \in VarCols : ptr[c] = x)
                   ELSE heap[x]]
----------------------------------------------------------------------------
(* Creating and destroying the table *)

\* The loop variables of table_vacuum; see there.
Loop(dst, dstOff, src, srcOff, i) ==
  [dst |-> dst, dstOff |-> dstOff, src |-> src, srcOff |-> srcOff, i |-> i]

NoVacuum == Loop(1, 0, 1, 0, 0)

Init ==
  /\ phase = "none"
  /\ blocks = <<>>
  /\ free = 0
  /\ heap = [x \in Cells |-> Unalloc]
  /\ vac = NoVacuum

TableInit ==
  /\ phase = "none"
  /\ phase' = "ready"
  /\ blocks' = <<>>
  /\ free' = 0
  /\ UNCHANGED <<heap, vac>>

\* The cells of every slot of a block (__free_datablock_content).
CellsOfBlock(block) == UNION {CellsOf(block[s]) : s \in SlotIds}

TableDestroy ==
  /\ phase = "ready"
  /\ phase' = "none"
  /\ heap' = Release(UNION {CellsOfBlock(blocks[b]) : b \in 1 .. Len(blocks)})
  /\ blocks' = <<>>
  /\ free' = 0
  /\ UNCHANGED vac

----------------------------------------------------------------------------
(* table_insert_row *)

NeedsBlock == blocks = <<>> \/ ~Fits(free)

\* The block list and the slot that an insertion works on.
Target ==
  IF NeedsBlock THEN [blocks |-> Append(blocks, BlankBlock), at |-> 0]
                ELSE [blocks |-> blocks, at |-> free]

TargetSlot == Target.blocks[Len(Target.blocks)][Target.at]

\* BUG_ON(new_row->flags.deleted || !new_row->flags.empty)
TargetTaken == TargetSlot.deleted \/ ~TargetSlot.empty

\* Mutant of InsertRow: the free offset is not advanced.
InsertRowKeepsOffset(row) ==
  /\ phase = "ready"
  /\ Len(Target.blocks) <= MaxBlocks
  /\ ~TargetTaken
  /\ Grants # {}
  /\ LET ptr == CHOOSE p \in Grants : TRUE
     IN  /\ blocks' = SetSlot(Target.blocks, Len(Target.blocks), Target.at,
                              Filled(row, ptr))
         /\ heap' = Written(row, ptr)
  /\ free' = Target.at
  /\ UNCHANGED <<phase, vac>>

InsertRow(row) ==
  /\ phase = "ready"
  /\ Len(Target.blocks) <= MaxBlocks
  /\ ~TargetTaken
  /\ Grants # {}
  /\ LET ptr == CHOOSE p \in Grants : TRUE
     IN  /\ blocks' = SetSlot(Target.blocks, Len(Target.blocks), Target.at,
                              Filled(row, ptr))
         /\ heap' = Written(row, ptr)
  /\ free' = Target.at + 1
  /\ UNCHANGED <<phase, vac>>

\* The process ends in BUG_ON: the slot at the free offset is in use.
InsertAborts ==
  /\ phase = "ready"
  /\ Len(Target.blocks) <= MaxBlocks
  /\ TargetTaken
  /\ phase' = "abort"
  /\ blocks' = Target.blocks
  /\ free' = Target.at
  /\ UNCHANGED <<heap, vac>>

\* zalloc fails for the VARCHAR column c of row.  The error path frees the
\* cells granted to the columns before c, but it looks at the type of
\* columns[column_idx], which is c, so it also "frees" the values of the
\* fixed-size columns before c.  Its memzero starts at new_row->data and is a
\* whole row long: it ends one header past the slot, in the header of the next
\* slot or in what follows the page.
FreesAValue(row, c) == \E d \in 1 .. c - 1 : d \notin VarCols /\ row[d] # Null

OverrunsPage == (Target.at + 1) * RowSize + HdrSize > PageSize

InsertWithoutCell(row, c) ==
  /\ phase = "ready"
  /\ Len(Target.blocks) <= MaxBlocks
  /\ ~TargetTaken
  /\ LET last   == Len(Target.blocks)
         next   == Target.at + 1
         \* null_bitmap was copied before the failure and is not reset
         undone == SetSlot(Target.blocks, last, Target.at,
                           [BlankSlot EXCEPT !.nulls = NullsOf(row)])
     IN  IF FreesAValue(row, c) \/ OverrunsPage
         THEN phase' = "crash" /\ blocks' = undone
         ELSE /\ phase' = phase
              /\ blocks' = IF next \in SlotIds
                           THEN SetSlot(undone, last, next,
                                  [undone[last][next] EXCEPT
                                     !.empty = FALSE, !.deleted = FALSE, !.nulls = {}])
                           ELSE undone
  /\ free' = Target.at
  /\ UNCHANGED <<heap, vac>>

----------------------------------------------------------------------------
(* table_delete_row, table_update_row: the callers scan the datablocks and   *)
(* pass on slots that are neither empty nor deleted                          *)

LiveAt(b, s) == b \in 1 .. Len(blocks) /\ s \in SlotIds /\ Live(blocks[b][s])

DeleteRow(b, s) ==
  /\ phase = "ready"
  /\ LiveAt(b, s)
  /\ blocks' = SetSlot(blocks, b, s, [blocks[b][s] EXCEPT !.deleted = TRUE])
  /\ UNCHANGED <<phase, free, heap, vac>>

\* Mutant of UpdateRow: the new VARCHAR goes into the slot, not into its cell.
UpdateRowInSlot(b, s, row) ==
  /\ phase = "ready"
  /\ LiveAt(b, s)
  /\ blocks' = SetSlot(blocks, b, s, Filled(row, [c \in VarCols |-> Bytes(row, c)]))
  /\ UNCHANGED <<phase, free, heap, vac>>

UpdateRow(b, s, row) ==
  /\ phase = "ready"
  /\ LiveAt(b, s)
  /\ \A c \in VarCols : blocks[b][s].data[c] # Zero
  /\ LET ptr == [c \in VarCols |-> blocks[b][s].data[c]]
     IN  /\ blocks' = SetSlot(blocks, b, s, Filled(row, ptr))
         /\ heap' = Written(row, ptr)
  /\ UNCHANGED <<phase, free, vac>>

\* memcpy through the NULL pointer of a slot that never was a row.
UpdateCrashes(b, s) ==
  /\ phase = "ready"
  /\ LiveAt(b, s)
  /\ \E c \in VarCols : blocks[b][s].data[c] = Zero
  /\ phase' = "crash"
  /\ UNCHANGED <<blocks, free, heap, vac>>

----------------------------------------------------------------------------
(* table_vacuum: dst and src are the indexes of the destination and source   *)
(* datablocks, dstOff and srcOff their offsets, i the slot being looked at   *)

VacuumStart ==
  /\ phase = "ready"
  /\ blocks # <<>>
  /\ phase' = "vacuum"
  /\ vac' = NoVacuum
  /\ UNCHANGED <<blocks, free, heap>>

\* The list is empty: dst_entry is still NULL when its tail is initialised.
VacuumCrashes ==
  /\ phase = "ready"
  /\ blocks = <<>>
  /\ phase' = "crash"
  /\ UNCHANGED <<blocks, free, heap, vac>>

Scanning == phase = "vacuum" /\ vac.src <= Len(blocks)

SrcSlot == blocks[vac.src][vac.i]

AtLiveRow == Scanning /\ vac.i < Slots /\ Live(SrcSlot)

DstFull == AtLiveRow /\ ~Fits(vac.dstOff)

\* Mutant of VacuumNextSource: src_blk_offset is not reset.
VacuumNextSourceKeepsOffset ==
  /\ Scanning
  /\ vac.i >= Slots
  /\ vac' = Loop(vac.dst, vac.dstOff, vac.src + 1, vac.srcOff, 0)
  /\ UNCHANGED <<phase, blocks, free, heap>>

VacuumNextSource ==
  /\ Scanning
  /\ vac.i >= Slots
  /\ vac' = Loop(vac.dst, vac.dstOff, vac.src + 1, 0, 0)
  /\ UNCHANGED <<phase, blocks, free, heap>>

\* Mutant of VacuumSkip: it continues without going on to the next slot.
VacuumSkipStays ==
  /\ Scanning
  /\ vac.i < Slots
  /\ ~Live(SrcSlot)
  /\ UNCHANGED vars

VacuumSkip ==
  /\ Scanning
  /\ vac.i < Slots
  /\ ~Live(SrcSlot)
  /\ vac' = Loop(vac.dst, vac.dstOff, vac.src, vac.srcOff + 1, vac.i + 1)
  /\ UNCHANGED <<phase, blocks, free, heap>>

InPlace == vac.dst = vac.src /\ vac.dstOff = vac.i

\* The row is where it belongs; src_blk_offset is left behind.
VacuumKeep ==
  /\ AtLiveRow
  /\ ~DstFull
  /\ InPlace
  /\ vac' = Loop(vac.dst, vac.dstOff + 1, vac.src, vac.srcOff, vac.i + 1)
  /\ UNCHANGED <<phase, blocks, free, heap>>

\* Mutants of VacuumMove: the row moved from is not blanked, and the row moved
\* onto is not freed.
VacuumMoveCopies ==
  /\ AtLiveRow
  /\ ~DstFull
  /\ ~InPlace
  /\ heap' = Release(CellsOf(blocks[vac.dst][vac.dstOff]))
  /\ blocks' = SetSlot(blocks, vac.dst, vac.dstOff, SrcSlot)
  /\ vac' = Loop(vac.dst, vac.dstOff + 1, vac.src, vac.srcOff + 1, vac.i + 1)
  /\ UNCHANGED <<phase, free>>

VacuumMoveLeaks ==
  /\ AtLiveRow
  /\ ~DstFull
  /\ ~InPlace
  /\ blocks' = SetSlot(SetSlot(blocks, vac.dst, vac.dstOff, SrcSlot),
                       vac.src, vac.i, BlankSlot)
  /\ vac' = Loop(vac.dst, vac.dstOff + 1, vac.src, vac.srcOff + 1, vac.i + 1)
  /\ UNCHANGED <<phase, free, heap>>

VacuumMove ==
  /\ AtLiveRow
  /\ ~DstFull
  /\ ~InPlace
  /\ heap' = Release(CellsOf(blocks[vac.dst][vac.dstOff]))
  /\ blocks' = SetSlot(SetSlot(blocks, vac.dst, vac.dstOff, SrcSlot),
                       vac.src, vac.i, BlankSlot)
  /\ vac' = Loop(vac.dst, vac.dstOff + 1, vac.src, vac.srcOff + 1, vac.i + 1)
  /\ UNCHANGED <<phase, free>>

\* Mutant of VacuumNextDestination: the row that did not fit is passed over.
VacuumNextDestinationSkips ==
  /\ DstFull
  /\ vac.dst < Len(blocks)
  /\ vac' = Loop(vac.dst + 1, 0, vac.src, vac.srcOff, vac.srcOff + 1)
  /\ UNCHANGED <<phase, blocks, free, heap>>

\* The scan resumes at src_blk_offset, which may be behind i.
VacuumNextDestination ==
  /\ DstFull
  /\ vac.dst < Len(blocks)
  /\ vac' = Loop(vac.dst + 1, 0, vac.src, vac.srcOff, vac.srcOff)
  /\ UNCHANGED <<phase, blocks, free, heap>>

ScanDone ==
  /\ phase = "vacuum"
  /\ vac.src > Len(blocks) \/ (DstFull /\ vac.dst = Len(blocks))

\* Slots at or after the destination offset, and the blocks after it.
Leftover ==
  LET cut  == UNION {CellsOf(blocks[vac.dst][s]) : s \in {t \in SlotIds : t >= vac.dstOff}}
      rest == UNION {CellsOfBlock(blocks[b]) : b \in vac.dst + 1 .. Len(blocks)}
  IN  cut \cup rest

\* Mutants of VacuumFinish: the rest of the last datablock is left as it is, and
\* the datablocks after it are not freed.
VacuumFinishKeepsTail ==
  /\ ScanDone
  /\ phase' = "ready"
  /\ free' = vac.dstOff
  /\ heap' = Release(Leftover)
  /\ blocks' = SubSeq(blocks, 1, vac.dst)
  /\ vac' = NoVacuum

VacuumFinishKeepsBlocks ==
  /\ ScanDone
  /\ phase' = "ready"
  /\ free' = vac.dstOff
  /\ heap' = Release(Leftover)
  /\ blocks' = [blocks EXCEPT ![vac.dst] =
                  [s \in SlotIds |-> IF s >= vac.dstOff THEN BlankSlot
                                                        ELSE @[s]]]
  /\ vac' = NoVacuum

VacuumFinish ==
  /\ ScanDone
  /\ phase' = "ready"
  /\ free' = vac.dstOff
  /\ heap' = Release(Leftover)
  /\ blocks' = [SubSeq(blocks, 1, vac.dst) EXCEPT ![vac.dst] =
                  [s \in SlotIds |-> IF s >= vac.dstOff THEN BlankSlot
                                                        ELSE @[s]]]
  /\ vac' = NoVacuum

Vacuuming ==
  \/ VacuumNextSource \/ VacuumSkip \/ VacuumKeep \/ VacuumMove
  \/ VacuumNextDestination \/ VacuumFinish

----------------------------------------------------------------------------
(* Next: zalloc serves every VARCHAR column and only tables with a datablock *)
(* are vacuumed.  NextFaults: neither is taken for granted.  An insertion    *)
(* that gets no datablock returns false and changes nothing, a stutter.      *)

Next ==
  \/ TableInit \/ TableDestroy
  \/ \E row \in Inputs : InsertRow(row)
  \/ InsertAborts
  \/ \E b \in 1 .. Len(blocks), s \in SlotIds : DeleteRow(b, s)
  \/ \E b \in 1 .. Len(blocks), s \in SlotIds, row \in Inputs : UpdateRow(b, s, row)
  \/ VacuumStart
  \/ Vacuuming

Spec == Init /\ [][Next]_vars

NextFaults ==
  \/ Next
  \/ \E row \in Inputs, c \in VarCols : InsertWithoutCell(row, c)
  \/ \E b \in 1 .. Len(blocks), s \in SlotIds : UpdateCrashes(b, s)
  \/ VacuumCrashes

SpecFaults == Init /\ [][NextFaults]_vars

\* table_vacuum is a loop of one thread: once entered, it keeps running.
FairSpec == Spec /\ WF_vars(Vacuuming)

----------------------------------------------------------------------------
(* Properties *)

\* Every variable keeps its type; in particular the free offset never passes
\* the last slot of a datablock.
TypeOK ==
  /\ phase \in {"none", "ready", "vacuum", "abort", "crash"}
  /\ blocks \in Seq([SlotIds -> Slot])
  /\ free \in 0 .. Slots
  /\ heap \in [Cells -> Vals \cup {Zero, Unalloc}]
  /\ vac \in [dst : Nat, dstOff : 0 .. Slots, src : Nat,
              srcOff : 0 .. Slots, i : 0 .. Slots]

\* A slot that is free to be written is never marked deleted, no row sits in
\* the slot that ends at the end of the page, and nothing lies at or after the
\* free offset of the last datablock: what table_insert_row relies on when it
\* writes there, and every scan when it takes a slot that is not empty for a row.
SlotDiscipline ==
  /\ \A b \in 1 .. Len(blocks), s \in SlotIds :
       /\ blocks[b][s].empty => ~blocks[b][s].deleted
       /\ ~blocks[b][s].empty => Fits(s)
  /\ \A s \in SlotIds : blocks # <<>> /\ s >= free => blocks[Len(blocks)][s].empty

\* No BUG_ON is reached and no memory is corrupted (row.c:60, row.c:135,
\* row.c:152): "something went terribly wrong here if this is true".
NeverAborts == phase \notin {"abort", "crash"}

\* The assertion of table_insert_row alone: "something went terribly wrong here
\* if this is true" (row.c:59) never happens, whichever allocation fails.
BugOnUnreachable == phase # "abort"

\* Two rows never share a heap cell: updating one cannot change the other, and
\* freeing one cannot free the content of the other a second time.
NoAliasing ==
  \A b, d \in 1 .. Len(blocks) : \A s, t \in SlotIds :
    <<b, s>> # <<d, t>> => CellsOf(blocks[b][s]) \cap CellsOf(blocks[d][t]) = {}

\* The allocated cells are exactly those that the rows, deleted ones included,
\* refer to: moving, deleting, compacting and destroying leak nothing, and no
\* row refers to a cell that was freed.
HeapOwned ==
  phase # "crash" =>
    {x \in Cells : heap[x] # Unalloc} =
       UNION {CellsOfBlock(blocks[b]) : b \in 1 .. Len(blocks)}

\* While table_vacuum runs, the place it writes to never passes the place it
\* reads from, however often it falls back to src_blk_offset: no row that is
\* still to be read is overwritten.
VacuumOrder ==
  phase = "vacuum" =>
    /\ blocks # <<>>
    /\ 1 <= vac.dst /\ vac.dst <= Len(blocks)
    /\ vac.dst <= vac.src /\ vac.src <= Len(blocks) + 1
    /\ vac.dst = vac.src => vac.dstOff <= vac.i
    /\ vac.srcOff <= vac.i

\* When table_vacuum returns, the rows sit one after the other from the first
\* slot of the first datablock on, every datablock but the last is filled to
\* its last usable slot, and nothing deleted is left.
Dense ==
  /\ blocks # <<>>
  /\ \A b \in 1 .. Len(blocks) - 1, s \in SlotIds : Live(blocks[b][s]) <=> Fits(s)
  /\ \A s \in SlotIds : Live(blocks[Len(blocks)][s]) <=> s < free
  /\ \A b \in 1 .. Len(blocks), s \in SlotIds : ~blocks[b][s].deleted

VacuumCompacts == [][phase = "vacuum" /\ phase' = "ready" => Dense']_vars

\* A vacuum that was started returns.
VacuumTerminates == (phase = "vacuum") ~> (phase = "ready")

=============================================================================
