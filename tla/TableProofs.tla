---------------------------- MODULE TableProofs ----------------------------
(***************************************************************************)
(* Proofs about the storage of a table, for every page and row size, schema *)
(* and bound: the table by itself (types, the discipline of the slots, that *)
(* no operation reaches a BUG_ON, who owns the heap cells), that datablocks *)
(* implement the sequence of rows of RowStore, the half-done steps of a     *)
(* vacuum included, and the cursor over a result set.                       *)
(***************************************************************************)
EXTENDS ResultSet, SequenceTheorems, FiniteSetTheorems, TLAPS

Block == [SlotIds -> Slot]

----------------------------------------------------------------------------
(* Facts about the operators of Table *)

\* The number of slots is a number, and it is not zero.
LEMMA SlotsType == Slots \in Nat /\ Slots >= 1
BY SizeAssumption DEF Slots

\* A row that passes the test of table_insert_row is within the slots that
\* table_datablock_init laid out, the first slot of a page passes it, and so
\* does every slot before one that passes.
LEMMA FitsBounds ==
  /\ \A n \in Nat : Fits(n) => n \in SlotIds
  /\ Fits(0)
  /\ \A m, n \in Nat : m <= n /\ Fits(n) => Fits(m)
<1>1. ASSUME NEW n \in Nat, Fits(n) PROVE n \in SlotIds
  <2>1. PageSize = RowSize * Slots + (PageSize % RowSize) /\ PageSize % RowSize < RowSize
    BY SizeAssumption DEF Slots
  <2>2. SUFFICES ASSUME n >= Slots PROVE FALSE
    BY SlotsType DEF SlotIds
  <2>3. (n + 1) * RowSize >= (Slots + 1) * RowSize
    BY <2>2, SlotsType, SizeAssumption
  <2>4. (Slots + 1) * RowSize = RowSize * Slots + RowSize
    BY SlotsType, SizeAssumption
  <2> HIDE DEF Slots
  <2> QED BY <1>1, <2>1, <2>3, <2>4, SlotsType, SizeAssumption DEF Fits
<1>2. Fits(0)
  BY SizeAssumption DEF Fits
<1>3. ASSUME NEW m \in Nat, NEW n \in Nat, m <= n, Fits(n) PROVE Fits(m)
  <2>1. (m + 1) * RowSize <= (n + 1) * RowSize
    BY <1>3, SizeAssumption
  <2> QED BY <1>3, <2>1, SizeAssumption DEF Fits
<1> QED BY <1>1, <1>2, <1>3

\* Blank slots and blocks have their types.
LEMMA BlankType == BlankSlot \in Slot /\ BlankBlock \in Block
BY SchemaAssumption DEF BlankSlot, BlankBlock, Slot, SlotData, Block

\* What SetSlot returns.
LEMMA SetSlotFacts ==
  ASSUME NEW bs \in Seq(Block), NEW b \in 1 .. Len(bs), NEW s \in SlotIds,
         NEW slot \in Slot
  PROVE  /\ SetSlot(bs, b, s, slot) \in Seq(Block)
         /\ Len(SetSlot(bs, b, s, slot)) = Len(bs)
         /\ \A d \in 1 .. Len(bs), t \in SlotIds :
              SetSlot(bs, b, s, slot)[d][t] =
                IF d = b /\ t = s THEN slot ELSE bs[d][t]
<1> DEFINE e == [bs[b] EXCEPT ![s] = slot]
<1>1. bs[b] \in Block
  BY ElementOfSeq
<1>2. e \in Block /\ \A t \in SlotIds : e[t] = IF t = s THEN slot ELSE bs[b][t]
  BY <1>1 DEF Block
<1> HIDE DEF e
<1>3. /\ [bs EXCEPT ![b] = e] \in Seq(Block)
      /\ Len([bs EXCEPT ![b] = e]) = Len(bs)
      /\ \A j \in 1 .. Len(bs) : [bs EXCEPT ![b] = e][j] = IF j = b THEN e ELSE bs[j]
  BY <1>2, ExceptSeq
<1>4. SetSlot(bs, b, s, slot) = [bs EXCEPT ![b] = e]
  BY DEF SetSlot, e
<1> QED BY <1>2, <1>3, <1>4

\* The slot that an insertion fills has its type.
LEMMA FilledType ==
  ASSUME NEW row \in Inputs, NEW ptr \in [VarCols -> Cells]
  PROVE  Filled(row, ptr) \in Slot
BY SchemaAssumption, ValueAssumption DEF Filled, Slot, SlotData, NullsOf, Bytes

\* Writing the values of a row into its cells keeps the type of the heap.
LEMMA WrittenType ==
  ASSUME NEW row \in Inputs, NEW ptr,
         \A c \in VarCols : ptr[c] \in Cells,
         heap \in [Cells -> Vals \cup {Zero, Unalloc}]
  PROVE  Written(row, ptr) \in [Cells -> Vals \cup {Zero, Unalloc}]
<1>1. ASSUME NEW c \in VarCols PROVE Bytes(row, c) \in Vals \cup {Zero}
  BY SchemaAssumption, ValueAssumption DEF Bytes
<1>2. ASSUME NEW x \in Cells, \E c \in VarCols : ptr[c] = x
      PROVE  (CHOOSE c \in VarCols : ptr[c] = x) \in VarCols
  BY <1>2
<1> QED BY <1>1, <1>2 DEF Written

----------------------------------------------------------------------------
(* The invariant *)

\* The inductive invariant: the discipline of the slots holds between the
\* operations because of the free offset, and through table_vacuum because the
\* destination of the compaction never passes its source.
TableInv == TypeOK /\ SlotDiscipline /\ VacuumOrder

\* Where an insertion writes: a slot that is within the page, blank as far as
\* its flags go, with nothing after it in the last datablock.
LEMMA TargetFacts ==
  ASSUME TypeOK, SlotDiscipline
  PROVE  /\ Target.blocks \in Seq(Block)
         /\ Len(Target.blocks) >= 1
         /\ Target.at \in SlotIds /\ Fits(Target.at)
         /\ \A b \in 1 .. Len(Target.blocks), s \in SlotIds :
              /\ Target.blocks[b][s].empty => ~Target.blocks[b][s].deleted
              /\ ~Target.blocks[b][s].empty => Fits(s)
         /\ \A s \in SlotIds :
              s >= Target.at => Target.blocks[Len(Target.blocks)][s].empty
<1> USE DEF TypeOK, SlotDiscipline
<1>1. blocks \in Seq(Block)
  BY DEF Block
<1>2. CASE NeedsBlock
  <2>1. Target = [blocks |-> Append(blocks, BlankBlock), at |-> 0]
    BY <1>2 DEF Target
  <2>2. /\ Append(blocks, BlankBlock) \in Seq(Block)
        /\ Len(Append(blocks, BlankBlock)) = Len(blocks) + 1
        /\ \A i \in 1 .. Len(blocks) : Append(blocks, BlankBlock)[i] = blocks[i]
        /\ Append(blocks, BlankBlock)[Len(blocks) + 1] = BlankBlock
    BY <1>1, BlankType, AppendProperties
  <2>3. \A s \in SlotIds : BlankBlock[s].empty /\ ~BlankBlock[s].deleted
    BY DEF BlankBlock, BlankSlot
  <2>4. Len(blocks) \in Nat
    BY <1>1
  <2> QED BY <2>1, <2>2, <2>3, <2>4, FitsBounds
<1>3. CASE ~NeedsBlock
  <2>1. Target = [blocks |-> blocks, at |-> free] /\ blocks # <<>> /\ Fits(free)
    BY <1>3 DEF Target, NeedsBlock
  <2>2. Len(blocks) \in Nat /\ Len(blocks) >= 1
    BY <1>1, <2>1
  <2>3. free \in Nat
    BY SlotsType
  <2> QED BY <1>1, <2>1, <2>2, <2>3, FitsBounds
<1> QED BY <1>2, <1>3

\* The invariant holds when the program starts.
LEMMA InitInv == Init => TableInv
BY SlotsType, EmptySeq
   DEF Init, NoVacuum, Loop, TableInv, TypeOK, SlotDiscipline, VacuumOrder, SlotIds

\* Creating and destroying a table leave an empty block list.
LEMMA LifecycleStep == TableInv /\ (TableInit \/ TableDestroy) => TableInv'
<1> SUFFICES ASSUME TableInv, TableInit \/ TableDestroy PROVE TableInv'
  OBVIOUS
<1> USE DEF TableInv
<1>1. /\ blocks' = <<>> /\ free' = 0 /\ vac' = vac
      /\ phase' \in {"none", "ready"}
      /\ heap' \in [Cells -> Vals \cup {Zero, Unalloc}]
  BY DEF TableInit, TableDestroy, Release, TypeOK
<1>2. blocks' \in Seq(Block) /\ Len(blocks') = 0
  BY <1>1, EmptySeq
<1> QED BY <1>1, <1>2, SlotsType DEF TypeOK, SlotDiscipline, VacuumOrder, Block, SlotIds

\* What an insertion writes.
LEMMA InsertFacts ==
  ASSUME TableInv, NEW row \in Inputs, InsertRow(row)
  PROVE  \E ptr \in Grants :
           /\ ptr \in [VarCols -> Cells]
           /\ Filled(row, ptr) \in Slot
           /\ heap' = Written(row, ptr)
           /\ blocks' \in Seq(Block)
           /\ Len(blocks') = Len(Target.blocks)
           /\ \A d \in 1 .. Len(blocks'), t \in SlotIds :
                blocks'[d][t] = IF d = Len(blocks') /\ t = Target.at
                                THEN Filled(row, ptr) ELSE Target.blocks[d][t]
<1> DEFINE ptr  == CHOOSE p \in Grants : TRUE
           last == Len(Target.blocks)
           new  == SetSlot(Target.blocks, last, Target.at, Filled(row, ptr))
<1>1. ptr \in Grants /\ ptr \in [VarCols -> Cells]
  BY DEF InsertRow, Grants, FreeCells
<1>2. Filled(row, ptr) \in Slot
  BY <1>1, FilledType
<1>3. blocks' = new /\ heap' = Written(row, ptr)
  BY DEF InsertRow
<1> HIDE DEF ptr
<1>4. Target.blocks \in Seq(Block) /\ last \in 1 .. Len(Target.blocks) /\ Target.at \in SlotIds
  BY TargetFacts DEF TableInv
<1>5. /\ new \in Seq(Block)
      /\ Len(new) = Len(Target.blocks)
      /\ \A d \in 1 .. Len(Target.blocks), t \in SlotIds :
           new[d][t] = IF d = last /\ t = Target.at THEN Filled(row, ptr)
                                                   ELSE Target.blocks[d][t]
  <2> HIDE DEF last
  <2> QED BY <1>2, <1>4, SetSlotFacts
<1> HIDE DEF new
<1> QED BY <1>1, <1>2, <1>3, <1>5

\* An insertion: it fills the target, and the free offset moves past it.
LEMMA InsertStep ==
  ASSUME TableInv, NEW row \in Inputs, InsertRow(row)
  PROVE  TableInv'
<1> USE DEF TableInv
<1>1. PICK ptr \in Grants :
           /\ ptr \in [VarCols -> Cells]
           /\ Filled(row, ptr) \in Slot
           /\ heap' = Written(row, ptr)
           /\ blocks' \in Seq(Block)
           /\ Len(blocks') = Len(Target.blocks)
           /\ \A d \in 1 .. Len(blocks'), t \in SlotIds :
                blocks'[d][t] = IF d = Len(blocks') /\ t = Target.at
                                THEN Filled(row, ptr) ELSE Target.blocks[d][t]
  BY InsertFacts
<1>2. ~Filled(row, ptr).empty /\ ~Filled(row, ptr).deleted
  BY DEF Filled
<1>3. free' = Target.at + 1 /\ phase = "ready" /\ phase' = phase /\ vac' = vac
  BY DEF InsertRow
<1>4. heap' \in [Cells -> Vals \cup {Zero, Unalloc}]
  BY <1>1, WrittenType DEF TypeOK
<1>5. Target.at \in SlotIds /\ Len(Target.blocks) >= 1
  BY TargetFacts
<1>6. free' \in 0 .. Slots
  BY <1>3, <1>5, SlotsType DEF SlotIds
<1>7. TypeOK'
  BY <1>1, <1>3, <1>4, <1>6 DEF TypeOK, Block
<1>8. SlotDiscipline'
  <2>1. ASSUME NEW b \in 1 .. Len(blocks'), NEW s \in SlotIds
        PROVE  /\ blocks'[b][s].empty => ~blocks'[b][s].deleted
               /\ ~blocks'[b][s].empty => Fits(s)
    BY <1>1, <1>2, TargetFacts
  <2>2. ASSUME NEW s \in SlotIds, s >= free'
        PROVE  blocks'[Len(blocks')][s].empty
    <3>1. s \in Int /\ Target.at \in Int /\ s > Target.at
      BY <1>3, <1>5, <2>2, SlotsType DEF SlotIds
    <3> QED BY <1>1, <1>5, <3>1, TargetFacts
  <2> QED BY <2>1, <2>2 DEF SlotDiscipline
<1>9. VacuumOrder'
  BY <1>3 DEF VacuumOrder
<1> QED BY <1>7, <1>8, <1>9

\* No insertion finds its slot in use: the BUG_ON of table_insert_row.
LEMMA InsertNeverAborts == TableInv => ~InsertAborts
<1> SUFFICES ASSUME TableInv PROVE ~TargetTaken
  BY DEF InsertAborts
<1>1. TargetSlot.empty /\ ~TargetSlot.deleted
  BY TargetFacts, SlotsType DEF TableInv, TargetSlot, SlotIds
<1> QED BY <1>1 DEF TargetTaken

\* A deletion and an update write a slot that holds a row, and leave a row,
\* deleted or not, in it.
LEMMA RewriteStep ==
  ASSUME TableInv, phase = "ready",
         NEW b \in 1 .. Len(blocks), NEW s \in SlotIds, NEW slot \in Slot,
         ~blocks[b][s].empty, ~slot.empty,
         blocks' = SetSlot(blocks, b, s, slot),
         heap' \in [Cells -> Vals \cup {Zero, Unalloc}],
         UNCHANGED <<phase, free, vac>>
  PROVE  TableInv'
<1> USE DEF TableInv
<1>1. blocks \in Seq(Block)
  BY DEF TypeOK, Block
<1>2. /\ blocks' \in Seq(Block)
      /\ Len(blocks') = Len(blocks)
      /\ \A d \in 1 .. Len(blocks), t \in SlotIds :
           blocks'[d][t] = IF d = b /\ t = s THEN slot ELSE blocks[d][t]
  BY <1>1, SetSlotFacts
<1>3. TypeOK'
  BY <1>2 DEF TypeOK, Block
<1>4. SlotDiscipline'
  <2>1. ASSUME NEW d \in 1 .. Len(blocks'), NEW t \in SlotIds
        PROVE  /\ blocks'[d][t].empty => ~blocks'[d][t].deleted
               /\ ~blocks'[d][t].empty => Fits(t)
    BY <1>2 DEF SlotDiscipline
  <2>2. ASSUME NEW t \in SlotIds, blocks' # <<>>, t >= free'
        PROVE  blocks'[Len(blocks')][t].empty
    <3>1. Len(blocks) \in Nat /\ Len(blocks) >= 1 /\ blocks # <<>>
      BY <1>1
    <3> QED BY <1>2, <2>2, <3>1 DEF SlotDiscipline
  <2> QED BY <2>1, <2>2 DEF SlotDiscipline
<1>5. VacuumOrder'
  BY DEF VacuumOrder
<1> QED BY <1>3, <1>4, <1>5

\* table_delete_row.
LEMMA DeleteStep ==
  ASSUME TableInv, NEW b \in 1 .. Len(blocks), NEW s \in SlotIds, DeleteRow(b, s)
  PROVE  TableInv'
<1> DEFINE slot == [blocks[b][s] EXCEPT !.deleted = TRUE]
<1>1. blocks[b][s] \in Slot
  BY DEF TableInv, TypeOK
<1>2. slot \in Slot /\ slot.empty = blocks[b][s].empty
  BY <1>1 DEF Slot
<1>3. /\ ~blocks[b][s].empty /\ phase = "ready"
      /\ blocks' = SetSlot(blocks, b, s, slot)
      /\ heap' = heap /\ UNCHANGED <<phase, free, vac>>
  BY DEF DeleteRow, LiveAt, Live
<1> HIDE DEF slot
<1> QED BY <1>2, <1>3, RewriteStep DEF TableInv, TypeOK

\* table_update_row.
LEMMA UpdateStep ==
  ASSUME TableInv, NEW b \in 1 .. Len(blocks), NEW s \in SlotIds,
         NEW row \in Inputs, UpdateRow(b, s, row)
  PROVE  TableInv'
<1> DEFINE ptr == [c \in VarCols |-> blocks[b][s].data[c]]
<1>1. blocks[b][s] \in Slot
  BY DEF TableInv, TypeOK
<1>2. ptr \in [VarCols -> Cells]
  BY <1>1 DEF UpdateRow, Slot, SlotData
<1>3. Filled(row, ptr) \in Slot /\ ~Filled(row, ptr).empty
  BY <1>2, FilledType DEF Filled
<1>4. /\ ~blocks[b][s].empty /\ phase = "ready"
      /\ blocks' = SetSlot(blocks, b, s, Filled(row, ptr))
      /\ heap' = Written(row, ptr)
      /\ UNCHANGED <<phase, free, vac>>
  BY DEF UpdateRow, LiveAt, Live
<1>5. heap' \in [Cells -> Vals \cup {Zero, Unalloc}]
  BY <1>2, <1>4, WrittenType DEF TableInv, TypeOK
<1> HIDE DEF ptr
<1> QED BY <1>3, <1>4, <1>5, RewriteStep

----------------------------------------------------------------------------
(* table_vacuum *)

\* When the destination page is full, the row at hand comes from a later one.
LEMMA FullMeansLater ==
  ASSUME TableInv, DstFull
  PROVE  vac.dst < vac.src
<1> USE DEF TableInv, TypeOK
<1>1. /\ phase = "vacuum" /\ vac.src \in 1 .. Len(blocks) /\ vac.i \in SlotIds
      /\ ~blocks[vac.src][vac.i].empty /\ ~Fits(vac.dstOff)
      /\ vac.dst \in Nat /\ vac.src \in Nat /\ vac.dst <= vac.src
      /\ vac.dst = vac.src => vac.dstOff <= vac.i
      /\ vac.dstOff \in Nat /\ vac.i \in Nat
  BY SlotsType DEF DstFull, AtLiveRow, Scanning, SrcSlot, Live, VacuumOrder, SlotIds
<1>2. Fits(vac.i)
  BY <1>1 DEF SlotDiscipline
<1>3. vac.dst # vac.src
  BY <1>1, <1>2, FitsBounds
<1> QED BY <1>1, <1>3

\* The steps that only advance the loop variables.
LEMMA ScanStep ==
  ASSUME TableInv,
         VacuumStart \/ VacuumNextSource \/ VacuumSkip \/ VacuumKeep
           \/ VacuumNextDestination
  PROVE  TableInv'
<1> USE DEF TableInv
<1>1. UNCHANGED <<blocks, free, heap>>
  BY DEF VacuumStart, VacuumNextSource, VacuumSkip, VacuumKeep, VacuumNextDestination
<1>2. SlotDiscipline'
  BY <1>1 DEF SlotDiscipline
<1>3. Len(blocks) \in Nat /\ (blocks # <<>> => Len(blocks) >= 1)
  BY DEF TypeOK
<1>4. TypeOK' /\ VacuumOrder'
  <2> USE DEF TypeOK, VacuumOrder, Loop
  <2>1. CASE VacuumStart
    BY <1>1, <1>3, <2>1, SlotsType DEF VacuumStart, NoVacuum
  <2>2. CASE VacuumNextSource
    BY <1>1, <1>3, <2>2, SlotsType DEF VacuumNextSource, Scanning
  <2>3. CASE VacuumSkip
    BY <1>1, <1>3, <2>3, SlotsType DEF VacuumSkip, Scanning
  <2>4. CASE VacuumKeep
    <3>1. Fits(vac.dstOff)
      BY <2>4 DEF VacuumKeep, DstFull
    <3>2. vac.dstOff < Slots
      BY <3>1, FitsBounds, SlotsType DEF SlotIds
    <3> QED BY <1>1, <1>3, <2>4, <3>2, SlotsType DEF VacuumKeep, AtLiveRow, Scanning, InPlace
  <2>5. CASE VacuumNextDestination
    <3>1. vac.dst < vac.src /\ vac.src <= Len(blocks) /\ phase = "vacuum"
      BY <2>5, FullMeansLater DEF VacuumNextDestination, DstFull, AtLiveRow, Scanning
    <3> QED BY <1>1, <1>3, <2>5, <3>1, SlotsType DEF VacuumNextDestination
  <2> QED BY <2>1, <2>2, <2>3, <2>4, <2>5
<1> QED BY <1>2, <1>4

\* What a move writes, and where: the destination lies before the source.
LEMMA MoveFacts ==
  ASSUME TableInv, VacuumMove
  PROVE  /\ vac.dst \in 1 .. Len(blocks) /\ vac.src \in 1 .. Len(blocks)
         /\ vac.dstOff \in SlotIds /\ vac.i \in SlotIds
         /\ vac.dst <= vac.src /\ (vac.dst = vac.src => vac.dstOff < vac.i)
         /\ SrcSlot \in Slot /\ ~SrcSlot.empty /\ ~SrcSlot.deleted
         /\ SrcSlot = blocks[vac.src][vac.i]
         /\ blocks' \in Seq(Block) /\ Len(blocks') = Len(blocks)
         /\ \A x \in 1 .. Len(blocks), y \in SlotIds :
              blocks'[x][y] = IF x = vac.src /\ y = vac.i THEN BlankSlot
                              ELSE IF x = vac.dst /\ y = vac.dstOff THEN SrcSlot
                              ELSE blocks[x][y]
<1> USE DEF TableInv
<1> DEFINE b == vac.dst
           s == vac.dstOff
           d == vac.src
           t == vac.i
           half == SetSlot(blocks, b, s, SrcSlot)
           new == SetSlot(half, d, t, BlankSlot)
<1>1. /\ phase = "vacuum" /\ Live(SrcSlot) /\ SrcSlot = blocks[d][t] /\ Fits(s)
      /\ b # d \/ s # t
      /\ blocks' = new
  BY DEF VacuumMove, AtLiveRow, Scanning, DstFull, SrcSlot, InPlace
<1>2. /\ blocks \in Seq(Block) /\ Len(blocks) \in Nat
      /\ b \in Nat /\ d \in Nat /\ s \in Nat /\ t \in Nat
      /\ t < Slots /\ d <= Len(blocks)
      /\ 1 <= b /\ b <= d /\ (b = d => s < t)
  BY <1>1 DEF VacuumMove, AtLiveRow, Scanning, TypeOK, VacuumOrder, Block
<1>3. b \in 1 .. Len(blocks) /\ d \in 1 .. Len(blocks) /\ s \in SlotIds /\ t \in SlotIds
  BY <1>1, <1>2, FitsBounds, SlotsType DEF SlotIds
<1>4. SrcSlot \in Slot /\ ~SrcSlot.empty /\ ~SrcSlot.deleted
  BY <1>1, <1>2, <1>3, ElementOfSeq DEF Block, Live
<1> HIDE DEF b, s, d, t
<1>5. /\ half \in Seq(Block) /\ Len(half) = Len(blocks)
      /\ \A x \in 1 .. Len(blocks), y \in SlotIds :
           half[x][y] = IF x = b /\ y = s THEN SrcSlot ELSE blocks[x][y]
  BY <1>2, <1>3, <1>4, SetSlotFacts
<1> HIDE DEF half
<1>6. /\ new \in Seq(Block) /\ Len(new) = Len(half)
      /\ \A x \in 1 .. Len(half), y \in SlotIds :
           new[x][y] = IF x = d /\ y = t THEN BlankSlot ELSE half[x][y]
  BY <1>3, <1>5, BlankType, SetSlotFacts
<1> HIDE DEF new
<1> QED BY <1>1, <1>2, <1>3, <1>4, <1>5, <1>6 DEF b, s, d, t

\* A move: in the last datablock the destination lies before the free offset,
\* since the row that is moved does.
LEMMA MoveStep == ASSUME TableInv, VacuumMove PROVE TableInv'
<1> USE DEF TableInv
<1>1. /\ phase = "vacuum" /\ phase' = phase /\ free' = free /\ Fits(vac.dstOff)
      /\ vac' = Loop(vac.dst, vac.dstOff + 1, vac.src, vac.srcOff + 1, vac.i + 1)
      /\ heap' \in [Cells -> Vals \cup {Zero, Unalloc}]
  BY DEF VacuumMove, AtLiveRow, Scanning, DstFull, Release, TypeOK
<1>2. /\ Len(blocks) \in Nat /\ vac.srcOff \in Nat /\ vac.srcOff <= vac.i
      /\ vac.dst \in Nat /\ vac.src \in Nat /\ vac.dstOff \in Nat /\ vac.i \in Nat
      /\ vac.dstOff < Slots /\ vac.i < Slots
  BY <1>1, MoveFacts, SlotsType DEF TypeOK, VacuumOrder, SlotIds
<1>3. /\ vac' \in [dst : Nat, dstOff : 0 .. Slots, src : Nat, srcOff : 0 .. Slots,
                   i : 0 .. Slots]
      /\ vac'.dst = vac.dst /\ vac'.src = vac.src /\ vac'.dstOff = vac.dstOff + 1
      /\ vac'.i = vac.i + 1 /\ vac'.srcOff = vac.srcOff + 1
  <2>1. /\ vac.dstOff + 1 \in 0 .. Slots /\ vac.srcOff + 1 \in 0 .. Slots
        /\ vac.i + 1 \in 0 .. Slots
    BY <1>2, SlotsType
  <2>2. vac.dst \in Nat /\ vac.src \in Nat
    BY <1>2
  <2>3. vac' = [dst |-> vac.dst, dstOff |-> vac.dstOff + 1, src |-> vac.src,
                srcOff |-> vac.srcOff + 1, i |-> vac.i + 1]
    BY <1>1 DEF Loop
  <2> QED BY <2>1, <2>2, <2>3
<1>4. TypeOK'
  BY <1>1, <1>3, MoveFacts DEF TypeOK, Block
<1>5. SlotDiscipline'
  <2>1. BlankSlot.empty /\ ~BlankSlot.deleted
    BY DEF BlankSlot
  <2>2. ASSUME NEW x \in 1 .. Len(blocks'), NEW y \in SlotIds
        PROVE  /\ blocks'[x][y].empty => ~blocks'[x][y].deleted
               /\ ~blocks'[x][y].empty => Fits(y)
    BY <1>1, <2>1, MoveFacts DEF SlotDiscipline
  <2>3. ASSUME NEW y \in SlotIds, y >= free'
        PROVE  blocks'[Len(blocks')][y].empty
    <3>1. Len(blocks) \in 1 .. Len(blocks) /\ blocks # <<>>
      BY <1>2, MoveFacts
    <3>2. blocks[Len(blocks)][y].empty
      BY <1>1, <2>3, <3>1 DEF SlotDiscipline
    <3>3. ~(vac.dst = Len(blocks) /\ y = vac.dstOff)
      <4> SUFFICES ASSUME vac.dst = Len(blocks), y = vac.dstOff PROVE FALSE
        OBVIOUS
      <4>1. vac.src = Len(blocks) /\ vac.i >= free
        BY <1>1, <1>2, <2>3, MoveFacts DEF TypeOK
      <4> QED BY <3>1, <4>1, MoveFacts DEF SlotDiscipline
    <3> QED BY <2>1, <3>1, <3>2, <3>3, MoveFacts
  <2> QED BY <2>2, <2>3 DEF SlotDiscipline
<1>6. VacuumOrder'
  <2>1. blocks' # <<>> /\ Len(blocks') = Len(blocks)
    BY <1>2, MoveFacts
  <2> QED BY <1>1, <1>2, <1>3, <2>1, MoveFacts DEF VacuumOrder
<1> QED BY <1>4, <1>5, <1>6

\* What is left when table_vacuum returns.
LEMMA FinishFacts ==
  ASSUME TableInv, VacuumFinish
  PROVE  /\ vac.dst \in 1 .. Len(blocks) /\ vac.dstOff \in 0 .. Slots
         /\ blocks' \in Seq(Block) /\ Len(blocks') = vac.dst
         /\ \A x \in 1 .. vac.dst, y \in SlotIds :
              blocks'[x][y] = IF x = vac.dst /\ y >= vac.dstOff THEN BlankSlot
                                                              ELSE blocks[x][y]
<1> USE DEF TableInv
<1> DEFINE d == vac.dst
           kept == SubSeq(blocks, 1, d)
           tail == [s \in SlotIds |-> IF s >= vac.dstOff THEN BlankSlot ELSE kept[d][s]]
<1>1. phase = "vacuum" /\ blocks' = [kept EXCEPT ![d] = tail]
  BY DEF VacuumFinish, ScanDone
<1>2. blocks \in Seq(Block) /\ d \in 1 .. Len(blocks) /\ Len(blocks) \in Nat
  BY <1>1 DEF TypeOK, VacuumOrder, Block
<1>3. vac.dstOff \in 0 .. Slots
  BY DEF TypeOK
<1> HIDE DEF d
<1>4. kept \in Seq(Block) /\ Len(kept) = d /\ \A x \in 1 .. d : kept[x] = blocks[x]
  <2>1. \A x \in 1 .. d : blocks[x] \in Block
    BY <1>2, ElementOfSeq
  <2> QED BY <1>2, <2>1, SubSeqProperties
<1> HIDE DEF kept
<1>5. tail \in Block /\ \A s \in SlotIds :
        tail[s] = IF s >= vac.dstOff THEN BlankSlot ELSE blocks[d][s]
  <2>1. kept[d] \in Block /\ kept[d] = blocks[d]
    BY <1>2, <1>4, ElementOfSeq
  <2> QED BY <2>1, BlankType DEF Block
<1> HIDE DEF tail
<1>6. /\ blocks' \in Seq(Block) /\ Len(blocks') = d
      /\ \A x \in 1 .. d : blocks'[x] = IF x = d THEN tail ELSE blocks[x]
  BY <1>1, <1>2, <1>4, <1>5, ExceptSeq
<1> QED BY <1>2, <1>3, <1>5, <1>6 DEF d

\* The end of table_vacuum: the last datablock that was written becomes the
\* last of the table, with nothing at or after the destination offset.
LEMMA FinishStep == ASSUME TableInv, VacuumFinish PROVE TableInv'
<1> USE DEF TableInv
<1>1. phase' = "ready" /\ free' = vac.dstOff /\ vac' = NoVacuum
  BY DEF VacuumFinish
<1>2. heap' \in [Cells -> Vals \cup {Zero, Unalloc}]
  BY DEF VacuumFinish, Release, TypeOK
<1>3. Len(blocks) \in Nat
  BY DEF TypeOK
<1>4. TypeOK'
  BY <1>1, <1>2, FinishFacts, SlotsType DEF TypeOK, Block, NoVacuum, Loop
<1>5. SlotDiscipline'
  <2>1. BlankSlot.empty /\ ~BlankSlot.deleted
    BY DEF BlankSlot
  <2>2. ASSUME NEW x \in 1 .. Len(blocks'), NEW y \in SlotIds
        PROVE  /\ blocks'[x][y].empty => ~blocks'[x][y].deleted
               /\ ~blocks'[x][y].empty => Fits(y)
    <3>1. x \in 1 .. Len(blocks) /\ x \in 1 .. vac.dst
      BY <1>3, FinishFacts
    <3> QED BY <2>1, <3>1, FinishFacts DEF SlotDiscipline
  <2>3. ASSUME NEW y \in SlotIds, y >= free'
        PROVE  blocks'[Len(blocks')][y].empty
    BY <1>1, <1>3, <2>1, <2>3, FinishFacts
  <2> QED BY <2>2, <2>3 DEF SlotDiscipline
<1>6. VacuumOrder'
  BY <1>1 DEF VacuumOrder
<1> QED BY <1>4, <1>5, <1>6

----------------------------------------------------------------------------
(* The theorems *)

\* Every step keeps the invariant.
LEMMA NextInv == TableInv /\ [Next]_vars => TableInv'
<1> SUFFICES ASSUME TableInv, [Next]_vars PROVE TableInv'
  OBVIOUS
<1>1. CASE TableInit \/ TableDestroy
  BY <1>1, LifecycleStep
<1>2. CASE \E row \in Inputs : InsertRow(row)
  BY <1>2, InsertStep
<1>3. CASE InsertAborts
  BY <1>3, InsertNeverAborts
<1>4. CASE \E b \in 1 .. Len(blocks), s \in SlotIds : DeleteRow(b, s)
  BY <1>4, DeleteStep
<1>5. CASE \E b \in 1 .. Len(blocks), s \in SlotIds, row \in Inputs : UpdateRow(b, s, row)
  BY <1>5, UpdateStep
<1>6. CASE VacuumStart \/ Vacuuming
  BY <1>6, ScanStep, MoveStep, FinishStep DEF Vacuuming
<1>7. CASE UNCHANGED vars
  BY <1>7 DEF vars, TableInv, TypeOK, SlotDiscipline, VacuumOrder
<1> QED BY <1>1, <1>2, <1>3, <1>4, <1>5, <1>6, <1>7 DEF Next

\* The invariant holds in every reachable state.
LEMMA SpecInv == Spec => []TableInv
BY InitInv, NextInv, PTL DEF Spec

\* The free offset stays within a page, and every slot of every datablock holds
\* a well-formed row, whatever the page size, the row size and the schema.
THEOREM TypeCorrect == Spec => []TypeOK
<1>1. TableInv => TypeOK
  BY DEF TableInv
<1> QED BY <1>1, SpecInv, PTL

\* At every moment, in the middle of a vacuum included, empty slots are not
\* marked deleted, the slot that ends the page is unused and nothing lies at or
\* after the free offset.
THEOREM SlotsInOrder == Spec => []SlotDiscipline
<1>1. TableInv => SlotDiscipline
  BY DEF TableInv
<1> QED BY <1>1, SpecInv, PTL

\* No operation reaches a BUG_ON or corrupts memory, as long as zalloc serves
\* every VARCHAR column and no table without datablocks is vacuumed.
THEOREM NoAbort == Spec => []NeverAborts
<1>1. Init => NeverAborts
  BY DEF Init, NeverAborts
<1>2. TableInv /\ NeverAborts /\ [Next]_vars => NeverAborts'
  <2> SUFFICES ASSUME TableInv, NeverAborts, [Next]_vars PROVE NeverAborts'
    OBVIOUS
  <2>1. ~InsertAborts
    BY InsertNeverAborts
  <2>2. CASE Next
    BY <2>1, <2>2
       DEF Next, NeverAborts, TableInit, TableDestroy, InsertRow, DeleteRow, UpdateRow,
           VacuumStart, Vacuuming, VacuumNextSource, VacuumSkip, VacuumKeep, VacuumMove,
           VacuumNextDestination, VacuumFinish
  <2>3. CASE UNCHANGED vars
    BY <2>3 DEF vars, NeverAborts
  <2> QED BY <2>2, <2>3
<1> QED BY <1>1, <1>2, SpecInv, PTL DEF Spec

\* The place that table_vacuum writes to never passes the place it reads from.
THEOREM VacuumInOrder == Spec => []VacuumOrder
<1>1. TableInv => VacuumOrder
  BY DEF TableInv
<1> QED BY <1>1, SpecInv, PTL

----------------------------------------------------------------------------
(* The heap cells of VARCHAR columns: no two rows share one, and the       *)
(* allocated cells are exactly those that the rows refer to.               *)

\* Some row refers to the cell x.
Owned(x) == \E b \in 1 .. Len(blocks), s \in SlotIds : x \in CellsOf(blocks[b][s])

\* No cell belongs to two slots.
OneOwner ==
  \A b, d \in 1 .. Len(blocks) : \A s, t \in SlotIds : \A x \in Cells :
    x \in CellsOf(blocks[b][s]) /\ x \in CellsOf(blocks[d][t]) => b = d /\ s = t

\* The inductive invariant: owning and being allocated are the same thing, and
\* there is nothing to own before the table exists.
HeapInv ==
  /\ OneOwner
  /\ \A x \in Cells : heap[x] # Unalloc <=> Owned(x)
  /\ phase = "none" => blocks = <<>>

----------------------------------------------------------------------------
(* Facts about the cells of a slot *)

\* An empty slot refers to nothing, any other to cells of the heap.
LEMMA CellsOfSlot ==
  /\ CellsOf(BlankSlot) = {}
  /\ \A slot \in Slot : slot.empty => CellsOf(slot) = {}
  /\ \A slot \in Slot : CellsOf(slot) \subseteq Cells
BY DEF CellsOf, BlankSlot, Slot, SlotData

\* A slot that was filled refers to the cells it was given.
LEMMA CellsOfFilled ==
  ASSUME NEW row \in Inputs, NEW ptr \in [VarCols -> Cells]
  PROVE  CellsOf(Filled(row, ptr)) = {ptr[c] : c \in VarCols}
<1>1. ~Filled(row, ptr).empty
  BY DEF Filled
<1>2. \A c \in VarCols : Filled(row, ptr).data[c] = ptr[c] /\ ptr[c] # Zero
  BY SchemaAssumption, ValueAssumption DEF Filled
<1> QED BY <1>1, <1>2 DEF CellsOf

\* Writing a row leaves its cells allocated and touches no other.
LEMMA WrittenCells ==
  ASSUME NEW row \in Inputs, NEW ptr \in [VarCols -> Cells], NEW x \in Cells
  PROVE  /\ (\E c \in VarCols : ptr[c] = x) => Written(row, ptr)[x] # Unalloc
         /\ ~(\E c \in VarCols : ptr[c] = x) => Written(row, ptr)[x] = heap[x]
<1>1. ASSUME NEW c \in VarCols PROVE Bytes(row, c) # Unalloc
  BY SchemaAssumption, ValueAssumption DEF Bytes
<1>2. ASSUME \E c \in VarCols : ptr[c] = x
      PROVE  (CHOOSE c \in VarCols : ptr[c] = x) \in VarCols
  BY <1>2
<1> QED BY <1>1, <1>2 DEF Written

\* The cells of the blocks that an insertion works on are those of the table.
LEMMA TargetCells ==
  ASSUME TableInv
  PROVE  /\ Len(blocks) \in Nat /\ Len(Target.blocks) \in Nat
         /\ Len(blocks) <= Len(Target.blocks)
         /\ \A b \in 1 .. Len(Target.blocks), s \in SlotIds :
              CellsOf(Target.blocks[b][s]) =
                IF b <= Len(blocks) THEN CellsOf(blocks[b][s]) ELSE {}
<1>1. blocks \in Seq(Block) /\ Len(blocks) \in Nat
  BY DEF TableInv, TypeOK, Block
<1>2. CASE NeedsBlock
  <2>1. Target.blocks = Append(blocks, BlankBlock)
    BY <1>2 DEF Target
  <2>2. /\ Len(Append(blocks, BlankBlock)) = Len(blocks) + 1
        /\ \A i \in 1 .. Len(blocks) : Append(blocks, BlankBlock)[i] = blocks[i]
        /\ Append(blocks, BlankBlock)[Len(blocks) + 1] = BlankBlock
    BY <1>1, BlankType, AppendProperties
  <2>3. \A s \in SlotIds : CellsOf(BlankBlock[s]) = {}
    BY CellsOfSlot DEF BlankBlock
  <2>4. ASSUME NEW b \in 1 .. Len(Target.blocks), NEW s \in SlotIds
        PROVE  CellsOf(Target.blocks[b][s]) =
                 IF b <= Len(blocks) THEN CellsOf(blocks[b][s]) ELSE {}
    <3>1. CASE b <= Len(blocks)
      <4>1. Target.blocks[b] = blocks[b]
        BY <1>1, <2>1, <2>2, <3>1
      <4> QED BY <3>1, <4>1
    <3>2. CASE b > Len(blocks)
      <4>1. Target.blocks[b] = BlankBlock
        BY <1>1, <2>1, <2>2, <3>2
      <4>2. CellsOf(Target.blocks[b][s]) = {}
        BY <2>3, <4>1
      <4> QED BY <1>1, <3>2, <4>2
    <3> QED BY <1>1, <3>1, <3>2
  <2> QED BY <1>1, <2>1, <2>2, <2>4
<1>3. CASE ~NeedsBlock
  BY <1>1, <1>3 DEF Target
<1> QED BY <1>2, <1>3

----------------------------------------------------------------------------
(* The steps *)

\* Before there is a table nothing is allocated.
LEMMA InitHeap == Init => HeapInv
<1> SUFFICES ASSUME Init PROVE HeapInv
  OBVIOUS
<1>1. blocks = <<>> /\ Len(blocks) = 0
  BY EmptySeq DEF Init
<1> QED BY <1>1 DEF Init, HeapInv, OneOwner, Owned

\* Destroying a table frees the cells of every row, deleted ones included.
LEMMA LifecycleHeap ==
  ASSUME TableInv, HeapInv, TableInit \/ TableDestroy
  PROVE  HeapInv'
<1>1. blocks' = <<>> /\ Len(blocks') = 0
  BY EmptySeq DEF TableInit, TableDestroy
<1>2. ASSUME NEW x \in Cells PROVE heap'[x] = Unalloc
  <2>1. CASE TableInit
    <3>1. blocks = <<>> /\ Len(blocks) = 0 /\ heap' = heap
      BY <2>1, EmptySeq DEF TableInit, HeapInv
    <3> QED BY <3>1 DEF HeapInv, Owned
  <2>2. CASE TableDestroy
    <3>1. Owned(x) =>
            x \in UNION {CellsOfBlock(blocks[b]) : b \in 1 .. Len(blocks)}
      BY DEF Owned, CellsOfBlock
    <3>2. CASE Owned(x)
      BY <2>2, <3>1, <3>2 DEF TableDestroy, Release
    <3>3. CASE ~Owned(x)
      BY <2>2, <3>3 DEF TableDestroy, Release, HeapInv
    <3> QED BY <3>2, <3>3
  <2> QED BY <2>1, <2>2
<1> QED BY <1>1, <1>2 DEF HeapInv, OneOwner, Owned

\* An insertion owns the cells it was granted, which nobody owned.
LEMMA InsertHeap ==
  ASSUME TableInv, HeapInv, NEW row \in Inputs, InsertRow(row)
  PROVE  HeapInv'
<1>1. PICK ptr \in Grants :
           /\ ptr \in [VarCols -> Cells]
           /\ Filled(row, ptr) \in Slot
           /\ heap' = Written(row, ptr)
           /\ blocks' \in Seq(Block)
           /\ Len(blocks') = Len(Target.blocks)
           /\ \A d \in 1 .. Len(blocks'), t \in SlotIds :
                blocks'[d][t] = IF d = Len(blocks') /\ t = Target.at
                                THEN Filled(row, ptr) ELSE Target.blocks[d][t]
  BY InsertFacts
<1> DEFINE given == {ptr[c] : c \in VarCols}
<1>2. \A x \in given : x \in Cells /\ heap[x] = Unalloc
  BY <1>1 DEF Grants, FreeCells
<1>3. CellsOf(Filled(row, ptr)) = given
  BY <1>1, CellsOfFilled
<1>4. \A x \in Cells : /\ x \in given => heap'[x] # Unalloc
                       /\ x \notin given => heap'[x] = heap[x]
  BY <1>1, WrittenCells
<1> HIDE DEF given
<1>5. Target.at \in SlotIds /\ Len(Target.blocks) \in 1 .. Len(Target.blocks)
  BY TargetFacts DEF TableInv
<1>6. CellsOf(Target.blocks[Len(Target.blocks)][Target.at]) = {}
  <2>1. /\ Target.blocks[Len(Target.blocks)][Target.at] \in Slot
        /\ Target.blocks[Len(Target.blocks)][Target.at].empty
    BY <1>5, TargetFacts, SlotsType DEF TableInv, Block, SlotIds
  <2> QED BY <2>1, CellsOfSlot
<1>7. \A d \in 1 .. Len(blocks'), t \in SlotIds :
        CellsOf(blocks'[d][t]) =
          IF d = Len(blocks') /\ t = Target.at THEN given
          ELSE IF d <= Len(blocks) THEN CellsOf(blocks[d][t]) ELSE {}
  BY <1>1, <1>3, TargetCells
<1>8. \A x \in given : ~Owned(x)
  BY <1>2 DEF HeapInv
<1>9. ASSUME NEW x \in Cells PROVE Owned(x)' <=> x \in given \/ Owned(x)
  <2>1. Len(blocks') \in 1 .. Len(blocks') /\ Len(blocks) <= Len(blocks')
        /\ Len(blocks) \in Nat /\ Len(blocks') \in Nat
    BY <1>1, <1>5, TargetCells
  <2>2. ASSUME Owned(x)' PROVE x \in given \/ Owned(x)
    BY <1>7, <2>1, <2>2 DEF Owned
  <2>3. ASSUME x \in given PROVE Owned(x)'
    BY <1>5, <1>7, <2>1, <2>3 DEF Owned
  <2>4. ASSUME Owned(x) PROVE Owned(x)'
    <3>1. PICK b \in 1 .. Len(blocks), s \in SlotIds : x \in CellsOf(blocks[b][s])
      BY <2>4 DEF Owned
    <3>2. ~(b = Len(blocks') /\ s = Target.at)
      BY <1>1, <1>5, <1>6, <2>1, <3>1, TargetCells
    <3> QED BY <1>7, <2>1, <3>1, <3>2 DEF Owned
  <2> QED BY <2>2, <2>3, <2>4
<1>10. OneOwner'
  <2> SUFFICES ASSUME NEW b \in 1 .. Len(blocks'), NEW d \in 1 .. Len(blocks'),
                      NEW s \in SlotIds, NEW t \in SlotIds, NEW x \in Cells,
                      x \in CellsOf(blocks'[b][s]), x \in CellsOf(blocks'[d][t])
               PROVE  b = d /\ s = t
    BY DEF OneOwner
  <2>1. CASE x \in given
    BY <1>7, <1>8, <2>1, TargetCells DEF Owned
  <2>2. CASE x \notin given
    BY <1>7, <2>2, TargetCells DEF HeapInv, OneOwner
  <2> QED BY <2>1, <2>2
<1>11. phase' # "none"
  BY DEF InsertRow
<1> QED BY <1>4, <1>9, <1>10, <1>11 DEF HeapInv

\* A deletion and an update leave every slot with the cells it had, and no
\* cell is freed.
LEMMA RewriteHeap ==
  ASSUME TableInv, HeapInv,
         NEW b \in 1 .. Len(blocks), NEW s \in SlotIds,
         DeleteRow(b, s) \/ \E row \in Inputs : UpdateRow(b, s, row)
  PROVE  HeapInv'
<1>1. blocks \in Seq(Block) /\ blocks[b][s] \in Slot
  BY DEF TableInv, TypeOK, Block
<1>2. PICK slot \in Slot :
         blocks' = SetSlot(blocks, b, s, slot) /\ CellsOf(slot) = CellsOf(blocks[b][s])
  <2>1. CASE DeleteRow(b, s)
    <3> DEFINE gone == [blocks[b][s] EXCEPT !.deleted = TRUE]
    <3>1. gone \in Slot /\ gone.empty = blocks[b][s].empty /\ gone.data = blocks[b][s].data
      BY <1>1 DEF Slot
    <3>2. CellsOf(gone) = CellsOf(blocks[b][s])
      BY <3>1 DEF CellsOf
    <3> HIDE DEF gone
    <3>3. blocks' = SetSlot(blocks, b, s, gone)
      BY <2>1 DEF DeleteRow, gone
    <3> QED BY <3>1, <3>2, <3>3
  <2>2. CASE \E row \in Inputs : UpdateRow(b, s, row)
    <3>1. PICK row \in Inputs : UpdateRow(b, s, row)
      BY <2>2
    <3> DEFINE ptr == [c \in VarCols |-> blocks[b][s].data[c]]
    <3>2. ptr \in [VarCols -> Cells]
      BY <1>1, <3>1 DEF UpdateRow, Slot, SlotData
    <3>3. Filled(row, ptr) \in Slot /\ CellsOf(Filled(row, ptr)) = {ptr[c] : c \in VarCols}
      BY <3>2, FilledType, CellsOfFilled
    <3>4. CellsOf(blocks[b][s]) = {ptr[c] : c \in VarCols}
      BY <3>1 DEF UpdateRow, LiveAt, Live, CellsOf
    <3>5. blocks' = SetSlot(blocks, b, s, Filled(row, ptr))
      BY <3>1 DEF UpdateRow
    <3> HIDE DEF ptr
    <3> QED BY <3>3, <3>4, <3>5
  <2> QED BY <2>1, <2>2
<1>3. /\ Len(blocks') = Len(blocks)
      /\ \A d \in 1 .. Len(blocks), t \in SlotIds :
           CellsOf(blocks'[d][t]) = CellsOf(blocks[d][t])
  <2>1. /\ Len(blocks') = Len(blocks)
        /\ \A d \in 1 .. Len(blocks), t \in SlotIds :
             blocks'[d][t] = IF d = b /\ t = s THEN slot ELSE blocks[d][t]
    <3>1. blocks \in Seq(Block) /\ slot \in Slot /\ blocks' = SetSlot(blocks, b, s, slot)
      BY <1>1, <1>2
    <3>2. /\ Len(SetSlot(blocks, b, s, slot)) = Len(blocks)
          /\ \A d \in 1 .. Len(blocks), t \in SlotIds :
               SetSlot(blocks, b, s, slot)[d][t] = IF d = b /\ t = s THEN slot ELSE blocks[d][t]
      BY ONLY <3>1, SetSlotFacts
    <3> QED BY ONLY <3>1, <3>2
  <2>2. ASSUME NEW d \in 1 .. Len(blocks), NEW t \in SlotIds
        PROVE  CellsOf(blocks'[d][t]) = CellsOf(blocks[d][t])
    <3>1. CASE d = b /\ t = s
      BY <1>2, <2>1, <3>1
    <3>2. CASE ~(d = b /\ t = s)
      BY <2>1, <3>2
    <3> QED BY <3>1, <3>2
  <2> QED BY <2>1, <2>2
<1>4. ASSUME NEW x \in Cells PROVE heap'[x] # Unalloc <=> heap[x] # Unalloc
  <2>1. CASE DeleteRow(b, s)
    BY <2>1 DEF DeleteRow
  <2>2. CASE \E row \in Inputs : UpdateRow(b, s, row)
    <3>1. PICK row \in Inputs : UpdateRow(b, s, row)
      BY <2>2
    <3> DEFINE ptr == [c \in VarCols |-> blocks[b][s].data[c]]
    <3>2. ptr \in [VarCols -> Cells]
      BY <1>1, <3>1 DEF UpdateRow, Slot, SlotData
    <3>3. heap' = Written(row, ptr)
      BY <3>1 DEF UpdateRow
    <3>4. (\E c \in VarCols : ptr[c] = x) => heap[x] # Unalloc
      <4>1. CellsOf(blocks[b][s]) = {ptr[c] : c \in VarCols} \ {Zero}
        BY <3>1 DEF UpdateRow, LiveAt, Live, CellsOf
      <4> QED BY <4>1, ValueAssumption DEF HeapInv, Owned
    <3> HIDE DEF ptr
    <3> QED BY <3>2, <3>3, <3>4, WrittenCells
  <2> QED BY <2>1, <2>2
<1>5. phase' # "none"
  BY DEF DeleteRow, UpdateRow
<1>6. OneOwner'
  BY <1>3 DEF HeapInv, OneOwner
<1>7. \A x \in Cells : Owned(x)' <=> Owned(x)
  BY <1>3 DEF Owned
<1> QED BY <1>4, <1>5, <1>6, <1>7 DEF HeapInv

\* A move frees what the destination slot referred to - a deleted row - and
\* hands the cells of the source slot over to it.
LEMMA MoveHeap == ASSUME TableInv, HeapInv, VacuumMove PROVE HeapInv'
<1> DEFINE old == CellsOf(blocks[vac.dst][vac.dstOff])
           src == CellsOf(blocks[vac.src][vac.i])
<1>1. heap' = Release(old) /\ phase' = phase /\ phase = "vacuum"
  BY DEF VacuumMove, AtLiveRow, Scanning
<1>2. /\ vac.dst \in 1 .. Len(blocks) /\ vac.src \in 1 .. Len(blocks)
      /\ vac.dstOff \in SlotIds /\ vac.i \in SlotIds
      /\ ~(vac.dst = vac.src /\ vac.dstOff = vac.i)
      /\ Len(blocks') = Len(blocks)
  BY MoveFacts, SlotsType DEF SlotIds
<1>3. ASSUME NEW b \in 1 .. Len(blocks), NEW s \in SlotIds
      PROVE  CellsOf(blocks'[b][s]) =
               IF b = vac.src /\ s = vac.i THEN {}
               ELSE IF b = vac.dst /\ s = vac.dstOff THEN src
               ELSE CellsOf(blocks[b][s])
  <2>1. CASE b = vac.src /\ s = vac.i
    BY <2>1, MoveFacts, CellsOfSlot
  <2>2. CASE b = vac.dst /\ s = vac.dstOff
    BY <1>2, <2>2, MoveFacts
  <2>3. CASE ~(b = vac.src /\ s = vac.i) /\ ~(b = vac.dst /\ s = vac.dstOff)
    BY <2>3, MoveFacts
  <2> QED BY <1>2, <2>1, <2>2, <2>3
<1>4. \A x \in Cells : heap'[x] # Unalloc <=> heap[x] # Unalloc /\ x \notin old
  BY <1>1 DEF Release
<1>5. \A x \in Cells : x \in src => x \notin old
  BY <1>2 DEF HeapInv, OneOwner
<1>6. ASSUME NEW x \in Cells PROVE Owned(x)' <=> Owned(x) /\ x \notin old
  <2>1. ASSUME Owned(x)' PROVE Owned(x) /\ x \notin old
    <3>1. PICK b \in 1 .. Len(blocks), s \in SlotIds : x \in CellsOf(blocks'[b][s])
      BY <1>2, <2>1 DEF Owned
    <3>2. CASE x \in src
      BY <1>2, <1>5, <3>2 DEF Owned
    <3>3. CASE x \notin src
      BY <1>2, <1>3, <3>1, <3>3 DEF Owned, HeapInv, OneOwner
    <3> QED BY <3>2, <3>3
  <2>2. ASSUME Owned(x), x \notin old PROVE Owned(x)'
    <3>1. PICK b \in 1 .. Len(blocks), s \in SlotIds : x \in CellsOf(blocks[b][s])
      BY <2>2 DEF Owned
    <3>2. CASE b = vac.src /\ s = vac.i
      <4>1. x \in CellsOf(blocks'[vac.dst][vac.dstOff])
        BY <1>2, <1>3, <3>1, <3>2
      <4> QED BY <1>2, <4>1 DEF Owned
    <3>3. CASE ~(b = vac.src /\ s = vac.i)
      <4>1. x \in CellsOf(blocks'[b][s])
        BY <1>3, <2>2, <3>1, <3>3
      <4> QED BY <1>2, <4>1 DEF Owned
    <3> QED BY <3>2, <3>3
  <2> QED BY <2>1, <2>2
<1>7. OneOwner'
  BY <1>2, <1>3 DEF HeapInv, OneOwner
<1> QED BY <1>1, <1>4, <1>6, <1>7 DEF HeapInv

\* The end of a vacuum frees the cells of the slots that are cut off, and no
\* other: those belong to other slots.
LEMMA FinishHeap == ASSUME TableInv, HeapInv, VacuumFinish PROVE HeapInv'
<1> DEFINE Kept(b, s) == b \in 1 .. vac.dst /\ ~(b = vac.dst /\ s >= vac.dstOff)
<1>1. heap' = Release(Leftover) /\ phase' = "ready"
  BY DEF VacuumFinish
<1>2. /\ vac.dst \in 1 .. Len(blocks) /\ Len(blocks) \in Nat
      /\ Len(blocks') = vac.dst
  BY FinishFacts DEF TableInv, TypeOK
<1>3. ASSUME NEW b \in 1 .. vac.dst, NEW s \in SlotIds
      PROVE  CellsOf(blocks'[b][s]) = IF Kept(b, s) THEN CellsOf(blocks[b][s]) ELSE {}
  <2>1. CASE b = vac.dst /\ s >= vac.dstOff
    BY <2>1, FinishFacts, CellsOfSlot
  <2>2. CASE ~(b = vac.dst /\ s >= vac.dstOff)
    BY <2>2, FinishFacts
  <2> QED BY <2>1, <2>2
<1>4. ASSUME NEW x \in Cells
      PROVE  x \in Leftover <=>
               \E b \in 1 .. Len(blocks), s \in SlotIds :
                 ~Kept(b, s) /\ x \in CellsOf(blocks[b][s])
  <2>1. x \in Leftover <=>
          \/ \E s \in SlotIds : s >= vac.dstOff /\ x \in CellsOf(blocks[vac.dst][s])
          \/ \E b \in vac.dst + 1 .. Len(blocks) : \E s \in SlotIds :
               x \in CellsOf(blocks[b][s])
    <3> DEFINE cut  == UNION {CellsOf(blocks[vac.dst][s]) :
                                s \in {t \in SlotIds : t >= vac.dstOff}}
               rest == UNION {CellsOfBlock(blocks[b]) : b \in vac.dst + 1 .. Len(blocks)}
    <3>1. x \in cut <=> \E s \in SlotIds : s >= vac.dstOff /\ x \in CellsOf(blocks[vac.dst][s])
      OBVIOUS
    <3>2. x \in rest <=> \E b \in vac.dst + 1 .. Len(blocks) : x \in CellsOfBlock(blocks[b])
      OBVIOUS
    <3>3. \A b \in vac.dst + 1 .. Len(blocks) :
            x \in CellsOfBlock(blocks[b]) <=> \E s \in SlotIds : x \in CellsOf(blocks[b][s])
      BY DEF CellsOfBlock
    <3>4. x \in Leftover <=> x \in cut \/ x \in rest
      BY DEF Leftover
    <3> HIDE DEF cut, rest
    <3> QED BY <3>1, <3>2, <3>3, <3>4
  <2>2. \A b \in 1 .. Len(blocks), s \in SlotIds :
          ~Kept(b, s) <=> b \in vac.dst + 1 .. Len(blocks) \/ (b = vac.dst /\ s >= vac.dstOff)
    BY <1>2
  <2>3. vac.dst + 1 .. Len(blocks) \subseteq 1 .. Len(blocks)
    BY <1>2
  <2> HIDE DEF Kept
  <2> QED BY <1>2, <2>1, <2>2, <2>3
<1>5. \A b \in 1 .. vac.dst : b \in 1 .. Len(blocks)
  BY <1>2
<1>6. \A x \in Cells : heap'[x] # Unalloc <=> heap[x] # Unalloc /\ x \notin Leftover
  BY <1>1 DEF Release
<1>7. ASSUME NEW x \in Cells PROVE Owned(x)' <=> Owned(x) /\ x \notin Leftover
  <2>1. Owned(x)' <=> \E b \in 1 .. vac.dst, s \in SlotIds :
                        Kept(b, s) /\ x \in CellsOf(blocks[b][s])
    BY <1>2, <1>3 DEF Owned
  <2>2. \A b \in 1 .. Len(blocks), s \in SlotIds : Kept(b, s) => b \in 1 .. vac.dst
    OBVIOUS
  <2> HIDE DEF Kept
  <2> QED BY <1>4, <1>5, <2>1, <2>2 DEF Owned, HeapInv, OneOwner
<1>8. OneOwner'
  BY <1>2, <1>3, <1>5 DEF HeapInv, OneOwner
<1> QED BY <1>1, <1>6, <1>7, <1>8 DEF HeapInv

----------------------------------------------------------------------------
(* The theorems *)

\* Every step keeps the invariant.
LEMMA NextHeap == TableInv /\ HeapInv /\ [Next]_vars => HeapInv'
<1> SUFFICES ASSUME TableInv, HeapInv, [Next]_vars PROVE HeapInv'
  OBVIOUS
<1>1. CASE TableInit \/ TableDestroy
  BY <1>1, LifecycleHeap
<1>2. CASE \E row \in Inputs : InsertRow(row)
  BY <1>2, InsertHeap
<1>3. CASE InsertAborts
  BY <1>3, InsertNeverAborts
<1>4. CASE \/ \E b \in 1 .. Len(blocks), s \in SlotIds : DeleteRow(b, s)
           \/ \E b \in 1 .. Len(blocks), s \in SlotIds, row \in Inputs : UpdateRow(b, s, row)
  BY <1>4, RewriteHeap
<1>5. CASE VacuumMove
  BY <1>5, MoveHeap
<1>6. CASE VacuumFinish
  BY <1>6, FinishHeap
<1>7. CASE \/ VacuumStart \/ VacuumNextSource \/ VacuumSkip \/ VacuumKeep
           \/ VacuumNextDestination \/ UNCHANGED vars
  <2>1. UNCHANGED <<blocks, heap>> /\ (phase' = "none" => phase = "none")
    BY <1>7 DEF VacuumStart, VacuumNextSource, VacuumSkip, VacuumKeep,
                VacuumNextDestination, vars, Scanning, DstFull, AtLiveRow
  <2> QED BY <2>1 DEF HeapInv, OneOwner, Owned
<1> QED BY <1>1, <1>2, <1>3, <1>4, <1>5, <1>6, <1>7 DEF Next, Vacuuming

\* The invariant holds in every reachable state.
LEMMA SpecHeap == Spec => [](TableInv /\ HeapInv)
<1>1. Init => HeapInv
  BY InitHeap
<1> QED BY <1>1, NextHeap, SpecInv, PTL DEF Spec

\* Two rows of a table never share a heap cell, deleted rows and the rows in
\* the middle of a vacuum included, for every schema.
THEOREM RowsDoNotAlias == Spec => []NoAliasing
<1>1. TableInv /\ HeapInv => NoAliasing
  <2> SUFFICES ASSUME TableInv, HeapInv, NEW b \in 1 .. Len(blocks),
                      NEW d \in 1 .. Len(blocks), NEW s \in SlotIds, NEW t \in SlotIds,
                      <<b, s>> # <<d, t>>
               PROVE  CellsOf(blocks[b][s]) \cap CellsOf(blocks[d][t]) = {}
    BY DEF NoAliasing
  <2>1. blocks[b][s] \in Slot
    BY DEF TableInv, TypeOK
  <2>2. CellsOf(blocks[b][s]) \subseteq Cells
    BY <2>1, CellsOfSlot
  <2> QED BY <2>2 DEF HeapInv, OneOwner
<1> QED BY <1>1, SpecHeap, PTL

\* The allocated cells are those of the rows: nothing leaks and nothing is
\* freed twice or while it is referred to.
THEOREM HeapIsOwned == Spec => []HeapOwned
<1>1. TableInv /\ HeapInv => HeapOwned
  <2> SUFFICES ASSUME TableInv, HeapInv
               PROVE  {x \in Cells : heap[x] # Unalloc} =
                        UNION {CellsOfBlock(blocks[b]) : b \in 1 .. Len(blocks)}
    BY DEF HeapOwned
  <2>1. \A b \in 1 .. Len(blocks), s \in SlotIds : CellsOf(blocks[b][s]) \subseteq Cells
    BY CellsOfSlot DEF TableInv, TypeOK
  <2>2. \A x : x \in UNION {CellsOfBlock(blocks[b]) : b \in 1 .. Len(blocks)}
                <=> Owned(x)
    BY DEF CellsOfBlock, Owned
  <2> QED BY <2>1, <2>2 DEF HeapInv, Owned
<1> QED BY <1>1, SpecHeap, PTL
-----------------------------------------------------------------------------
(* The loop of table_vacuum: iteration by iteration, it compacts the table. *)


\* The datablocks before the destination are filled to their last usable slot.
FullBefore ==
  \A b \in 1 .. vac.dst - 1 : \A s \in SlotIds : Live(blocks[b][s]) <=> Fits(s)

\* So is the destination up to its offset.
FullUpTo == \A s \in SlotIds : s < vac.dstOff => Live(blocks[vac.dst][s])

\* From the destination on, the only other rows are those still to be read.
RestUnread ==
  \A b \in vac.dst .. Len(blocks) : \A s \in SlotIds :
    Live(blocks[b][s]) => \/ b = vac.dst /\ s < vac.dstOff
                          \/ b > vac.src
                          \/ b = vac.src /\ s >= vac.i

\* src_blk_offset lags behind only while the table is compacted within one
\* datablock, so falling back to it never meets a row a second time.
NoLag == vac.dst < vac.src => vac.srcOff = vac.i

LoopInv == phase = "vacuum" => FullBefore /\ FullUpTo /\ RestUnread /\ NoLag

----------------------------------------------------------------------------
(* The steps *)

\* The numbers that the loop computes with.
LEMMA LoopNumbers ==
  ASSUME TableInv, phase = "vacuum"
  PROVE  /\ vac.dst \in Nat /\ vac.src \in Nat /\ vac.dstOff \in Nat
         /\ vac.srcOff \in Nat /\ vac.i \in Nat /\ Len(blocks) \in Nat
         /\ 1 <= vac.dst /\ vac.dst <= vac.src /\ vac.dst <= Len(blocks)
         /\ vac.dst = vac.src => vac.dstOff <= vac.i
BY SlotsType DEF TableInv, TypeOK, VacuumOrder

\* The steps that only advance the loop variables.
LEMMA ScanLoop ==
  ASSUME TableInv, LoopInv,
         VacuumStart \/ VacuumNextSource \/ VacuumSkip \/ VacuumKeep
           \/ VacuumNextDestination
  PROVE  LoopInv'
<1> USE SlotsType
<1>1. blocks' = blocks /\ Len(blocks) \in Nat
  BY DEF VacuumStart, VacuumNextSource, VacuumSkip, VacuumKeep, VacuumNextDestination,
         TableInv, TypeOK
<1>2. CASE VacuumStart
  <2>1. vac'.dst = 1 /\ vac'.dstOff = 0 /\ vac'.src = 1 /\ vac'.i = 0
    BY <1>2 DEF VacuumStart, NoVacuum, Loop
  <2> QED BY <1>1, <2>1 DEF LoopInv, FullBefore, FullUpTo, RestUnread, NoLag, SlotIds
<1>3. CASE VacuumNextSource
  <2>1. /\ phase = "vacuum" /\ vac.i >= Slots
        /\ vac'.dst = vac.dst /\ vac'.dstOff = vac.dstOff /\ vac'.src = vac.src + 1
        /\ vac'.i = 0 /\ vac'.srcOff = 0
    BY <1>3 DEF VacuumNextSource, Scanning, Loop
  <2>2. FullBefore' /\ FullUpTo'
    BY <1>1, <2>1 DEF LoopInv, FullBefore, FullUpTo
  <2>3. RestUnread'
    <3> SUFFICES ASSUME NEW b \in vac.dst .. Len(blocks), NEW s \in SlotIds,
                        Live(blocks[b][s])
                 PROVE  \/ b = vac.dst /\ s < vac.dstOff
                        \/ b > vac.src + 1
                        \/ b = vac.src + 1 /\ s >= 0
      BY <1>1, <2>1 DEF RestUnread
    <3>1. \/ b = vac.dst /\ s < vac.dstOff
          \/ b > vac.src
          \/ b = vac.src /\ s >= vac.i
      BY <2>1 DEF LoopInv, RestUnread
    <3>2. b \in Int /\ s \in Int /\ 0 <= s /\ s < Slots
      BY <2>1, LoopNumbers DEF SlotIds
    <3> QED BY <2>1, <3>1, <3>2, LoopNumbers
  <2> QED BY <2>1, <2>2, <2>3 DEF LoopInv, NoLag
<1>4. CASE VacuumSkip
  <2>1. /\ phase = "vacuum" /\ ~Live(blocks[vac.src][vac.i])
        /\ vac'.dst = vac.dst /\ vac'.dstOff = vac.dstOff /\ vac'.src = vac.src
        /\ vac'.i = vac.i + 1 /\ vac'.srcOff = vac.srcOff + 1
    BY <1>4 DEF VacuumSkip, Scanning, SrcSlot, Loop
  <2>2. RestUnread'
    BY <1>1, <2>1, LoopNumbers DEF LoopInv, RestUnread, SlotIds
  <2> QED BY <1>1, <2>1, <2>2, LoopNumbers
          DEF LoopInv, FullBefore, FullUpTo, NoLag, SlotIds
<1>5. CASE VacuumKeep
  <2>1. /\ phase = "vacuum" /\ Live(blocks[vac.src][vac.i])
        /\ vac.dst = vac.src /\ vac.dstOff = vac.i
        /\ vac'.dst = vac.dst /\ vac'.dstOff = vac.dstOff + 1 /\ vac'.src = vac.src
        /\ vac'.i = vac.i + 1
    BY <1>5 DEF VacuumKeep, AtLiveRow, Scanning, SrcSlot, InPlace, Loop
  <2>2. FullUpTo'
    BY <1>1, <2>1, LoopNumbers DEF LoopInv, FullUpTo, SlotIds
  <2>3. RestUnread'
    BY <1>1, <2>1, LoopNumbers DEF LoopInv, RestUnread, SlotIds
  <2> QED BY <1>1, <2>1, <2>2, <2>3, LoopNumbers DEF LoopInv, FullBefore, NoLag
<1>6. CASE VacuumNextDestination
  <2>1. /\ phase = "vacuum" /\ ~Fits(vac.dstOff)
        /\ vac'.dst = vac.dst + 1 /\ vac'.dstOff = 0 /\ vac'.src = vac.src
        /\ vac'.i = vac.srcOff /\ vac'.srcOff = vac.srcOff
        /\ vac.dst < vac.src
    BY <1>6, FullMeansLater
       DEF VacuumNextDestination, DstFull, AtLiveRow, Scanning, Loop
  <2>2. vac.srcOff = vac.i
    BY <2>1 DEF LoopInv, NoLag
  <2>3. \A s \in SlotIds : Live(blocks[vac.dst][s]) <=> Fits(s)
    <3> SUFFICES ASSUME NEW s \in SlotIds PROVE Live(blocks[vac.dst][s]) <=> Fits(s)
      OBVIOUS
    <3>1. s \in Nat
      BY DEF SlotIds
    <3>2. Fits(s) => s < vac.dstOff
      BY <2>1, <3>1, FitsBounds, LoopNumbers
    <3>3. Live(blocks[vac.dst][s]) => Fits(s)
      BY <2>1, LoopNumbers DEF TableInv, SlotDiscipline, Live
    <3> QED BY <2>1, <3>2, <3>3 DEF LoopInv, FullUpTo
  <2>4. FullBefore'
    <3> SUFFICES ASSUME NEW b \in 1 .. vac'.dst - 1, NEW s \in SlotIds
                 PROVE  Live(blocks[b][s]) <=> Fits(s)
      BY <1>1 DEF FullBefore
    <3>1. b \in 1 .. vac.dst - 1 \/ b = vac.dst
      BY <2>1, LoopNumbers
    <3> QED BY <2>1, <2>3, <3>1 DEF LoopInv, FullBefore
  <2>5. RestUnread'
    BY <1>1, <2>1, <2>2, LoopNumbers DEF LoopInv, RestUnread, SlotIds
  <2> QED BY <2>1, <2>2, <2>4, <2>5, LoopNumbers DEF LoopInv, FullUpTo, NoLag, SlotIds
<1> QED BY <1>2, <1>3, <1>4, <1>5, <1>6

\* A move fills the next slot of the destination and empties the one it read.
LEMMA MoveLoop == ASSUME TableInv, LoopInv, VacuumMove PROVE LoopInv'
<1> USE SlotsType
<1>1. /\ phase = "vacuum"
      /\ vac'.dst = vac.dst /\ vac'.dstOff = vac.dstOff + 1 /\ vac'.src = vac.src
      /\ vac'.i = vac.i + 1 /\ vac'.srcOff = vac.srcOff + 1
  BY DEF VacuumMove, AtLiveRow, Scanning, Loop
<1>2. ~Live(BlankSlot) /\ Live(SrcSlot)
  BY MoveFacts DEF BlankSlot, Live
<1>3. Len(blocks') = Len(blocks)
  BY MoveFacts
<1>4. ASSUME NEW x \in 1 .. Len(blocks), NEW y \in SlotIds
      PROVE  Live(blocks'[x][y]) <=> \/ x = vac.dst /\ y = vac.dstOff
                                     \/ /\ ~(x = vac.src /\ y = vac.i)
                                        /\ Live(blocks[x][y])
  <2>1. ~(vac.dst = vac.src /\ vac.dstOff = vac.i)
    BY <1>1, MoveFacts, LoopNumbers
  <2>2. CASE x = vac.src /\ y = vac.i
    BY <1>2, <2>1, <2>2, MoveFacts
  <2>3. CASE x = vac.dst /\ y = vac.dstOff
    BY <1>2, <2>1, <2>3, MoveFacts
  <2>4. CASE ~(x = vac.src /\ y = vac.i) /\ ~(x = vac.dst /\ y = vac.dstOff)
    <3>1. blocks'[x][y] = blocks[x][y]
      BY <2>4, MoveFacts
    <3> QED BY <2>4, <3>1
  <2> QED BY <2>2, <2>3, <2>4
<1>5. FullBefore'
  <2> SUFFICES ASSUME NEW b \in 1 .. vac.dst - 1, NEW s \in SlotIds
               PROVE  Live(blocks'[b][s]) <=> Fits(s)
    BY <1>1 DEF FullBefore
  <2>1. b \in 1 .. Len(blocks) /\ b # vac.dst /\ b # vac.src
    BY <1>1, LoopNumbers
  <2> QED BY <1>1, <1>4, <2>1 DEF LoopInv, FullBefore
<1>6. FullUpTo'
  <2> SUFFICES ASSUME NEW s \in SlotIds, s < vac.dstOff + 1
               PROVE  Live(blocks'[vac.dst][s])
    BY <1>1 DEF FullUpTo
  <2>1. s \in Int /\ vac.dst \in 1 .. Len(blocks)
    BY <1>1, LoopNumbers DEF SlotIds
  <2>2. CASE s = vac.dstOff
    BY <1>4, <2>1, <2>2
  <2>3. CASE s < vac.dstOff
    <3>1. Live(blocks[vac.dst][s])
      BY <1>1, <2>3 DEF LoopInv, FullUpTo
    <3>2. ~(vac.dst = vac.src /\ s = vac.i)
      BY <1>1, <2>1, <2>3, LoopNumbers
    <3> QED BY <1>4, <2>1, <3>1, <3>2
  <2> QED BY <1>1, <2>1, <2>2, <2>3, LoopNumbers
<1>7. RestUnread'
  <2> SUFFICES ASSUME NEW b \in vac.dst .. Len(blocks), NEW s \in SlotIds,
                      Live(blocks'[b][s])
               PROVE  \/ b = vac.dst /\ s < vac.dstOff + 1
                      \/ b > vac.src
                      \/ b = vac.src /\ s >= vac.i + 1
    BY <1>1, <1>3 DEF RestUnread
  <2>1. s \in Int /\ b \in 1 .. Len(blocks)
    BY <1>1, LoopNumbers DEF SlotIds
  <2>2. \/ b = vac.dst /\ s = vac.dstOff
        \/ ~(b = vac.src /\ s = vac.i) /\ Live(blocks[b][s])
    BY <1>4, <2>1
  <2>3. Live(blocks[b][s]) => \/ b = vac.dst /\ s < vac.dstOff
                              \/ b > vac.src
                              \/ b = vac.src /\ s >= vac.i
    BY <1>1 DEF LoopInv, RestUnread
  <2> QED BY <1>1, <2>1, <2>2, <2>3, LoopNumbers
<1>8. NoLag'
  BY <1>1 DEF LoopInv, NoLag
<1> QED BY <1>5, <1>6, <1>7, <1>8 DEF LoopInv

\* The scan has read every datablock when it ends: it never runs out of
\* destinations.
LEMMA AllRead ==
  ASSUME TableInv, VacuumFinish PROVE phase = "vacuum" /\ vac.src > Len(blocks)
<1>1. phase = "vacuum"
  BY DEF VacuumFinish, ScanDone
<1>2. ~(DstFull /\ vac.dst = Len(blocks))
  <2> SUFFICES ASSUME DstFull, vac.dst = Len(blocks) PROVE FALSE
    OBVIOUS
  <2>1. vac.dst < vac.src /\ vac.src <= Len(blocks)
    BY FullMeansLater DEF DstFull, AtLiveRow, Scanning
  <2> QED BY <1>1, <2>1, LoopNumbers
<1> QED BY <1>1, <1>2 DEF VacuumFinish, ScanDone

\* When the scan is over, nothing is left to read, so what lies before the
\* destination offset is all there is.
LEMMA FinishDense == ASSUME TableInv, LoopInv, VacuumFinish PROVE Dense'
<1> USE SlotsType
<1>1. phase = "vacuum" /\ free' = vac.dstOff
  BY DEF VacuumFinish, ScanDone
<1>2. vac.src > Len(blocks)
  BY AllRead
<1>3. blocks' # <<>> /\ Len(blocks') = vac.dst /\ vac.dst \in 1 .. Len(blocks)
  BY <1>1, FinishFacts, LoopNumbers
<1>4. ~Live(BlankSlot) /\ ~BlankSlot.deleted
  BY DEF BlankSlot, Live
<1>5. ASSUME NEW s \in SlotIds PROVE Live(blocks'[vac.dst][s]) <=> s < vac.dstOff
  <2>1. s \in Int /\ vac.dst \in vac.dst .. Len(blocks) /\ vac.dst \in 1 .. vac.dst
    BY <1>1, LoopNumbers DEF SlotIds
  <2>2. CASE s >= vac.dstOff
    BY <1>1, <1>4, <2>1, <2>2, FinishFacts, LoopNumbers
  <2>3. CASE s < vac.dstOff
    <3>1. blocks'[vac.dst][s] = blocks[vac.dst][s]
      BY <1>1, <2>1, <2>3, FinishFacts, LoopNumbers
    <3> QED BY <1>1, <2>3, <3>1 DEF LoopInv, FullUpTo
  <2> QED BY <1>1, <2>1, <2>2, <2>3, LoopNumbers
<1>6. ASSUME NEW b \in 1 .. vac.dst - 1, NEW s \in SlotIds
      PROVE  blocks'[b][s] = blocks[b][s] /\ (Live(blocks'[b][s]) <=> Fits(s))
  <2>1. b \in 1 .. vac.dst /\ b # vac.dst
    BY <1>1, LoopNumbers
  <2>2. blocks'[b][s] = blocks[b][s]
    BY <2>1, FinishFacts
  <2> QED BY <1>1, <2>2 DEF LoopInv, FullBefore
<1>7. ASSUME NEW b \in 1 .. Len(blocks'), NEW s \in SlotIds PROVE ~blocks'[b][s].deleted
  <2>1. TableInv'
    BY FinishStep
  <2>2. blocks'[b][s].empty => ~blocks'[b][s].deleted
    BY <2>1 DEF TableInv, SlotDiscipline
  <2>3. ASSUME ~blocks'[b][s].empty, b < vac.dst PROVE Live(blocks'[b][s])
    <3>1. Fits(s)
      BY <2>1, <2>3 DEF TableInv, SlotDiscipline
    <3>2. b \in 1 .. vac.dst - 1
      BY <1>1, <1>3, <2>3, LoopNumbers
    <3> QED BY <1>6, <3>1, <3>2
  <2>4. ASSUME ~blocks'[b][s].empty, b = vac.dst PROVE Live(blocks'[b][s])
    <3>1. s < free'
      BY <1>1, <1>3, <2>1, <2>4, LoopNumbers DEF TableInv, SlotDiscipline, SlotIds
    <3> QED BY <1>1, <1>5, <2>4, <3>1
  <2> QED BY <1>1, <1>3, <2>2, <2>3, <2>4, LoopNumbers DEF Live
<1> QED BY <1>1, <1>3, <1>5, <1>6, <1>7 DEF Dense

----------------------------------------------------------------------------
(* The theorem *)

\* Every step keeps the loop invariant.
LEMMA NextLoop == TableInv /\ LoopInv /\ [Next]_vars => LoopInv'
<1> SUFFICES ASSUME TableInv, LoopInv, [Next]_vars PROVE LoopInv'
  OBVIOUS
<1>1. CASE \/ VacuumStart \/ VacuumNextSource \/ VacuumSkip \/ VacuumKeep
           \/ VacuumNextDestination
  BY <1>1, ScanLoop
<1>2. CASE VacuumMove
  BY <1>2, MoveLoop
<1>3. CASE UNCHANGED vars
  BY <1>3 DEF vars, LoopInv, FullBefore, FullUpTo, RestUnread, NoLag
<1>4. CASE phase' # "vacuum"
  BY <1>4 DEF LoopInv
<1>5. CASE \/ TableInit \/ TableDestroy \/ InsertAborts \/ VacuumFinish
           \/ \E row \in Inputs : InsertRow(row)
           \/ \E b \in 1 .. Len(blocks), s \in SlotIds : DeleteRow(b, s)
           \/ \E b \in 1 .. Len(blocks), s \in SlotIds, row \in Inputs : UpdateRow(b, s, row)
  <2>1. phase' # "vacuum"
    BY <1>5 DEF TableInit, TableDestroy, InsertAborts, VacuumFinish, InsertRow,
                DeleteRow, UpdateRow
  <2> QED BY <2>1, <1>4
<1> QED BY <1>1, <1>2, <1>3, <1>5 DEF Next, Vacuuming

\* A step that ends a vacuum leaves the table compacted.
LEMMA NextCompacts ==
  TableInv /\ LoopInv /\ [Next]_vars =>
    [phase = "vacuum" /\ phase' = "ready" => Dense']_vars
<1> SUFFICES ASSUME TableInv, LoopInv, Next, phase = "vacuum", phase' = "ready"
             PROVE  Dense'
  BY DEF vars
<1>1. VacuumFinish
  BY DEF Next, Vacuuming, TableInit, TableDestroy, InsertRow, InsertAborts, DeleteRow,
         UpdateRow, VacuumStart, VacuumNextSource, VacuumSkip, VacuumKeep, VacuumMove,
         VacuumNextDestination
<1> QED BY <1>1, FinishDense

\* Whenever table_vacuum returns, the rows of the table are contiguous from its
\* first slot on, every datablock but the last is full, and no deleted row is
\* left - for every page size, row size, schema and number of datablocks.
THEOREM VacuumIsCompaction == Spec => VacuumCompacts
<1>1. Init => LoopInv
  BY DEF Init, LoopInv
<1>2. Spec => [](TableInv /\ LoopInv)
  BY <1>1, NextLoop, SpecInv, PTL DEF Spec
<1> QED BY <1>2, NextCompacts, PTL DEF Spec, VacuumCompacts

----------------------------------------------------------------------------
(* The table implements the store of rows.                                  *)
----------------------------------------------------------------------------
(* The numbering of the slots *)

PlaceOf(b, s) == (b - 1) * Slots + s

\* A number is made of its quotient and its remainder, and only in one way.
LEMMA Division ==
  ASSUME NEW m \in Nat, NEW n \in Nat, n >= 1
  PROVE  /\ m \div n \in Nat /\ m % n \in Nat /\ m % n < n /\ m = (m \div n) * n + (m % n)
         /\ \A k \in Nat : k < n => (m * n + k) \div n = m /\ (m * n + k) % n = k
<1>1. m \div n \in Nat /\ m % n \in Nat /\ m % n < n
  OBVIOUS
<1>2. m = n * (m \div n) + (m % n)
  OBVIOUS
<1>3. \A x, y \in Int : x * y = y * x
  OBVIOUS
<1>4. n * (m \div n) = (m \div n) * n
  BY <1>1, <1>3
<1>5. \A k \in Nat : k < n => (m * n + k) \div n = m
  OBVIOUS
<1>6. \A k \in Nat : k < n => (m * n + k) % n = k
  OBVIOUS
<1> QED BY <1>1, <1>2, <1>4, <1>5, <1>6

\* A place is the datablock and the slot it was made of, and places are ordered
\* by datablock first.
LEMMA PlaceFacts ==
  ASSUME NEW b \in Nat, b >= 1, NEW s \in SlotIds
  PROVE  /\ PlaceOf(b, s) \in Nat
         /\ BlockOf(PlaceOf(b, s)) = b /\ SlotOf(PlaceOf(b, s)) = s
<1>1. Slots \in Nat /\ Slots >= 1 /\ s \in Nat /\ s < Slots
  BY SlotsType DEF SlotIds
<1> HIDE DEF Slots
<1>2. (b - 1) * Slots \in Nat
  BY <1>1
<1>3. ((b - 1) * Slots + s) \div Slots = b - 1 /\ ((b - 1) * Slots + s) % Slots = s
  <2>1. b - 1 \in Nat
    OBVIOUS
  <2> QED BY <1>1, <2>1, Division
<1> QED BY <1>1, <1>2, <1>3 DEF PlaceOf, BlockOf, SlotOf

LEMMA PlaceSplit ==
  ASSUME NEW p \in Nat
  PROVE  /\ BlockOf(p) \in Nat /\ BlockOf(p) >= 1 /\ SlotOf(p) \in SlotIds
         /\ p = PlaceOf(BlockOf(p), SlotOf(p))
<1>1. Slots \in Nat /\ Slots >= 1
  BY SlotsType
<1> HIDE DEF Slots
<1>2. /\ p \div Slots \in Nat /\ p % Slots \in Nat /\ p % Slots < Slots
      /\ p = (p \div Slots) * Slots + (p % Slots)
  BY <1>1, Division
<1> QED BY <1>1, <1>2 DEF PlaceOf, BlockOf, SlotOf, SlotIds

LEMMA PlaceOrder ==
  ASSUME NEW b \in Nat, b >= 1, NEW s \in SlotIds, NEW d \in Nat, d >= 1, NEW t \in SlotIds
  PROVE  PlaceOf(b, s) < PlaceOf(d, t) <=> b < d \/ (b = d /\ s < t)
<1>1. Slots \in Nat /\ Slots >= 1 /\ s \in Nat /\ t \in Nat /\ s < Slots /\ t < Slots
  BY SlotsType DEF SlotIds
<1> HIDE DEF Slots
<1>2. \A m, n, k \in Nat : m < n => m * k + k <= n * k
  <2> SUFFICES ASSUME NEW m \in Nat, NEW n \in Nat, NEW k \in Nat, m < n
               PROVE  m * k + k <= n * k
    OBVIOUS
  <2>1. m * k + k = (m + 1) * k
    OBVIOUS
  <2>2. PICK j \in Nat : n = m + 1 + j
    <3>1. n - m - 1 \in Nat /\ n = m + 1 + (n - m - 1)
      OBVIOUS
    <3> QED BY <3>1
  <2>3. n * k = (m + 1) * k + j * k /\ j * k \in Nat
    BY <2>2
  <2> QED BY <2>1, <2>3
<1>3. (b - 1) * Slots \in Nat /\ (d - 1) * Slots \in Nat
  BY <1>1
<1>4. b < d => (b - 1) * Slots + Slots <= (d - 1) * Slots
  BY <1>1, <1>2
<1>5. d < b => (d - 1) * Slots + Slots <= (b - 1) * Slots
  BY <1>1, <1>2
<1> QED BY <1>1, <1>3, <1>4, <1>5 DEF PlaceOf

\* The places of n datablocks.
LEMMA PlaceBound ==
  ASSUME NEW n \in Nat, NEW p
  PROVE  p \in 0 .. n * Slots - 1 <=> p \in Nat /\ BlockOf(p) \in 1 .. n
<1>1. Slots \in Nat /\ Slots >= 1 /\ n * Slots \in Nat
  BY SlotsType
<1>2. 0 \in SlotIds
  BY <1>1 DEF SlotIds
<1>3. PlaceOf(n + 1, 0) = n * Slots
  BY <1>1 DEF PlaceOf
<1>4. ASSUME p \in Nat PROVE p < n * Slots <=> BlockOf(p) < n + 1
  <2>1. /\ BlockOf(p) \in Nat /\ BlockOf(p) >= 1 /\ SlotOf(p) \in SlotIds
        /\ p = PlaceOf(BlockOf(p), SlotOf(p))
    BY <1>4, PlaceSplit
  <2>2. PlaceOf(BlockOf(p), SlotOf(p)) < PlaceOf(n + 1, 0) <=>
          BlockOf(p) < n + 1 \/ (BlockOf(p) = n + 1 /\ SlotOf(p) < 0)
    BY <1>2, <2>1, PlaceOrder
  <2> QED BY <1>3, <2>1, <2>2 DEF SlotIds
<1>5. ASSUME p \in Nat PROVE BlockOf(p) \in Nat /\ BlockOf(p) >= 1
  BY <1>5, PlaceSplit
<1> QED BY <1>1, <1>4, <1>5

----------------------------------------------------------------------------
(* Places in order *)

\* The function e lists the n places of P, the first one first.
Lists(e, n, P) ==
  /\ n \in Nat
  /\ e \in [1 .. n -> P]
  /\ \A p \in P : \E k \in 1 .. n : e[k] = p
  /\ \A j, k \in 1 .. n : j < k => e[j] < e[k]

LEMMA ListedOnce ==
  ASSUME NEW P \in SUBSET Nat, NEW n, NEW e, Lists(e, n, P)
  PROVE  \A j, k \in 1 .. n : e[j] = e[k] => j = k
<1> SUFFICES ASSUME NEW j \in 1 .. n, NEW k \in 1 .. n, e[j] = e[k], j # k PROVE FALSE
  OBVIOUS
<1>1. e[j] \in Nat /\ n \in Nat
  BY DEF Lists
<1>2. j < k \/ k < j
  BY <1>1
<1> QED BY <1>1, <1>2 DEF Lists

\* The k-th place of a list has k places that are not behind it.
LEMMA ListedCount ==
  ASSUME NEW P \in SUBSET Nat, NEW n, NEW e, Lists(e, n, P), NEW k \in 1 .. n
  PROVE  Cardinality({q \in P : q <= e[k]}) = k
<1>1. n \in Nat /\ \A j \in 1 .. n : e[j] \in P /\ e[j] \in Nat
  BY DEF Lists
<1>2. \A i, j \in 1 .. n : e[i] <= e[j] <=> i <= j
  <2> SUFFICES ASSUME NEW i \in 1 .. n, NEW j \in 1 .. n PROVE e[i] <= e[j] <=> i <= j
    OBVIOUS
  <2>1. e[i] \in Nat /\ e[j] \in Nat /\ (i < j => e[i] < e[j]) /\ (j < i => e[j] < e[i])
    BY <1>1 DEF Lists
  <2> QED BY <1>1, <2>1
<1> DEFINE Q == {q \in P : q <= e[k]}
           g == [j \in 1 .. k |-> e[j]]
<1>3. \A j \in 1 .. k : j \in 1 .. n /\ e[j] \in Q
  BY <1>1, <1>2
<1>4. \A q \in Q : \E j \in 1 .. k : e[j] = q
  <2> SUFFICES ASSUME NEW q \in Q PROVE \E j \in 1 .. k : e[j] = q
    OBVIOUS
  <2>1. PICK j \in 1 .. n : e[j] = q
    BY DEF Lists
  <2>2. j <= k
    BY <1>2, <2>1
  <2> QED BY <1>1, <2>1, <2>2
<1>5. \A i, j \in 1 .. k : e[i] = e[j] => i = j
  BY <1>1, <1>2, <1>3
<1> HIDE DEF Q
<1>6. g \in Bijection(1 .. k, Q)
  BY <1>3, <1>4, <1>5 DEF Bijection, Injection, Surjection, IsInjective
<1>7. Cardinality(Q) = k
  BY <1>6, FS_CountingElements DEF ExistsBijection
<1> QED BY <1>7 DEF Q

\* Whoever lists the places counts them and finds the k-th.
LEMMA ListedNth ==
  ASSUME NEW P \in SUBSET Nat, NEW n, NEW e, Lists(e, n, P)
  PROVE  Cardinality(P) = n /\ \A k \in 1 .. n : Nth(P, k) = e[k]
<1>1. n \in Nat /\ \A k \in 1 .. n : e[k] \in P /\ e[k] \in Nat
  BY DEF Lists
<1>2. \A j, k \in 1 .. n : e[j] <= e[k] <=> j <= k
  <2> SUFFICES ASSUME NEW j \in 1 .. n, NEW k \in 1 .. n PROVE e[j] <= e[k] <=> j <= k
    OBVIOUS
  <2>1. e[j] \in Nat /\ e[k] \in Nat /\ (j < k => e[j] < e[k]) /\ (k < j => e[k] < e[j])
    BY <1>1 DEF Lists
  <2> QED BY <1>1, <2>1
<1>3. Cardinality(P) = n
  <2>1. \A j, k \in 1 .. n : e[j] = e[k] => j = k
    BY <1>1, <1>2
  <2>2. e \in Bijection(1 .. n, P)
    BY <2>1 DEF Lists, Bijection, Injection, Surjection, IsInjective
  <2> QED BY <1>1, <2>2, FS_CountingElements DEF ExistsBijection
<1>4. ASSUME NEW k \in 1 .. n PROVE Cardinality({q \in P : q <= e[k]}) = k
  BY ListedCount
<1>5. ASSUME NEW k \in 1 .. n PROVE Nth(P, k) = e[k]
  <2>1. \A p \in P : Cardinality({q \in P : q <= p}) = k => p = e[k]
    <3> SUFFICES ASSUME NEW p \in P, Cardinality({q \in P : q <= p}) = k PROVE p = e[k]
      OBVIOUS
    <3>1. PICK j \in 1 .. n : e[j] = p
      BY DEF Lists
    <3> QED BY <1>4, <3>1
  <2>2. e[k] \in P /\ Cardinality({q \in P : q <= e[k]}) = k
    BY <1>1, <1>4
  <2> QED BY <2>1, <2>2 DEF Nth
<1> QED BY <1>3, <1>4, <1>5

\* A place behind all others becomes the last one.
LEMMA ListedAppend ==
  ASSUME NEW P \in SUBSET Nat, NEW n, NEW e, Lists(e, n, P),
         NEW p \in Nat, \A q \in P : q < p
  PROVE  Lists([k \in 1 .. n + 1 |-> IF k <= n THEN e[k] ELSE p], n + 1, P \cup {p})
<1> DEFINE f == [k \in 1 .. n + 1 |-> IF k <= n THEN e[k] ELSE p]
<1>1. n \in Nat /\ \A k \in 1 .. n : e[k] \in P
  BY DEF Lists
<1>2. f \in [1 .. n + 1 -> P \cup {p}]
  BY <1>1
<1>3. \A q \in P \cup {p} : \E k \in 1 .. n + 1 : f[k] = q
  <2> SUFFICES ASSUME NEW q \in P \cup {p} PROVE \E k \in 1 .. n + 1 : f[k] = q
    OBVIOUS
  <2>1. CASE q \in P
    <3>1. PICK k \in 1 .. n : e[k] = q
      BY <2>1 DEF Lists
    <3> QED BY <1>1, <3>1
  <2>2. CASE q = p
    <3>1. n + 1 \in 1 .. n + 1 /\ f[n + 1] = p
      BY <1>1
    <3> QED BY <2>2, <3>1
  <2> QED BY <2>1, <2>2
<1>4. \A j, k \in 1 .. n + 1 : j < k => f[j] < f[k]
  <2> SUFFICES ASSUME NEW j \in 1 .. n + 1, NEW k \in 1 .. n + 1, j < k PROVE f[j] < f[k]
    OBVIOUS
  <2>1. CASE k <= n
    <3>1. j \in 1 .. n /\ k \in 1 .. n /\ e[j] < e[k]
      BY <1>1, <2>1 DEF Lists
    <3> QED BY <3>1
  <2>2. CASE k = n + 1
    <3>1. j \in 1 .. n
      BY <1>1, <2>2
    <3>2. e[j] \in P /\ e[j] < p
      BY <1>1, <3>1
    <3>3. f[j] = e[j]
      BY <1>1, <3>1
    <3>4. f[k] = p
      BY <1>1, <2>2
    <3> QED BY <3>2, <3>3, <3>4
  <2> QED BY <1>1, <2>1, <2>2
<1>5. n + 1 \in Nat
  BY <1>1
<1> HIDE DEF f
<1>6. Lists(f, n + 1, P \cup {p})
  BY <1>2, <1>3, <1>4, <1>5, Zenon DEF Lists
<1> QED BY <1>6 DEF f

\* The list goes on without the place that is removed.
LEMMA ListedRemove ==
  ASSUME NEW P \in SUBSET Nat, NEW n, NEW e, Lists(e, n, P), NEW i \in 1 .. n
  PROVE  Lists([k \in 1 .. n - 1 |-> IF k < i THEN e[k] ELSE e[k + 1]], n - 1, P \ {e[i]})
<1> DEFINE f == [k \in 1 .. n - 1 |-> IF k < i THEN e[k] ELSE e[k + 1]]
<1>0. n \in Nat /\ n - 1 \in Nat
  BY DEF Lists
<1>1. n \in Nat /\ n - 1 \in Nat /\ \A k \in 1 .. n : e[k] \in P /\ e[k] \in Nat
  BY <1>0 DEF Lists
<1>2. \A j, k \in 1 .. n : e[j] = e[k] => j = k
  BY ListedOnce
<1>3. f \in [1 .. n - 1 -> P \ {e[i]}]
  <2> SUFFICES ASSUME NEW k \in 1 .. n - 1 PROVE f[k] \in P \ {e[i]}
    OBVIOUS
  <2>1. CASE k < i
    <3>1. k \in 1 .. n /\ k # i /\ f[k] = e[k]
      BY <1>1, <2>1
    <3> QED BY <1>1, <1>2, <3>1
  <2>2. CASE ~(k < i)
    <3>1. k + 1 \in 1 .. n /\ k + 1 # i /\ f[k] = e[k + 1]
      BY <1>1, <2>2
    <3> QED BY <1>1, <1>2, <3>1
  <2> QED BY <2>1, <2>2
<1>4. \A q \in P \ {e[i]} : \E k \in 1 .. n - 1 : f[k] = q
  <2> SUFFICES ASSUME NEW q \in P, q # e[i] PROVE \E k \in 1 .. n - 1 : f[k] = q
    OBVIOUS
  <2>1. PICK k \in 1 .. n : e[k] = q
    BY DEF Lists
  <2>2. CASE k < i
    BY <1>1, <2>1, <2>2
  <2>3. CASE k > i
    <3>1. k - 1 \in 1 .. n - 1 /\ f[k - 1] = q
      BY <1>1, <2>1, <2>3
    <3> QED BY <3>1
  <2> QED BY <1>1, <2>1, <2>2, <2>3
<1>5. \A j, k \in 1 .. n - 1 : j < k => f[j] < f[k]
  BY <1>1 DEF Lists
<1> QED BY <1>1, <1>3, <1>4, <1>5 DEF Lists

\* A place may move as long as it passes no other.
LEMMA ListedMove ==
  ASSUME NEW P \in SUBSET Nat, NEW n, NEW e, Lists(e, n, P), NEW i \in 1 .. n,
         NEW p \in Nat, p <= e[i], \A q \in P : q < e[i] => q < p
  PROVE  Lists([e EXCEPT ![i] = p], n, (P \ {e[i]}) \cup {p})
<1> DEFINE f == [e EXCEPT ![i] = p]
<1>1. n \in Nat /\ \A k \in 1 .. n : e[k] \in P /\ e[k] \in Nat
  BY DEF Lists
<1>2. \A k \in 1 .. n : f[k] = IF k = i THEN p ELSE e[k]
  BY DEF Lists
<1>3. \A j, k \in 1 .. n : e[j] = e[k] => j = k
  BY ListedOnce
<1>4. f \in [1 .. n -> (P \ {e[i]}) \cup {p}]
  BY <1>1, <1>3 DEF Lists
<1>5. \A q \in (P \ {e[i]}) \cup {p} : \E k \in 1 .. n : f[k] = q
  <2> HIDE DEF f
  <2> QED BY <1>2 DEF Lists
<1>6. \A j, k \in 1 .. n : j < k => f[j] < f[k]
  <2> HIDE DEF f
  <2> SUFFICES ASSUME NEW j \in 1 .. n, NEW k \in 1 .. n, j < k PROVE f[j] < f[k]
    OBVIOUS
  <2>1. e[j] < e[k] /\ e[j] \in Nat /\ e[k] \in Nat /\ e[i] \in Nat
    BY <1>1 DEF Lists
  <2>2. CASE j = i
    BY <1>2, <2>1, <2>2
  <2>3. CASE k = i
    BY <1>1, <1>2, <2>1, <2>3
  <2>4. CASE j # i /\ k # i
    BY <1>2, <2>1, <2>4
  <2> QED BY <2>2, <2>3, <2>4
<1> HIDE DEF f
<1> QED BY <1>1, <1>4, <1>5, <1>6 DEF Lists, f

----------------------------------------------------------------------------
(* Rows *)

\* The live places of the datablocks bs.
PlacesIn(bs) == {p \in 0 .. Len(bs) * Slots - 1 : Live(bs[BlockOf(p)][SlotOf(p)])}

\* The row in a slot when the heap holds hp.
RowIn(hp, slot) ==
  [c \in Cols |-> IF c \in slot.nulls THEN Null
                  ELSE IF c \in VarCols THEN hp[slot.data[c]]
                  ELSE slot.data[c]]

LEMMA PlaceIn ==
  ASSUME NEW bs, Len(bs) \in Nat
  PROVE  /\ PlacesIn(bs) \in SUBSET Nat
         /\ \A p \in PlacesIn(bs) :
              /\ BlockOf(p) \in 1 .. Len(bs) /\ SlotOf(p) \in SlotIds
              /\ p = PlaceOf(BlockOf(p), SlotOf(p)) /\ Live(bs[BlockOf(p)][SlotOf(p)])
         /\ \A b \in 1 .. Len(bs), s \in SlotIds :
              Live(bs[b][s]) => PlaceOf(b, s) \in PlacesIn(bs)
<1>1. Len(bs) * Slots \in Nat
  BY SlotsType
<1>2. PlacesIn(bs) \in SUBSET Nat
  BY <1>1 DEF PlacesIn
<1>3. ASSUME NEW p \in PlacesIn(bs)
      PROVE  /\ BlockOf(p) \in 1 .. Len(bs) /\ SlotOf(p) \in SlotIds
             /\ p = PlaceOf(BlockOf(p), SlotOf(p)) /\ Live(bs[BlockOf(p)][SlotOf(p)])
  BY <1>2, PlaceBound, PlaceSplit DEF PlacesIn
<1>4. ASSUME NEW b \in 1 .. Len(bs), NEW s \in SlotIds, Live(bs[b][s])
      PROVE  PlaceOf(b, s) \in PlacesIn(bs)
  <2>1. /\ PlaceOf(b, s) \in Nat
        /\ BlockOf(PlaceOf(b, s)) = b /\ SlotOf(PlaceOf(b, s)) = s
    BY PlaceFacts
  <2>2. PlaceOf(b, s) \in 0 .. Len(bs) * Slots - 1
    BY <2>1, PlaceBound
  <2> QED BY <1>4, <2>1, <2>2 DEF PlacesIn
<1> QED BY <1>2, <1>3, <1>4

\* The rows of the table, by any list of its live places.
LEMMA RowsListed ==
  /\ \A e, n : Len(blocks) \in Nat /\ Lists(e, n, PlacesIn(blocks)) =>
       LiveRows = [k \in 1 .. n |-> RowIn(heap, blocks[BlockOf(e[k])][SlotOf(e[k])])]
  /\ \A e, n : Len(blocks') \in Nat /\ Lists(e, n, PlacesIn(blocks')) =>
       LiveRows' = [k \in 1 .. n |-> RowIn(heap', blocks'[BlockOf(e[k])][SlotOf(e[k])])]
<1>1. ASSUME NEW e, NEW n, Len(blocks) \in Nat, Lists(e, n, PlacesIn(blocks))
      PROVE  LiveRows = [k \in 1 .. n |-> RowIn(heap, blocks[BlockOf(e[k])][SlotOf(e[k])])]
  <2>0. PlacesIn(blocks) \in SUBSET Nat
    BY <1>1, PlaceIn
  <2>1. Cardinality(PlacesIn(blocks)) = n /\ \A k \in 1 .. n : Nth(PlacesIn(blocks), k) = e[k]
    BY <1>1, <2>0, ListedNth
  <2>2. LivePlaces = PlacesIn(blocks)
    BY DEF LivePlaces, PlacesIn, SlotAtPlace
  <2> QED BY <2>1, <2>2 DEF LiveRows, RowIn, Content, SlotAtPlace
<1>2. ASSUME NEW e, NEW n, Len(blocks') \in Nat, Lists(e, n, PlacesIn(blocks'))
      PROVE  LiveRows' = [k \in 1 .. n |-> RowIn(heap', blocks'[BlockOf(e[k])][SlotOf(e[k])])]
  <2>0. PlacesIn(blocks') \in SUBSET Nat
    BY <1>2, PlaceIn
  <2>1. Cardinality(PlacesIn(blocks')) = n /\ \A k \in 1 .. n : Nth(PlacesIn(blocks'), k) = e[k]
    BY <1>2, <2>0, ListedNth
  <2>2. LivePlaces' = PlacesIn(blocks')
    BY DEF LivePlaces, PlacesIn, SlotAtPlace
  <2> QED BY <2>1, <2>2 DEF LiveRows, RowIn, Content, SlotAtPlace
<1> QED BY <1>1, <1>2

\* Every slot that holds a row has its own cell for each VARCHAR column.
CellsGiven ==
  \A b \in 1 .. Len(blocks), s \in SlotIds : ~blocks[b][s].empty =>
    /\ \A c \in VarCols : blocks[b][s].data[c] \in Cells
    /\ \A c, d \in VarCols : blocks[b][s].data[c] = blocks[b][s].data[d] => c = d

\* The live places can be listed; that they can is all that is needed of their
\* being finitely many.
PlacesListed == \E n, e : Lists(e, n, PlacesIn(blocks))

StoreInv == TableInv /\ HeapInv /\ LoopInv /\ CellsGiven /\ PlacesListed

\* The row that was written is the row that is read, and the heap cells of
\* others may change.
LEMMA RowWritten ==
  ASSUME NEW row \in Inputs, NEW ptr \in [VarCols -> Cells],
         \A c, d \in VarCols : ptr[c] = ptr[d] => c = d
  PROVE  RowIn(Written(row, ptr), Filled(row, ptr)) = row
<1>1. row \in [Cols -> Vals \cup {Null}]
  BY SchemaAssumption
<1>2. ASSUME NEW c \in VarCols PROVE Written(row, ptr)[ptr[c]] = Bytes(row, c)
  <2>1. (CHOOSE d \in VarCols : ptr[d] = ptr[c]) = c
    OBVIOUS
  <2> QED BY <2>1 DEF Written
<1>3. ASSUME NEW c \in Cols PROVE RowIn(Written(row, ptr), Filled(row, ptr))[c] = row[c]
  <2>1. CASE row[c] = Null
    BY <2>1 DEF RowIn, Filled, NullsOf
  <2>2. CASE row[c] # Null /\ c \in VarCols
    BY <1>2, <2>2 DEF RowIn, Filled, NullsOf, Bytes
  <2>3. CASE row[c] # Null /\ c \notin VarCols
    BY <2>3 DEF RowIn, Filled, NullsOf, Bytes
  <2> QED BY <2>1, <2>2, <2>3
<1> DEFINE r == RowIn(Written(row, ptr), Filled(row, ptr))
<1>4. r = [c \in Cols |-> r[c]]
  BY DEF RowIn
<1> HIDE DEF r
<1>5. row = [c \in Cols |-> row[c]]
  BY <1>1
<1> QED BY <1>3, <1>4, <1>5 DEF r

LEMMA RowKept ==
  ASSUME NEW slot, NEW hp, NEW hq, \A c \in VarCols : hp[slot.data[c]] = hq[slot.data[c]]
  PROVE  RowIn(hp, slot) = RowIn(hq, slot)
BY DEF RowIn

\* The cells of a slot that holds a row.
LEMMA RowCells ==
  ASSUME TableInv, CellsGiven, NEW b \in 1 .. Len(blocks), NEW s \in SlotIds,
         ~blocks[b][s].empty, NEW c \in VarCols
  PROVE  blocks[b][s].data[c] \in Cells /\ blocks[b][s].data[c] \in CellsOf(blocks[b][s])
BY ValueAssumption DEF CellsGiven, CellsOf

----------------------------------------------------------------------------
(* The steps that keep the rows *)

\* A new list of the places that leads to the same rows.
LEMMA SameRows ==
  ASSUME NEW e, NEW f, NEW n, Len(blocks) \in Nat, Len(blocks') \in Nat,
         Lists(e, n, PlacesIn(blocks)), Lists(f, n, PlacesIn(blocks')),
         \A k \in 1 .. n : RowIn(heap', blocks'[BlockOf(f[k])][SlotOf(f[k])]) =
                           RowIn(heap, blocks[BlockOf(e[k])][SlotOf(e[k])])
  PROVE  PlacesListed' /\ LiveRows' = LiveRows
<1>1. PlacesListed'
  BY DEF PlacesListed
<1>2. LiveRows = [k \in 1 .. n |-> RowIn(heap, blocks[BlockOf(e[k])][SlotOf(e[k])])]
  BY RowsListed
<1>3. LiveRows' = [k \in 1 .. n |-> RowIn(heap', blocks'[BlockOf(f[k])][SlotOf(f[k])])]
  BY RowsListed
<1> QED BY <1>1, <1>2, <1>3

\* A step that leaves the datablocks and the heap alone.
LEMMA QuietRows ==
  ASSUME StoreInv, UNCHANGED <<blocks, heap>>
  PROVE  CellsGiven' /\ PlacesListed' /\ LiveRows' = LiveRows
<1>1. CellsGiven' /\ PlacesListed'
  BY DEF StoreInv, CellsGiven, PlacesListed
<1>2. LivePlaces' = LivePlaces
  BY DEF LivePlaces, SlotAtPlace
<1> QED BY <1>1, <1>2 DEF LiveRows, Content, SlotAtPlace

\* Moving a row to the destination passes no other row, and what is freed there
\* belongs to none.
LEMMA MoveRows ==
  ASSUME StoreInv, VacuumMove
  PROVE  CellsGiven' /\ PlacesListed' /\ LiveRows' = LiveRows
<1> DEFINE p == PlaceOf(vac.src, vac.i)
           d == PlaceOf(vac.dst, vac.dstOff)
<1>1. /\ vac.dst \in 1 .. Len(blocks) /\ vac.src \in 1 .. Len(blocks)
      /\ vac.dstOff \in SlotIds /\ vac.i \in SlotIds
      /\ vac.dst <= vac.src /\ (vac.dst = vac.src => vac.dstOff < vac.i)
      /\ Live(blocks[vac.src][vac.i]) /\ Len(blocks') = Len(blocks) /\ Len(blocks) \in Nat
      /\ \A b \in 1 .. Len(blocks), s \in SlotIds :
           blocks'[b][s] = IF b = vac.src /\ s = vac.i THEN BlankSlot
                           ELSE IF b = vac.dst /\ s = vac.dstOff THEN blocks[vac.src][vac.i]
                           ELSE blocks[b][s]
  BY MoveFacts DEF StoreInv, TableInv, TypeOK, Live
<1>2. heap' = Release(CellsOf(blocks[vac.dst][vac.dstOff])) /\ phase = "vacuum"
  BY DEF VacuumMove, AtLiveRow, Scanning
<1>3. BlankSlot.empty /\ ~Live(BlankSlot)
  BY DEF BlankSlot, Live
<1>4. ~(vac.dst = vac.src /\ vac.dstOff = vac.i)
  BY <1>1 DEF SlotIds
<1>5. ASSUME NEW b \in 1 .. Len(blocks), NEW s \in SlotIds, Live(blocks[b][s])
      PROVE  \/ b < vac.dst
             \/ b = vac.dst /\ s < vac.dstOff
             \/ b > vac.src
             \/ b = vac.src /\ s >= vac.i
  <2>1. b \in vac.dst .. Len(blocks) \/ b < vac.dst
    BY <1>1
  <2> QED BY <1>2, <1>5, <2>1 DEF StoreInv, LoopInv, RestUnread
<1>6. ~Live(blocks[vac.dst][vac.dstOff])
  BY <1>1, <1>5 DEF SlotIds
<1>7. CellsGiven'
  BY <1>1, <1>3 DEF StoreInv, CellsGiven, Live
<1>8. ASSUME NEW b \in 1 .. Len(blocks), NEW s \in SlotIds, Live(blocks[b][s])
      PROVE  RowIn(heap', blocks[b][s]) = RowIn(heap, blocks[b][s])
  <2>1. ASSUME NEW c \in VarCols PROVE heap'[blocks[b][s].data[c]] = heap[blocks[b][s].data[c]]
    <3>1. blocks[b][s].data[c] \in Cells /\ blocks[b][s].data[c] \in CellsOf(blocks[b][s])
      BY <1>8, RowCells DEF StoreInv, Live
    <3>2. ~(b = vac.dst /\ s = vac.dstOff)
      BY <1>6, <1>8
    <3>3. blocks[b][s].data[c] \notin CellsOf(blocks[vac.dst][vac.dstOff])
      BY <1>1, <3>1, <3>2 DEF StoreInv, HeapInv, OneOwner
    <3> QED BY <1>2, <3>1, <3>3 DEF Release
  <2> QED BY <2>1, RowKept
<1>9. PICK n, e : Lists(e, n, PlacesIn(blocks))
  BY DEF StoreInv, PlacesListed
<1> DEFINE P == PlacesIn(blocks)
<1>10. /\ P \in SUBSET Nat
       /\ \A q \in P : /\ BlockOf(q) \in 1 .. Len(blocks) /\ SlotOf(q) \in SlotIds
                       /\ q = PlaceOf(BlockOf(q), SlotOf(q))
                       /\ Live(blocks[BlockOf(q)][SlotOf(q)])
  BY <1>1, PlaceIn
<1>11. /\ p \in P /\ p \in Nat /\ BlockOf(p) = vac.src /\ SlotOf(p) = vac.i
       /\ d \in Nat /\ BlockOf(d) = vac.dst /\ SlotOf(d) = vac.dstOff
  <2>1. p \in P
    BY <1>1, PlaceIn
  <2>2. vac.src \in Nat /\ vac.src >= 1 /\ vac.dst \in Nat /\ vac.dst >= 1
    BY <1>1
  <2>3. p \in Nat /\ BlockOf(p) = vac.src /\ SlotOf(p) = vac.i
    BY <1>1, <2>2, PlaceFacts
  <2>4. d \in Nat /\ BlockOf(d) = vac.dst /\ SlotOf(d) = vac.dstOff
    BY <1>1, <2>2, PlaceFacts
  <2> QED BY <2>1, <2>3, <2>4
<1>12. d < p
  BY <1>1, <1>4, PlaceOrder
<1>13. ASSUME NEW q \in P, q < p PROVE q < d
  <2>1. /\ BlockOf(q) \in 1 .. Len(blocks) /\ SlotOf(q) \in SlotIds
        /\ q = PlaceOf(BlockOf(q), SlotOf(q)) /\ Live(blocks[BlockOf(q)][SlotOf(q)])
    BY <1>10
  <2> HIDE DEF P
  <2>2. BlockOf(q) < vac.src \/ (BlockOf(q) = vac.src /\ SlotOf(q) < vac.i)
    BY <1>1, <1>13, <2>1, PlaceOrder
  <2>3. BlockOf(q) < vac.dst \/ (BlockOf(q) = vac.dst /\ SlotOf(q) < vac.dstOff)
    BY <1>1, <1>5, <2>1, <2>2 DEF SlotIds
  <2> QED BY <1>1, <2>1, <2>3, PlaceOrder
<1> HIDE DEF p, d
<1>14. PlacesIn(blocks') = (P \ {p}) \cup {d}
  <2>1. ASSUME NEW q \in PlacesIn(blocks') PROVE q \in (P \ {p}) \cup {d}
    <3>1. /\ BlockOf(q) \in 1 .. Len(blocks) /\ SlotOf(q) \in SlotIds
          /\ q = PlaceOf(BlockOf(q), SlotOf(q)) /\ Live(blocks'[BlockOf(q)][SlotOf(q)])
      BY <1>1, PlaceIn
    <3>2. CASE BlockOf(q) = vac.dst /\ SlotOf(q) = vac.dstOff
      BY <3>1, <3>2 DEF d
    <3>3. CASE ~(BlockOf(q) = vac.dst /\ SlotOf(q) = vac.dstOff)
      <4>1. ~(BlockOf(q) = vac.src /\ SlotOf(q) = vac.i)
        BY <1>1, <1>3, <3>1
      <4>2. Live(blocks[BlockOf(q)][SlotOf(q)])
        BY <1>1, <3>1, <3>3, <4>1
      <4>3. q \in P /\ q # p
        BY <1>1, <1>11, <3>1, <4>1, <4>2, PlaceIn
      <4> QED BY <4>3
    <3> QED BY <3>2, <3>3
  <2>2. ASSUME NEW q \in P, q # p PROVE q \in PlacesIn(blocks')
    <3>1. /\ BlockOf(q) \in 1 .. Len(blocks) /\ SlotOf(q) \in SlotIds
          /\ q = PlaceOf(BlockOf(q), SlotOf(q)) /\ Live(blocks[BlockOf(q)][SlotOf(q)])
      BY <1>10
    <3>2. ~(BlockOf(q) = vac.src /\ SlotOf(q) = vac.i)
      BY <2>2, <3>1 DEF p
    <3>3. Live(blocks'[BlockOf(q)][SlotOf(q)])
      BY <1>1, <1>6, <3>1, <3>2
    <3> QED BY <1>1, <3>1, <3>3, PlaceIn
  <2>3. d \in PlacesIn(blocks')
    <3>1. Live(blocks'[vac.dst][vac.dstOff])
      BY <1>1, <1>4
    <3> QED BY <1>1, <3>1, PlaceIn DEF d
  <2> QED BY <2>1, <2>2, <2>3
<1> HIDE DEF P
<1>15. PICK i \in 1 .. n : e[i] = p
  BY <1>9, <1>11 DEF Lists, P
<1> DEFINE f == [e EXCEPT ![i] = d]
<1>16. Lists(f, n, PlacesIn(blocks'))
  <2>1. d <= e[i] /\ \A q \in P : q < e[i] => q < d
    BY <1>11, <1>12, <1>13, <1>15
  <2>2. P \in SUBSET Nat /\ Lists(e, n, P) /\ d \in Nat
    BY <1>9, <1>10, <1>11 DEF P
  <2>3. Lists(f, n, (P \ {e[i]}) \cup {d})
    BY <2>1, <2>2, ListedMove
  <2> QED BY <1>14, <1>15, <2>3
<1>17. ASSUME NEW k \in 1 .. n
       PROVE  RowIn(heap', blocks'[BlockOf(f[k])][SlotOf(f[k])]) =
              RowIn(heap, blocks[BlockOf(e[k])][SlotOf(e[k])])
  <2>1. e[k] \in P /\ (k # i => f[k] = e[k]) /\ (k = i => f[k] = d)
    BY <1>9 DEF Lists, P
  <2>2. /\ BlockOf(e[k]) \in 1 .. Len(blocks) /\ SlotOf(e[k]) \in SlotIds
        /\ Live(blocks[BlockOf(e[k])][SlotOf(e[k])])
        /\ e[k] = PlaceOf(BlockOf(e[k]), SlotOf(e[k]))
    BY <1>10, <2>1
  <2>3. RowIn(heap', blocks[BlockOf(e[k])][SlotOf(e[k])]) =
        RowIn(heap, blocks[BlockOf(e[k])][SlotOf(e[k])])
    BY <1>8, <2>2
  <2>4. blocks'[BlockOf(f[k])][SlotOf(f[k])] = blocks[BlockOf(e[k])][SlotOf(e[k])]
    <3>1. CASE k = i
      BY <1>1, <1>4, <1>11, <1>15, <2>1, <3>1
    <3>2. CASE k # i
      <4>1. e[k] # p
        BY <1>9, <1>10, <1>15, <3>2, ListedOnce DEF P
      <4>2. ~(BlockOf(e[k]) = vac.src /\ SlotOf(e[k]) = vac.i)
        BY <2>2, <4>1 DEF p
      <4>3. ~(BlockOf(e[k]) = vac.dst /\ SlotOf(e[k]) = vac.dstOff)
        BY <1>6, <2>2
      <4> QED BY <1>1, <2>1, <2>2, <3>2, <4>2, <4>3
    <3> QED BY <3>1, <3>2
  <2> QED BY <2>3, <2>4
<1> HIDE DEF f
<1> QED BY <1>1, <1>7, <1>9, <1>16, <1>17, SameRows

\* The end of a vacuum cuts off and frees only what is no row.
LEMMA FinishRows ==
  ASSUME StoreInv, VacuumFinish
  PROVE  CellsGiven' /\ PlacesListed' /\ LiveRows' = LiveRows
<1>1. /\ vac.dst \in 1 .. Len(blocks) /\ vac.dstOff \in 0 .. Slots /\ Len(blocks) \in Nat
      /\ Len(blocks') = vac.dst
      /\ \A b \in 1 .. vac.dst, s \in SlotIds :
           blocks'[b][s] = IF b = vac.dst /\ s >= vac.dstOff THEN BlankSlot
                                                           ELSE blocks[b][s]
  <2>1. TableInv /\ Len(blocks) \in Nat
    BY DEF StoreInv, TableInv, TypeOK
  <2> QED BY <2>1, FinishFacts
<1>2. heap' = Release(Leftover) /\ phase = "vacuum" /\ vac.src > Len(blocks)
  BY AllRead DEF VacuumFinish, StoreInv
<1>3. BlankSlot.empty /\ ~Live(BlankSlot)
  BY DEF BlankSlot, Live
<1>4. vac.src \in Nat /\ vac.dstOff \in Nat
  BY <1>1, SlotsType DEF StoreInv, TableInv, TypeOK
<1>5. ASSUME NEW b \in 1 .. Len(blocks), NEW s \in SlotIds, Live(blocks[b][s])
      PROVE  b \in 1 .. vac.dst /\ ~(b = vac.dst /\ s >= vac.dstOff)
  <2>1. b \in vac.dst .. Len(blocks) => b = vac.dst /\ s < vac.dstOff
    BY <1>2, <1>4, <1>5 DEF StoreInv, LoopInv, RestUnread
  <2> QED BY <1>1, <1>4, <2>1 DEF SlotIds
<1>6. CellsGiven'
  <2> SUFFICES ASSUME NEW b \in 1 .. Len(blocks'), NEW s \in SlotIds, ~blocks'[b][s].empty
               PROVE  /\ \A c \in VarCols : blocks'[b][s].data[c] \in Cells
                      /\ \A c, k \in VarCols :
                           blocks'[b][s].data[c] = blocks'[b][s].data[k] => c = k
    BY DEF CellsGiven
  <2>1. b \in 1 .. Len(blocks) /\ blocks'[b][s] = blocks[b][s]
    BY <1>1, <1>3
  <2> QED BY <2>1 DEF StoreInv, CellsGiven
<1>7. PlacesIn(blocks') = PlacesIn(blocks)
  <2>0. Len(blocks') \in Nat
    BY <1>1
  <2>1. ASSUME NEW q \in PlacesIn(blocks') PROVE q \in PlacesIn(blocks)
    <3>1. /\ BlockOf(q) \in 1 .. vac.dst /\ SlotOf(q) \in SlotIds
          /\ q = PlaceOf(BlockOf(q), SlotOf(q)) /\ Live(blocks'[BlockOf(q)][SlotOf(q)])
      BY <1>1, <2>0, PlaceIn
    <3>2. BlockOf(q) \in 1 .. Len(blocks) /\ Live(blocks[BlockOf(q)][SlotOf(q)])
      BY <1>1, <1>3, <3>1
    <3> QED BY <1>1, <3>1, <3>2, PlaceIn
  <2>2. ASSUME NEW q \in PlacesIn(blocks) PROVE q \in PlacesIn(blocks')
    <3>1. /\ BlockOf(q) \in 1 .. Len(blocks) /\ SlotOf(q) \in SlotIds
          /\ q = PlaceOf(BlockOf(q), SlotOf(q)) /\ Live(blocks[BlockOf(q)][SlotOf(q)])
      BY <1>1, PlaceIn
    <3>2. BlockOf(q) \in 1 .. vac.dst /\ ~(BlockOf(q) = vac.dst /\ SlotOf(q) >= vac.dstOff)
      BY <1>5, <3>1
    <3>3. blocks'[BlockOf(q)][SlotOf(q)] = blocks[BlockOf(q)][SlotOf(q)]
      BY <1>1, <3>1, <3>2
    <3> QED BY <1>1, <2>0, <3>1, <3>2, <3>3, PlaceIn
  <2> QED BY <2>1, <2>2
<1>8. ASSUME NEW b \in 1 .. Len(blocks), NEW s \in SlotIds, Live(blocks[b][s])
      PROVE  RowIn(heap', blocks[b][s]) = RowIn(heap, blocks[b][s])
  <2>1. ASSUME NEW c \in VarCols PROVE heap'[blocks[b][s].data[c]] = heap[blocks[b][s].data[c]]
    <3> DEFINE x == blocks[b][s].data[c]
    <3>1. x \in Cells /\ x \in CellsOf(blocks[b][s])
      BY <1>8, RowCells DEF StoreInv, Live
    <3> HIDE DEF x
    <3>2. b \in 1 .. vac.dst /\ ~(b = vac.dst /\ s >= vac.dstOff)
      BY <1>5, <1>8
    <3>3. \A t \in SlotIds : t >= vac.dstOff => x \notin CellsOf(blocks[vac.dst][t])
      BY <1>1, <3>1, <3>2 DEF StoreInv, HeapInv, OneOwner
    <3>4. ASSUME NEW k \in vac.dst + 1 .. Len(blocks), NEW t \in SlotIds
          PROVE  x \notin CellsOf(blocks[k][t])
      <4>1. k \in 1 .. Len(blocks) /\ k # b
        BY <1>1, <3>2
      <4> QED BY <3>1, <4>1 DEF StoreInv, HeapInv, OneOwner
    <3>5. x \notin Leftover
      BY <3>3, <3>4 DEF Leftover, CellsOfBlock
    <3>6. heap'[x] = heap[x]
      BY <1>2, <3>1, <3>5 DEF Release
    <3> QED BY <3>6 DEF x
  <2> QED BY <2>1, RowKept
<1>9. PICK n, e : Lists(e, n, PlacesIn(blocks))
  BY DEF StoreInv, PlacesListed
<1>10. ASSUME NEW k \in 1 .. n
       PROVE  RowIn(heap', blocks'[BlockOf(e[k])][SlotOf(e[k])]) =
              RowIn(heap, blocks[BlockOf(e[k])][SlotOf(e[k])])
  <2>1. e[k] \in PlacesIn(blocks)
    BY <1>9 DEF Lists
  <2>2. /\ BlockOf(e[k]) \in 1 .. Len(blocks) /\ SlotOf(e[k]) \in SlotIds
        /\ Live(blocks[BlockOf(e[k])][SlotOf(e[k])])
    BY <1>1, <2>1, PlaceIn
  <2>3. blocks'[BlockOf(e[k])][SlotOf(e[k])] = blocks[BlockOf(e[k])][SlotOf(e[k])]
    BY <1>1, <1>5, <2>2
  <2> QED BY <1>8, <2>2, <2>3
<1> QED BY <1>1, <1>6, <1>7, <1>9, <1>10, SameRows

----------------------------------------------------------------------------
(* What the operations of RowStore return, position by position *)

LEMMA Appended ==
  ASSUME NEW S, NEW n \in Nat, NEW g \in [1 .. n -> S], NEW x \in S
  PROVE  Append(g, x) = [k \in 1 .. n + 1 |-> IF k <= n THEN g[k] ELSE x]
<1> DEFINE f == [k \in 1 .. n + 1 |-> IF k <= n THEN g[k] ELSE x]
<1>1. g \in Seq(S) /\ Len(g) = n
  BY DEF Seq
<1>2. f \in [1 .. n + 1 -> S]
  OBVIOUS
<1>3. f \in Seq(S) /\ Len(f) = n + 1
  BY <1>2
<1>4. /\ Append(g, x) \in Seq(S) /\ Len(Append(g, x)) = n + 1
      /\ \A k \in 1 .. n : Append(g, x)[k] = g[k]
      /\ Append(g, x)[n + 1] = x
  BY <1>1, AppendProperties
<1>5. \A k \in 1 .. n + 1 : Append(g, x)[k] = f[k]
  BY <1>4
<1> HIDE DEF f
<1>6. Append(g, x) = f
  BY <1>3, <1>4, <1>5, SeqEqual
<1> QED BY <1>6 DEF f

LEMMA Removed ==
  ASSUME NEW S, NEW n \in Nat, NEW g \in [1 .. n -> S], NEW i \in 1 .. n
  PROVE  RemoveAt(g, i) = [k \in 1 .. n - 1 |-> IF k < i THEN g[k] ELSE g[k + 1]]
<1> DEFINE f == [k \in 1 .. n - 1 |-> IF k < i THEN g[k] ELSE g[k + 1]]
           l == SubSeq(g, 1, i - 1)
           r == SubSeq(g, i + 1, n)
<1>1. g \in Seq(S) /\ Len(g) = n /\ \A k \in 1 .. n : g[k] \in S
  BY DEF Seq
<1>2. f \in [1 .. n - 1 -> S]
  BY <1>1
<1>3. f \in Seq(S) /\ Len(f) = n - 1
  BY <1>2
<1>4. l \in Seq(S) /\ Len(l) = i - 1 /\ \A k \in 1 .. i - 1 : l[k] = g[k]
  <2>1. \A k \in 1 .. i - 1 : g[k] \in S
    BY <1>1
  <2>2. /\ l \in Seq(S) /\ Len(l) = IF 1 <= i - 1 THEN (i - 1) - 1 + 1 ELSE 0
        /\ \A k \in 1 .. (i - 1) - 1 + 1 : l[k] = g[1 + k - 1]
    BY <2>1, SubSeqProperties
  <2> HIDE DEF l
  <2> QED BY <2>2
<1>5. r \in Seq(S) /\ Len(r) = n - i /\ \A k \in 1 .. n - i : r[k] = g[k + i]
  <2>1. \A k \in i + 1 .. n : g[k] \in S
    BY <1>1
  <2>2. /\ r \in Seq(S) /\ Len(r) = IF i + 1 <= n THEN n - (i + 1) + 1 ELSE 0
        /\ \A k \in 1 .. n - (i + 1) + 1 : r[k] = g[(i + 1) + k - 1]
    BY <2>1, SubSeqProperties
  <2> HIDE DEF r
  <2> QED BY <2>2
<1> HIDE DEF l, r
<1>6. /\ l \o r \in Seq(S) /\ Len(l \o r) = n - 1
      /\ \A k \in 1 .. n - 1 : (l \o r)[k] = IF k <= i - 1 THEN l[k] ELSE r[k - (i - 1)]
  BY <1>4, <1>5, ConcatProperties
<1>7. \A k \in 1 .. n - 1 : (l \o r)[k] = f[k]
  <2> SUFFICES ASSUME NEW k \in 1 .. n - 1 PROVE (l \o r)[k] = f[k]
    OBVIOUS
  <2>1. CASE k < i
    BY <1>4, <1>6, <2>1
  <2>2. CASE ~(k < i)
    <3>1. k - (i - 1) \in 1 .. n - i /\ (k - (i - 1)) + i = k + 1
      BY <2>2
    <3>2. r[k - (i - 1)] = g[k + 1]
      BY <1>5, <3>1
    <3> QED BY <1>6, <2>2, <3>2
  <2> QED BY <2>1, <2>2
<1> HIDE DEF f
<1>8. l \o r = f
  BY <1>3, <1>6, <1>7, SeqEqual
<1> QED BY <1>1, <1>8 DEF RemoveAt, f, l, r

----------------------------------------------------------------------------
(* The steps that change the rows *)

\* The slots that an insertion works on are those of the table, and blank ones.
LEMMA TargetSlots ==
  ASSUME TableInv
  PROVE  /\ Len(blocks) \in Nat /\ Len(Target.blocks) \in Nat
         /\ 1 <= Len(Target.blocks) /\ Len(blocks) <= Len(Target.blocks)
         /\ Target.at \in SlotIds
         /\ \A b \in 1 .. Len(Target.blocks), s \in SlotIds :
              Target.blocks[b][s] = IF b <= Len(blocks) THEN blocks[b][s] ELSE BlankSlot
         /\ \A s \in SlotIds :
              s >= Target.at => Target.blocks[Len(Target.blocks)][s].empty
<1>1. blocks \in Seq(Block) /\ Len(blocks) \in Nat
  BY DEF TableInv, TypeOK, Block
<1>2. /\ Len(Target.blocks) \in Nat /\ 1 <= Len(Target.blocks) /\ Target.at \in SlotIds
      /\ \A s \in SlotIds :
           s >= Target.at => Target.blocks[Len(Target.blocks)][s].empty
  BY TargetFacts DEF TableInv
<1>3. CASE NeedsBlock
  <2>1. Target.blocks = Append(blocks, BlankBlock)
    BY <1>3 DEF Target
  <2>2. /\ Len(Append(blocks, BlankBlock)) = Len(blocks) + 1
        /\ \A i \in 1 .. Len(blocks) : Append(blocks, BlankBlock)[i] = blocks[i]
        /\ Append(blocks, BlankBlock)[Len(blocks) + 1] = BlankBlock
    BY <1>1, BlankType, AppendProperties
  <2>3. ASSUME NEW b \in 1 .. Len(Target.blocks), NEW s \in SlotIds
        PROVE  Target.blocks[b][s] = IF b <= Len(blocks) THEN blocks[b][s] ELSE BlankSlot
    <3>1. CASE b <= Len(blocks)
      BY <1>1, <2>1, <2>2, <3>1
    <3>2. CASE b > Len(blocks)
      <4>1. Target.blocks[b] = BlankBlock
        BY <1>1, <2>1, <2>2, <3>2
      <4> QED BY <1>1, <3>2, <4>1 DEF BlankBlock
    <3> QED BY <1>1, <3>1, <3>2
  <2>4. Len(blocks) <= Len(Target.blocks)
    BY <1>1, <2>1, <2>2
  <2> QED BY <1>1, <1>2, <2>3, <2>4
<1>4. CASE ~NeedsBlock
  <2>1. Target.blocks = blocks
    BY <1>4 DEF Target
  <2> QED BY <1>1, <1>2, <2>1
<1> QED BY <1>3, <1>4

\* An insertion writes behind every row of the table, into cells of nobody.
LEMMA InsertRows ==
  ASSUME StoreInv, NEW row \in Inputs, InsertRow(row)
  PROVE  CellsGiven' /\ PlacesListed' /\ LiveRows' = Append(LiveRows, row)
<1>0. TableInv
  BY DEF StoreInv
<1>1. PICK ptr \in Grants :
           /\ ptr \in [VarCols -> Cells]
           /\ heap' = Written(row, ptr)
           /\ Len(blocks') = Len(Target.blocks)
           /\ \A d \in 1 .. Len(blocks'), t \in SlotIds :
                blocks'[d][t] = IF d = Len(blocks') /\ t = Target.at
                                THEN Filled(row, ptr) ELSE Target.blocks[d][t]
  BY <1>0, InsertFacts
<1> DEFINE last == Len(blocks')
           at == Target.at
           d == PlaceOf(last, at)
           new == Filled(row, ptr)
<1>2. /\ Len(blocks) \in Nat /\ last \in Nat /\ last \in 1 .. last /\ last >= 1
      /\ Len(blocks) <= last /\ at \in SlotIds
      /\ \A b \in 1 .. last, s \in SlotIds :
           blocks'[b][s] = IF b = last /\ s = at THEN new
                           ELSE IF b <= Len(blocks) THEN blocks[b][s] ELSE BlankSlot
      /\ \A s \in SlotIds : s >= at /\ last <= Len(blocks) => blocks[last][s].empty
  BY <1>0, <1>1, TargetSlots
<1>3. /\ Live(new) /\ ~new.empty
      /\ \A c \in VarCols : new.data[c] = ptr[c]
  BY SchemaAssumption DEF Filled, Live
<1>4. BlankSlot.empty /\ ~Live(BlankSlot)
  BY DEF BlankSlot, Live
<1>5. /\ \A c, k \in VarCols : ptr[c] = ptr[k] => c = k
      /\ \A c \in VarCols : heap[ptr[c]] = Unalloc
  BY DEF Grants, FreeCells
<1> HIDE DEF last, at, new
<1>6. CellsGiven'
  <2> SUFFICES ASSUME NEW b \in 1 .. Len(blocks'), NEW s \in SlotIds, ~blocks'[b][s].empty
               PROVE  /\ \A c \in VarCols : blocks'[b][s].data[c] \in Cells
                      /\ \A c, k \in VarCols :
                           blocks'[b][s].data[c] = blocks'[b][s].data[k] => c = k
    BY DEF CellsGiven
  <2>1. CASE b = last /\ s = at
    <3>1. blocks'[b][s] = new
      BY <1>2, <2>1 DEF last
    <3> QED BY <1>1, <1>3, <1>5, <3>1
  <2>2. CASE ~(b = last /\ s = at)
    <3>1. b \in 1 .. Len(blocks) /\ blocks'[b][s] = blocks[b][s]
      BY <1>2, <1>4, <2>2 DEF last
    <3> QED BY <3>1 DEF StoreInv, CellsGiven
  <2> QED BY <2>1, <2>2
<1>7. d \in Nat /\ BlockOf(d) = last /\ SlotOf(d) = at
  BY <1>2, PlaceFacts
<1> DEFINE P == PlacesIn(blocks)
<1>8. /\ P \in SUBSET Nat
      /\ \A q \in P : /\ BlockOf(q) \in 1 .. Len(blocks) /\ SlotOf(q) \in SlotIds
                      /\ q = PlaceOf(BlockOf(q), SlotOf(q))
                      /\ Live(blocks[BlockOf(q)][SlotOf(q)])
  BY <1>2, PlaceIn
<1>9. ASSUME NEW q \in P
      PROVE  /\ BlockOf(q) \in 1 .. last /\ ~(BlockOf(q) = last /\ SlotOf(q) = at)
             /\ blocks'[BlockOf(q)][SlotOf(q)] = blocks[BlockOf(q)][SlotOf(q)]
             /\ q < d
  <2>1. /\ BlockOf(q) \in 1 .. Len(blocks) /\ SlotOf(q) \in SlotIds
        /\ q = PlaceOf(BlockOf(q), SlotOf(q)) /\ ~blocks[BlockOf(q)][SlotOf(q)].empty
    BY <1>8 DEF Live
  <2> HIDE DEF P, d
  <2>2. BlockOf(q) \in 1 .. last /\ at \in Nat /\ SlotOf(q) \in Nat
    BY <1>2, <2>1 DEF SlotIds
  <2>3. BlockOf(q) < last \/ (BlockOf(q) = last /\ SlotOf(q) < at)
    BY <1>2, <2>1, <2>2
  <2>4. q < d
    BY <1>2, <2>1, <2>2, <2>3, PlaceOrder DEF d
  <2>5. ~(BlockOf(q) = last /\ SlotOf(q) = at)
    BY <2>2, <2>3
  <2>6. blocks'[BlockOf(q)][SlotOf(q)] = blocks[BlockOf(q)][SlotOf(q)]
    BY <1>2, <2>1, <2>2, <2>5
  <2> QED BY <2>2, <2>4, <2>5, <2>6
<1>10. PlacesIn(blocks') = P \cup {d}
  <2>1. ASSUME NEW q \in PlacesIn(blocks') PROVE q \in P \cup {d}
    <3>1. /\ BlockOf(q) \in 1 .. last /\ SlotOf(q) \in SlotIds
          /\ q = PlaceOf(BlockOf(q), SlotOf(q)) /\ Live(blocks'[BlockOf(q)][SlotOf(q)])
      BY <1>2, PlaceIn DEF last
    <3>2. CASE BlockOf(q) = last /\ SlotOf(q) = at
      BY <3>1, <3>2
    <3>3. CASE ~(BlockOf(q) = last /\ SlotOf(q) = at)
      <4>1. BlockOf(q) \in 1 .. Len(blocks) /\ Live(blocks[BlockOf(q)][SlotOf(q)])
        BY <1>2, <1>4, <3>1, <3>3
      <4> QED BY <1>2, <3>1, <4>1, PlaceIn
    <3> QED BY <3>2, <3>3
  <2>2. ASSUME NEW q \in P PROVE q \in PlacesIn(blocks')
    <3>1. /\ BlockOf(q) \in 1 .. Len(blocks') /\ SlotOf(q) \in SlotIds
          /\ q = PlaceOf(BlockOf(q), SlotOf(q)) /\ Live(blocks'[BlockOf(q)][SlotOf(q)])
      BY <1>8, <1>9 DEF last
    <3> QED BY <1>2, <3>1, PlaceIn DEF last
  <2>3. d \in PlacesIn(blocks')
    <3>1. Live(blocks'[last][at])
      BY <1>2, <1>3
    <3> QED BY <1>2, <3>1, PlaceIn DEF last
  <2> QED BY <2>1, <2>2, <2>3
<1>11. ASSUME NEW q \in P
       PROVE  RowIn(heap', blocks'[BlockOf(q)][SlotOf(q)]) =
              RowIn(heap, blocks[BlockOf(q)][SlotOf(q)])
  <2> DEFINE b == BlockOf(q)
             s == SlotOf(q)
  <2>1. b \in 1 .. Len(blocks) /\ s \in SlotIds /\ Live(blocks[b][s])
    BY <1>8
  <2>2. blocks'[b][s] = blocks[b][s]
    BY <1>9
  <2> HIDE DEF b, s
  <2>3. ASSUME NEW c \in VarCols PROVE heap'[blocks[b][s].data[c]] = heap[blocks[b][s].data[c]]
    <3>1. blocks[b][s].data[c] \in Cells /\ blocks[b][s].data[c] \in CellsOf(blocks[b][s])
      BY <1>0, <2>1, RowCells DEF StoreInv, Live
    <3>2. heap[blocks[b][s].data[c]] # Unalloc
      BY <2>1, <3>1 DEF StoreInv, HeapInv, Owned
    <3> QED BY <1>1, <1>5, <3>1, <3>2, WrittenCells
  <2>4. RowIn(heap', blocks[b][s]) = RowIn(heap, blocks[b][s])
    BY <2>3, RowKept
  <2> QED BY <2>2, <2>4 DEF b, s
<1>12. RowIn(heap', blocks'[BlockOf(d)][SlotOf(d)]) = row
  <2>1. blocks'[last][at] = new
    BY <1>2
  <2>2. RowIn(heap', new) = row
    BY <1>1, <1>5, RowWritten DEF new
  <2> QED BY <1>7, <2>1, <2>2
<1> HIDE DEF P, d
<1>13. PICK n, e : Lists(e, n, P)
  BY DEF StoreInv, PlacesListed, P
<1> DEFINE f == [k \in 1 .. n + 1 |-> IF k <= n THEN e[k] ELSE d]
<1>14. n \in Nat /\ \A k \in 1 .. n : e[k] \in P
  BY <1>13 DEF Lists
<1>15. Lists(f, n + 1, PlacesIn(blocks'))
  BY <1>7, <1>8, <1>9, <1>10, <1>13, ListedAppend
<1>16. LiveRows = [k \in 1 .. n |-> RowIn(heap, blocks[BlockOf(e[k])][SlotOf(e[k])])]
  BY <1>2, <1>13, RowsListed DEF P
<1>17. LiveRows' = [k \in 1 .. n + 1 |-> RowIn(heap', blocks'[BlockOf(f[k])][SlotOf(f[k])])]
  <2> HIDE DEF f
  <2> QED BY <1>2, <1>15, RowsListed DEF last
<1>18. LiveRows' = [k \in 1 .. n + 1 |-> IF k <= n THEN LiveRows[k] ELSE row]
  <2>1. ASSUME NEW k \in 1 .. n + 1
        PROVE  RowIn(heap', blocks'[BlockOf(f[k])][SlotOf(f[k])]) =
               IF k <= n THEN LiveRows[k] ELSE row
    <3>1. CASE k <= n
      <4>1. k \in 1 .. n /\ f[k] = e[k] /\ e[k] \in P
        BY <1>14, <3>1
      <4>2. LiveRows[k] = RowIn(heap, blocks[BlockOf(e[k])][SlotOf(e[k])])
        BY <1>16, <4>1
      <4> QED BY <1>11, <3>1, <4>1, <4>2
    <3>2. CASE ~(k <= n)
      BY <1>12, <3>2
    <3> QED BY <3>1, <3>2
  <2> HIDE DEF f
  <2> QED BY <1>17, <2>1
<1>19. Append(LiveRows, row) = [k \in 1 .. n + 1 |-> IF k <= n THEN LiveRows[k] ELSE row]
  <2> DEFINE S == {LiveRows[k] : k \in 1 .. n} \cup {row}
  <2>1. LiveRows \in [1 .. n -> S] /\ row \in S
    BY <1>16
  <2> HIDE DEF S
  <2> QED BY <1>14, <2>1, Appended
<1>20. PlacesListed'
  BY <1>15 DEF PlacesListed
<1> QED BY <1>6, <1>18, <1>19, <1>20

\* A deletion takes the row of its slot out of the rows.
LEMMA DeleteRows ==
  ASSUME StoreInv, NEW b \in 1 .. Len(blocks), NEW s \in SlotIds, DeleteRow(b, s)
  PROVE  /\ CellsGiven' /\ PlacesListed'
         /\ \E i \in 1 .. Len(LiveRows) : LiveRows' = RemoveAt(LiveRows, i)
<1> DEFINE slot == [blocks[b][s] EXCEPT !.deleted = TRUE]
           p == PlaceOf(b, s)
           P == PlacesIn(blocks)
<1>1. blocks \in Seq(Block) /\ blocks[b][s] \in Slot /\ Len(blocks) \in Nat
  BY DEF StoreInv, TableInv, TypeOK, Block
<1>2. /\ slot \in Slot /\ ~Live(slot) /\ slot.data = blocks[b][s].data
      /\ ~blocks[b][s].empty
  BY <1>1 DEF Slot, Live, DeleteRow, LiveAt
<1>3. Live(blocks[b][s]) /\ blocks' = SetSlot(blocks, b, s, slot) /\ heap' = heap
  BY DEF DeleteRow, LiveAt
<1> HIDE DEF slot
<1>4. /\ Len(blocks') = Len(blocks)
      /\ \A d \in 1 .. Len(blocks), t \in SlotIds :
           blocks'[d][t] = IF d = b /\ t = s THEN slot ELSE blocks[d][t]
  BY <1>1, <1>2, <1>3, SetSlotFacts
<1>5. CellsGiven'
  BY <1>2, <1>4 DEF StoreInv, CellsGiven
<1>6. /\ p \in P /\ P \in SUBSET Nat
      /\ \A q \in P : /\ BlockOf(q) \in 1 .. Len(blocks) /\ SlotOf(q) \in SlotIds
                      /\ q = PlaceOf(BlockOf(q), SlotOf(q))
                      /\ Live(blocks[BlockOf(q)][SlotOf(q)])
  BY <1>1, <1>3, PlaceIn
<1>7. BlockOf(p) = b /\ SlotOf(p) = s
  <2>1. b \in Nat /\ b >= 1
    BY <1>1
  <2> QED BY <2>1, PlaceFacts
<1>8. ASSUME NEW q \in P, q # p
      PROVE  blocks'[BlockOf(q)][SlotOf(q)] = blocks[BlockOf(q)][SlotOf(q)]
  <2>1. /\ BlockOf(q) \in 1 .. Len(blocks) /\ SlotOf(q) \in SlotIds
        /\ ~(BlockOf(q) = b /\ SlotOf(q) = s)
    BY <1>6, <1>8
  <2> QED BY <1>4, <2>1
<1>9. PlacesIn(blocks') = P \ {p}
  <2>1. ASSUME NEW q \in PlacesIn(blocks') PROVE q \in P /\ q # p
    <3>1. /\ BlockOf(q) \in 1 .. Len(blocks) /\ SlotOf(q) \in SlotIds
          /\ q = PlaceOf(BlockOf(q), SlotOf(q)) /\ Live(blocks'[BlockOf(q)][SlotOf(q)])
      BY <1>1, <1>4, PlaceIn
    <3>2. ~(BlockOf(q) = b /\ SlotOf(q) = s)
      BY <1>2, <1>4, <3>1
    <3>3. Live(blocks[BlockOf(q)][SlotOf(q)])
      BY <1>4, <3>1, <3>2
    <3> QED BY <1>1, <1>7, <3>1, <3>2, <3>3, PlaceIn
  <2>2. ASSUME NEW q \in P, q # p PROVE q \in PlacesIn(blocks')
    <3>1. /\ BlockOf(q) \in 1 .. Len(blocks') /\ SlotOf(q) \in SlotIds
          /\ q = PlaceOf(BlockOf(q), SlotOf(q)) /\ Live(blocks'[BlockOf(q)][SlotOf(q)])
      BY <1>4, <1>6, <1>8, <2>2
    <3> QED BY <1>1, <1>4, <3>1, PlaceIn
  <2> QED BY <2>1, <2>2
<1> HIDE DEF P, p
<1>10. PICK n, e : Lists(e, n, P)
  BY DEF StoreInv, PlacesListed, P
<1>11. n \in Nat /\ \A k \in 1 .. n : e[k] \in P
  BY <1>10 DEF Lists
<1>12. PICK i \in 1 .. n : e[i] = p
  BY <1>6, <1>10 DEF Lists
<1> DEFINE f == [k \in 1 .. n - 1 |-> IF k < i THEN e[k] ELSE e[k + 1]]
<1>13. Lists(f, n - 1, PlacesIn(blocks'))
  <2>1. Lists(f, n - 1, P \ {e[i]})
    BY <1>6, <1>10, ListedRemove
  <2> QED BY <1>9, <1>12, <2>1
<1>14. LiveRows = [k \in 1 .. n |-> RowIn(heap, blocks[BlockOf(e[k])][SlotOf(e[k])])]
  BY <1>1, <1>10, RowsListed DEF P
<1>15. LiveRows' =
         [k \in 1 .. n - 1 |-> RowIn(heap', blocks'[BlockOf(f[k])][SlotOf(f[k])])]
  <2> HIDE DEF f
  <2> QED BY <1>1, <1>4, <1>13, RowsListed
<1>16. LiveRows' = [k \in 1 .. n - 1 |-> IF k < i THEN LiveRows[k] ELSE LiveRows[k + 1]]
  <2>1. ASSUME NEW j \in 1 .. n, j # i
        PROVE  RowIn(heap', blocks'[BlockOf(e[j])][SlotOf(e[j])]) = LiveRows[j]
    <3>1. e[j] \in P /\ e[j] # p
      BY <1>6, <1>10, <1>11, <1>12, <2>1, ListedOnce
    <3> QED BY <1>3, <1>8, <1>14, <3>1
  <2>2. ASSUME NEW k \in 1 .. n - 1
        PROVE  RowIn(heap', blocks'[BlockOf(f[k])][SlotOf(f[k])]) =
               IF k < i THEN LiveRows[k] ELSE LiveRows[k + 1]
    <3>1. CASE k < i
      <4>1. k \in 1 .. n /\ k # i /\ f[k] = e[k]
        BY <1>11, <3>1
      <4> QED BY <2>1, <3>1, <4>1
    <3>2. CASE ~(k < i)
      <4>1. k + 1 \in 1 .. n /\ k + 1 # i /\ f[k] = e[k + 1]
        BY <1>11, <3>2
      <4> QED BY <2>1, <3>2, <4>1
    <3> QED BY <3>1, <3>2
  <2> HIDE DEF f
  <2> QED BY <1>15, <2>2
<1>17. RemoveAt(LiveRows, i) =
         [k \in 1 .. n - 1 |-> IF k < i THEN LiveRows[k] ELSE LiveRows[k + 1]]
  <2> DEFINE S == {LiveRows[k] : k \in 1 .. n}
  <2>1. LiveRows \in [1 .. n -> S]
    BY <1>14
  <2> HIDE DEF S
  <2> QED BY <1>11, <2>1, Removed
<1>18. Len(LiveRows) = n
  BY <1>11, <1>14
<1>19. PlacesListed'
  BY <1>13 DEF PlacesListed
<1> QED BY <1>5, <1>16, <1>17, <1>18, <1>19

\* An update writes the cells of its own row and of no other.
LEMMA UpdateRows ==
  ASSUME StoreInv, NEW b \in 1 .. Len(blocks), NEW s \in SlotIds, NEW row \in Inputs,
         UpdateRow(b, s, row)
  PROVE  /\ CellsGiven' /\ PlacesListed'
         /\ \E i \in 1 .. Len(LiveRows) : LiveRows' = ReplaceAt(LiveRows, i, row)
<1> DEFINE ptr == [c \in VarCols |-> blocks[b][s].data[c]]
           slot == Filled(row, ptr)
           p == PlaceOf(b, s)
           P == PlacesIn(blocks)
<1>1. blocks \in Seq(Block) /\ Len(blocks) \in Nat
  BY DEF StoreInv, TableInv, TypeOK, Block
<1>2. /\ Live(blocks[b][s]) /\ ~blocks[b][s].empty
      /\ blocks' = SetSlot(blocks, b, s, slot) /\ heap' = Written(row, ptr)
  BY DEF UpdateRow, LiveAt, Live
<1>3. /\ ptr \in [VarCols -> Cells]
      /\ \A c, k \in VarCols : ptr[c] = ptr[k] => c = k
      /\ \A c \in VarCols : ptr[c] \in CellsOf(blocks[b][s])
  BY <1>2, RowCells DEF StoreInv, CellsGiven
<1> HIDE DEF ptr
<1>4. /\ slot \in Slot /\ Live(slot) /\ ~slot.empty
      /\ \A c \in VarCols : slot.data[c] = ptr[c]
  BY <1>3, FilledType, SchemaAssumption DEF Filled, Live
<1>5. RowIn(heap', slot) = row
  BY <1>2, <1>3, RowWritten
<1> HIDE DEF slot
<1>6. /\ Len(blocks') = Len(blocks)
      /\ \A d \in 1 .. Len(blocks), t \in SlotIds :
           blocks'[d][t] = IF d = b /\ t = s THEN slot ELSE blocks[d][t]
  BY <1>1, <1>2, <1>4, SetSlotFacts
<1>7. CellsGiven'
  <2> SUFFICES ASSUME NEW d \in 1 .. Len(blocks'), NEW t \in SlotIds, ~blocks'[d][t].empty
               PROVE  /\ \A c \in VarCols : blocks'[d][t].data[c] \in Cells
                      /\ \A c, k \in VarCols :
                           blocks'[d][t].data[c] = blocks'[d][t].data[k] => c = k
    BY DEF CellsGiven
  <2>1. CASE d = b /\ t = s
    <3>1. blocks'[d][t] = slot
      BY <1>6, <2>1
    <3> QED BY <1>3, <1>4, <3>1
  <2>2. CASE ~(d = b /\ t = s)
    <3>1. blocks'[d][t] = blocks[d][t]
      BY <1>6, <2>2
    <3> QED BY <1>6, <3>1 DEF StoreInv, CellsGiven
  <2> QED BY <2>1, <2>2
<1>8. /\ p \in P /\ P \in SUBSET Nat
      /\ \A q \in P : /\ BlockOf(q) \in 1 .. Len(blocks) /\ SlotOf(q) \in SlotIds
                      /\ q = PlaceOf(BlockOf(q), SlotOf(q))
                      /\ Live(blocks[BlockOf(q)][SlotOf(q)])
  BY <1>1, <1>2, PlaceIn
<1>9. BlockOf(p) = b /\ SlotOf(p) = s
  <2>1. b \in Nat /\ b >= 1
    BY <1>1
  <2> QED BY <2>1, PlaceFacts
<1>10. PlacesIn(blocks') = P
  <2>1. ASSUME NEW q \in PlacesIn(blocks') PROVE q \in P
    <3>1. /\ BlockOf(q) \in 1 .. Len(blocks) /\ SlotOf(q) \in SlotIds
          /\ q = PlaceOf(BlockOf(q), SlotOf(q)) /\ Live(blocks'[BlockOf(q)][SlotOf(q)])
      BY <1>1, <1>6, PlaceIn
    <3>2. Live(blocks[BlockOf(q)][SlotOf(q)])
      BY <1>2, <1>6, <3>1
    <3> QED BY <1>1, <3>1, <3>2, PlaceIn
  <2>2. ASSUME NEW q \in P PROVE q \in PlacesIn(blocks')
    <3>1. /\ BlockOf(q) \in 1 .. Len(blocks') /\ SlotOf(q) \in SlotIds
          /\ q = PlaceOf(BlockOf(q), SlotOf(q)) /\ Live(blocks'[BlockOf(q)][SlotOf(q)])
      BY <1>4, <1>6, <1>8
    <3> QED BY <1>1, <1>6, <3>1, PlaceIn
  <2> QED BY <2>1, <2>2
<1>11. ASSUME NEW q \in P, q # p
       PROVE  RowIn(heap', blocks'[BlockOf(q)][SlotOf(q)]) =
              RowIn(heap, blocks[BlockOf(q)][SlotOf(q)])
  <2> DEFINE d == BlockOf(q)
             t == SlotOf(q)
  <2>1. /\ d \in 1 .. Len(blocks) /\ t \in SlotIds /\ Live(blocks[d][t])
        /\ ~(d = b /\ t = s)
    BY <1>8, <1>11
  <2> HIDE DEF d, t
  <2>2. blocks'[d][t] = blocks[d][t]
    BY <1>6, <2>1
  <2>3. ASSUME NEW c \in VarCols PROVE heap'[blocks[d][t].data[c]] = heap[blocks[d][t].data[c]]
    <3>1. blocks[d][t].data[c] \in Cells /\ blocks[d][t].data[c] \in CellsOf(blocks[d][t])
      BY <2>1, RowCells DEF StoreInv, Live
    <3>2. \A k \in VarCols : ptr[k] # blocks[d][t].data[c]
      BY <1>3, <2>1, <3>1 DEF StoreInv, HeapInv, OneOwner
    <3> QED BY <1>2, <1>3, <3>1, <3>2, WrittenCells
  <2>4. RowIn(heap', blocks[d][t]) = RowIn(heap, blocks[d][t])
    BY <2>3, RowKept
  <2> QED BY <2>2, <2>4 DEF d, t
<1>12. RowIn(heap', blocks'[BlockOf(p)][SlotOf(p)]) = row
  BY <1>5, <1>6, <1>9
<1> HIDE DEF P, p
<1>13. PICK n, e : Lists(e, n, P)
  BY DEF StoreInv, PlacesListed, P
<1>14. n \in Nat /\ \A k \in 1 .. n : e[k] \in P
  BY <1>13 DEF Lists
<1>15. PICK i \in 1 .. n : e[i] = p
  BY <1>8, <1>13 DEF Lists
<1>16. LiveRows = [k \in 1 .. n |-> RowIn(heap, blocks[BlockOf(e[k])][SlotOf(e[k])])]
  BY <1>1, <1>13, RowsListed DEF P
<1>17. LiveRows' = [k \in 1 .. n |-> RowIn(heap', blocks'[BlockOf(e[k])][SlotOf(e[k])])]
  BY <1>1, <1>6, <1>10, <1>13, RowsListed
<1>18. ASSUME NEW k \in 1 .. n PROVE LiveRows'[k] = IF k = i THEN row ELSE LiveRows[k]
  <2>1. CASE k = i
    BY <1>12, <1>15, <1>17, <2>1
  <2>2. CASE k # i
    <3>1. e[k] \in P /\ e[k] # p
      BY <1>8, <1>13, <1>14, <1>15, <2>2, ListedOnce
    <3> QED BY <1>11, <1>16, <1>17, <2>2, <3>1
  <2> QED BY <2>1, <2>2
<1>19. LiveRows' = ReplaceAt(LiveRows, i, row)
  <2> DEFINE g == ReplaceAt(LiveRows, i, row)
  <2>1. g = [k \in 1 .. n |-> IF k = i THEN row ELSE LiveRows[k]]
    BY <1>16 DEF ReplaceAt
  <2>2. LiveRows' = [k \in 1 .. n |-> LiveRows'[k]]
    BY <1>17
  <2> HIDE DEF g
  <2>3. LiveRows' = g
    BY <1>18, <2>1, <2>2
  <2> QED BY <2>3 DEF g
<1>20. Len(LiveRows) = n
  BY <1>14, <1>16
<1>21. PlacesListed'
  BY <1>10, <1>13 DEF PlacesListed
<1> QED BY <1>7, <1>19, <1>20, <1>21

\* A table without datablocks has no rows.
LEMMA NoRows ==
  /\ blocks = <<>> => CellsGiven /\ PlacesListed /\ LiveRows = <<>>
  /\ blocks' = <<>> => CellsGiven' /\ PlacesListed' /\ LiveRows' = <<>>
<1>1. Len(<<>>) = 0 /\ \A bs : Len(bs) = 0 => Len(bs) \in Nat /\ 1 .. Len(bs) = {}
  BY EmptySeq
<1>2. ASSUME NEW bs, Len(bs) = 0 PROVE Lists(<<>>, 0, PlacesIn(bs))
  <2>1. PlacesIn(bs) = {}
    BY <1>1, <1>2, PlaceIn
  <2>2. <<>> \in [1 .. 0 -> {}]
    OBVIOUS
  <2> QED BY <2>1, <2>2 DEF Lists
<1>3. ASSUME blocks = <<>> PROVE CellsGiven /\ PlacesListed /\ LiveRows = <<>>
  <2>1. Lists(<<>>, 0, PlacesIn(blocks)) /\ Len(blocks) = 0
    BY <1>1, <1>2, <1>3
  <2>2. LiveRows = [k \in 1 .. 0 |-> RowIn(heap, blocks[BlockOf(<<>>[k])][SlotOf(<<>>[k])])]
    BY <1>1, <2>1, RowsListed
  <2>3. LiveRows = <<>>
    BY <2>2
  <2> QED BY <1>1, <2>1, <2>3 DEF CellsGiven, PlacesListed
<1>4. ASSUME blocks' = <<>> PROVE CellsGiven' /\ PlacesListed' /\ LiveRows' = <<>>
  <2>1. Lists(<<>>, 0, PlacesIn(blocks')) /\ Len(blocks') = 0
    BY <1>1, <1>2, <1>4
  <2>2. LiveRows' =
          [k \in 1 .. 0 |-> RowIn(heap', blocks'[BlockOf(<<>>[k])][SlotOf(<<>>[k])])]
    BY <1>1, <2>1, RowsListed
  <2>3. LiveRows' = <<>>
    BY <2>2
  <2> QED BY <1>1, <2>1, <2>3 DEF CellsGiven, PlacesListed
<1> QED BY <1>3, <1>4

----------------------------------------------------------------------------
(* The refinement *)

\* A program that has just started is a store that is not open.
LEMMA InitStore == Init => StoreInv /\ Store!StoreInit
<1> SUFFICES ASSUME Init PROVE StoreInv /\ Store!StoreInit
  OBVIOUS
<1>1. TableInv /\ HeapInv
  BY InitInv, InitHeap
<1>2. blocks = <<>> /\ phase = "none"
  BY DEF Init
<1>3. CellsGiven /\ PlacesListed /\ LiveRows = <<>>
  BY <1>2, NoRows
<1>4. LoopInv
  BY <1>2 DEF LoopInv
<1> QED BY <1>1, <1>2, <1>3, <1>4 DEF StoreInv, Store!StoreInit

\* Every step of the table is one of the store or none: each operation is the
\* one it is named after, and an iteration of table_vacuum is none.
LEMMA StepStore ==
  ASSUME StoreInv, [Next]_vars
  PROVE  CellsGiven' /\ PlacesListed' /\ [Store!StoreNext]_(Store!storeVars)
<1> USE DEF Store!storeVars
<1>1. CASE TableInit
  <2>1. phase = "none" /\ phase' = "ready" /\ blocks' = <<>>
    BY <1>1 DEF TableInit
  <2>2. CellsGiven' /\ PlacesListed' /\ LiveRows' = <<>>
    BY <2>1, NoRows
  <2> QED BY <2>1, <2>2 DEF Store!StoreNext, Store!Open
<1>2. CASE TableDestroy
  <2>1. phase = "ready" /\ phase' = "none" /\ blocks' = <<>>
    BY <1>2 DEF TableDestroy
  <2>2. CellsGiven' /\ PlacesListed' /\ LiveRows' = <<>>
    BY <2>1, NoRows
  <2> QED BY <2>1, <2>2 DEF Store!StoreNext, Store!Close
<1>3. ASSUME NEW row \in Inputs, InsertRow(row)
      PROVE  CellsGiven' /\ PlacesListed' /\ Store!StoreNext
  <2>1. phase = "ready" /\ phase' = "ready"
    BY <1>3 DEF InsertRow
  <2>2. CellsGiven' /\ PlacesListed' /\ LiveRows' = Append(LiveRows, row)
    BY <1>3, InsertRows
  <2>3. Store!Changed(LiveRows, LiveRows')
    BY <2>2 DEF Store!Changed
  <2> QED BY <2>1, <2>2, <2>3 DEF Store!StoreNext, Store!Change
<1>4. ASSUME NEW b \in 1 .. Len(blocks), NEW s \in SlotIds, DeleteRow(b, s)
      PROVE  CellsGiven' /\ PlacesListed' /\ Store!StoreNext
  <2>1. phase = "ready" /\ phase' = "ready"
    BY <1>4 DEF DeleteRow
  <2>2. /\ CellsGiven' /\ PlacesListed'
        /\ \E i \in 1 .. Len(LiveRows) : LiveRows' = RemoveAt(LiveRows, i)
    BY <1>4, DeleteRows
  <2>3. Store!Changed(LiveRows, LiveRows')
    BY <2>2 DEF Store!Changed, Store!RemoveAt, RemoveAt
  <2> QED BY <2>1, <2>2, <2>3 DEF Store!StoreNext, Store!Change
<1>5. ASSUME NEW b \in 1 .. Len(blocks), NEW s \in SlotIds, NEW row \in Inputs,
             UpdateRow(b, s, row)
      PROVE  CellsGiven' /\ PlacesListed' /\ Store!StoreNext
  <2>1. phase = "ready" /\ phase' = "ready"
    BY <1>5 DEF UpdateRow
  <2>2. /\ CellsGiven' /\ PlacesListed'
        /\ \E i \in 1 .. Len(LiveRows) : LiveRows' = ReplaceAt(LiveRows, i, row)
    BY <1>5, UpdateRows
  <2>3. Store!Changed(LiveRows, LiveRows')
    BY <2>2 DEF Store!Changed, Store!ReplaceAt, ReplaceAt
  <2> QED BY <2>1, <2>2, <2>3 DEF Store!StoreNext, Store!Change
<1>6. ~InsertAborts
  BY InsertNeverAborts DEF StoreInv
<1>7. CASE VacuumStart
  <2>1. phase = "ready" /\ phase' = "vacuum" /\ UNCHANGED <<blocks, heap>>
    BY <1>7 DEF VacuumStart
  <2>2. CellsGiven' /\ PlacesListed' /\ LiveRows' = LiveRows
    BY <2>1, QuietRows
  <2> QED BY <2>1, <2>2 DEF Store!StoreNext, Store!Compaction
<1>8. CASE VacuumFinish
  <2>1. phase = "vacuum" /\ phase' = "ready"
    BY <1>8 DEF VacuumFinish, ScanDone
  <2>2. CellsGiven' /\ PlacesListed' /\ LiveRows' = LiveRows
    BY <1>8, FinishRows
  <2> QED BY <2>1, <2>2 DEF Store!StoreNext, Store!Compaction
<1>9. CASE VacuumMove
  <2>1. phase' = phase
    BY <1>9 DEF VacuumMove
  <2>2. CellsGiven' /\ PlacesListed' /\ LiveRows' = LiveRows
    BY <1>9, MoveRows
  <2> QED BY <2>1, <2>2
<1>10. CASE VacuumNextSource \/ VacuumSkip \/ VacuumKeep \/ VacuumNextDestination \/ UNCHANGED vars
  <2>1. phase' = phase /\ UNCHANGED <<blocks, heap>>
    BY <1>10 DEF VacuumNextSource, VacuumSkip, VacuumKeep, VacuumNextDestination, vars
  <2>2. CellsGiven' /\ PlacesListed' /\ LiveRows' = LiveRows
    BY <2>1, QuietRows
  <2> QED BY <2>1, <2>2
<1> QED
  BY <1>1, <1>2, <1>3, <1>4, <1>5, <1>6, <1>7, <1>8, <1>9, <1>10, Zenon
     DEF Next, Vacuuming

\* Every step keeps the invariant.
LEMMA NextStore == StoreInv /\ [Next]_vars => StoreInv'
BY StepStore, NextInv, NextHeap, NextLoop DEF StoreInv

\* What the statements of a session see of a table is a sequence of rows: an
\* INSERT adds its row at the end, a DELETE takes one row out and an UPDATE
\* replaces one where it is, whatever slots, datablocks and heap cells they
\* use; and table_vacuum, looked at after any of its iterations, has neither
\* lost, doubled, changed nor reordered a row.
THEOREM TableImplementsStore == Spec => ImplementsStore
<1>1. Spec => []StoreInv
  BY InitStore, NextStore, PTL DEF Spec
<1>2. StoreInv /\ [Next]_vars => [Store!StoreNext]_(Store!storeVars)
  BY StepStore
<1> QED BY <1>1, <1>2, InitStore, PTL DEF Spec, ImplementsStore, Store!StoreSpec

----------------------------------------------------------------------------
(* The cursor.                                                              *)
----------------------------------------------------------------------------

\* The datablock has no bytes behind its last slot.
WholePages == PageSize = Slots * RowSize

\* The slot that the client got its last row from.
OnRow ==
  /\ cursor.blk \in 1 .. Len(blocks) /\ cursor.slot \in SlotIds
  /\ Live(blocks[cursor.blk][cursor.slot])

\* The result set was compacted before the first step and stays so, and the
\* cursor is on a row that the client has got, never behind the last slot.
CursorInv ==
  /\ TableInv /\ LoopInv
  /\ reading \in {"building", "fresh", "row", "end"}
  /\ reading # "building" => Dense
  /\ cursor \in [blk : Nat, slot : Nat]
  /\ reading = "row" => OnRow

\* A slot with a row is followed by another one in its datablock: the strict
\* comparison of table_insert_row leaves the last slot empty.
LEMMA RowHasSuccessor ==
  ASSUME WholePages, NEW s \in SlotIds, Fits(s) PROVE s + 1 \in SlotIds
<1>1. PageSize \in Nat /\ RowSize \in Nat /\ RowSize > 0 /\ Slots \in Nat /\ s \in Nat
  BY SizeAssumption, SlotsType DEF SlotIds
<1>2. (s + 1) * RowSize < Slots * RowSize
  BY DEF WholePages, Fits
<1>3. ASSUME s + 1 >= Slots PROVE FALSE
  <2>1. \A m, n, r \in Nat : m >= n => m * r >= n * r
    OBVIOUS
  <2> QED BY <1>1, <1>2, <1>3, <2>1
<1> QED BY <1>1, <1>3 DEF SlotIds

\* Selecting the rows and compacting them.
LEMMA BuildingStep == ASSUME CursorInv, Building PROVE CursorInv'
<1>1. Next
  BY DEF Building, Next
<1>2. TableInv' /\ LoopInv'
  BY <1>1, NextInv, NextLoop DEF CursorInv
<1>3. reading' \in {"building", "fresh"} /\ cursor' = cursor
  BY DEF Building, CursorInv
<1>4. ASSUME reading' # "building" PROVE Dense'
  <2>1. phase = "vacuum" /\ phase' = "ready"
    BY <1>4 DEF Building
  <2> QED BY <1>1, <2>1, NextCompacts DEF CursorInv, vars
<1> QED BY <1>2, <1>3, <1>4 DEF CursorInv

LEMMA NextCursorType ==
  ASSUME CursorInv, reading \in {"fresh", "row"} PROVE NextCursor \in [blk : Nat, slot : Nat]
<1>1. cursor \in [blk : Nat, slot : Nat]
  BY DEF CursorInv
<1>2. [cursor EXCEPT !.slot = cursor.slot + 1] = [blk |-> cursor.blk, slot |-> cursor.slot + 1]
  BY <1>1
<1> QED BY <1>1, <1>2 DEF NextCursor

\* The slot at the cursor is one of the table.
LEMMA NextCursorOnPage ==
  ASSUME WholePages, CursorInv, reading \in {"fresh", "row"}, ~(NextCursor.blk > Len(blocks))
  PROVE  NextCursor.blk \in 1 .. Len(blocks) /\ NextCursor.slot \in SlotIds
<1>1. Len(blocks) \in Nat /\ 0 \in SlotIds
  BY SlotsType DEF CursorInv, TableInv, TypeOK, SlotIds
<1>2. CASE reading = "fresh"
  BY <1>1, <1>2 DEF NextCursor
<1>3. CASE reading = "row" /\ PageLeft
  <2>1. OnRow /\ NextCursor.blk = cursor.blk /\ NextCursor.slot = cursor.slot + 1
    <3>1. OnRow /\ NextCursor = [cursor EXCEPT !.slot = cursor.slot + 1]
      BY <1>3 DEF NextCursor, CursorInv
    <3>2. cursor \in [blk : Nat, slot : Nat]
      BY DEF CursorInv
    <3> QED BY <3>1, <3>2
  <2>2. Fits(cursor.slot)
    BY <2>1 DEF OnRow, Live, CursorInv, TableInv, SlotDiscipline
  <2> QED BY <2>1, <2>2, RowHasSuccessor DEF OnRow
<1>4. CASE reading = "row" /\ ~PageLeft
  <2>1. OnRow /\ NextCursor = [blk |-> cursor.blk + 1, slot |-> 0]
    BY <1>4 DEF NextCursor, CursorInv
  <2> QED BY <1>1, <2>1 DEF OnRow
<1> QED BY <1>2, <1>3, <1>4

LEMMA CurStepStep == ASSUME WholePages, CursorInv, CurStep PROVE CursorInv'
<1>1. TableInv' /\ LoopInv' /\ Dense' /\ blocks' = blocks
  BY DEF CurStep, vars, CursorInv, TableInv, TypeOK, SlotDiscipline, VacuumOrder, LoopInv,
         FullBefore, FullUpTo, RestUnread, NoLag, Dense
<1>2. cursor' \in [blk : Nat, slot : Nat]
  BY NextCursorType DEF CurStep
<1>3. CASE NextCursor.blk > Len(blocks)
  <2>1. reading' = "end"
    BY <1>3 DEF CurStep
  <2> QED BY <1>1, <1>2, <2>1 DEF CursorInv
<1>4. CASE ~(NextCursor.blk > Len(blocks))
  <2>1. NextCursor.blk \in 1 .. Len(blocks) /\ NextCursor.slot \in SlotIds
    BY <1>4, NextCursorOnPage DEF CurStep
  <2>2. ~blocks[NextCursor.blk][NextCursor.slot].deleted
    BY <2>1 DEF CurStep, CursorInv, Dense
  <2>3. /\ cursor' = NextCursor
        /\ \/ reading' = "end"
           \/ reading' = "row" /\ Live(blocks[NextCursor.blk][NextCursor.slot])
    BY <1>4, <2>1, <2>2 DEF CurStep, SlotsAt
  <2> QED BY <1>1, <1>2, <2>1, <2>3 DEF CursorInv, OnRow
<1> QED BY <1>3, <1>4

\* When the page is a multiple of the row, the BUG_ON of query_cur_step
\* (query.c:137) is out of reach: whatever was inserted into a result set and
\* deleted from it, and however many datablocks it has, the cursor meets no
\* deleted row and no byte that is not part of a slot.  Without WholePages it
\* is false: the bytes behind the last slot are read.
THEOREM CursorMeetsNoDeletedRow == WholePages /\ RSSpec => []NoDeletedAtCursor
<1> SUFFICES ASSUME WholePages PROVE RSSpec => []NoDeletedAtCursor
  OBVIOUS
<1>1. RSInit => CursorInv
  BY InitInv DEF RSInit, CursorInv, Init, LoopInv
<1>2. CursorInv /\ [RSNext]_rsVars => CursorInv'
  <2> SUFFICES ASSUME CursorInv, [RSNext]_rsVars PROVE CursorInv'
    OBVIOUS
  <2>1. CASE UNCHANGED rsVars
    BY <2>1 DEF rsVars, CursorInv, OnRow, TableInv, TypeOK, SlotDiscipline, VacuumOrder,
                LoopInv, FullBefore, FullUpTo, RestUnread, NoLag, Dense
  <2> QED BY <2>1, BuildingStep, CurStepStep DEF RSNext
<1>3. CursorInv => NoDeletedAtCursor
  BY DEF CursorInv, NoDeletedAtCursor
<1> QED BY <1>1, <1>2, <1>3, PTL DEF RSSpec

----------------------------------------------------------------------------
(* What the client has got *)

\* The cursor never leaves the first datablock as long as it is on a row, and
\* the m rows that the client has are those of its first m slots.
Got(m) ==
  /\ m \in 0 .. Slots
  /\ fetched = [k \in 1 .. m |-> RowIn(heap, blocks[1][k - 1])]
  /\ m > 0 => blocks # <<>> /\ \A s \in SlotIds : s < m => Live(blocks[1][s])
  /\ reading \in {"building", "fresh"} => m = 0
  /\ reading = "row" => m > 0 /\ cursor.blk = 1 /\ cursor.slot = m - 1

FetchInv == CursorInv /\ StoreInv /\ \E m \in 0 .. Slots : Got(m)

\* Where the next step of a client that has m rows looks.
LEMMA NextCursorPlace ==
  ASSUME WholePages, CursorInv, NEW m \in 0 .. Slots, Got(m), reading \in {"fresh", "row"}
  PROVE  NextCursor.blk = 1 /\ NextCursor.slot = m
<1>1. CASE reading = "fresh"
  BY <1>1 DEF NextCursor, Got
<1>2. CASE reading = "row"
  <2>1. /\ cursor \in [blk : Nat, slot : Nat] /\ cursor.blk = 1 /\ cursor.slot = m - 1
        /\ m \in Nat /\ m <= Slots
    BY <1>2, SlotsType DEF CursorInv, Got
  <2>2. PageLeft
    <3>1. (cursor.slot + 1) * RowSize = m * RowSize
      BY <2>1
    <3>2. \A k, l, r \in Nat : k <= l => k * r <= l * r
      OBVIOUS
    <3>3. m * RowSize <= Slots * RowSize
      BY <2>1, <3>2, SlotsType, SizeAssumption
    <3> QED BY <3>1, <3>3 DEF PageLeft, WholePages
  <2>3. NextCursor = [cursor EXCEPT !.slot = cursor.slot + 1]
    BY <1>2, <2>2 DEF NextCursor
  <2> QED BY <2>1, <2>3
<1> QED BY <1>1, <1>2

\* Nothing is got while the result set is built.
LEMMA BuildingFetch == ASSUME FetchInv, Building PROVE FetchInv'
<1>1. Next
  BY DEF Building, Next
<1>2. CursorInv' /\ StoreInv'
  BY <1>1, BuildingStep, NextStore DEF FetchInv
<1>3. fetched = <<>>
  <2>1. PICK m \in 0 .. Slots : Got(m)
    BY DEF FetchInv
  <2>2. m = 0
    BY <2>1 DEF Building, Got
  <2> QED BY <2>1, <2>2 DEF Got
<1>4. Got(0)'
  <2>1. fetched' = <<>> /\ reading' \in {"building", "fresh"}
    BY <1>3 DEF Building
  <2>2. <<>> = [k \in 1 .. 0 |-> RowIn(heap', blocks'[1][k - 1])]
    OBVIOUS
  <2> QED BY <2>1, <2>2, SlotsType DEF Got
<1> QED BY <1>2, <1>4, SlotsType DEF FetchInv

LEMMA CurStepFetch == ASSUME WholePages, FetchInv, CurStep PROVE FetchInv'
<1>1. CursorInv' /\ StoreInv'
  <2>1. UNCHANGED vars
    BY DEF CurStep
  <2> QED BY <2>1, CurStepStep, NextStore DEF FetchInv
<1>2. blocks' = blocks /\ heap' = heap /\ reading \in {"fresh", "row"}
  BY DEF CurStep, vars
<1>3. PICK m \in 0 .. Slots : Got(m)
  BY DEF FetchInv
<1>4. NextCursor.blk = 1 /\ NextCursor.slot = m
  BY <1>2, <1>3, NextCursorPlace DEF FetchInv
<1>5. CASE fetched' = fetched /\ reading' \notin {"building", "fresh", "row"}
  <2>1. Got(m)'
    BY <1>2, <1>3, <1>5 DEF Got
  <2> QED BY <1>1, <2>1 DEF FetchInv
<1>6. CASE ~(fetched' = fetched /\ reading' \notin {"building", "fresh", "row"})
  <2>1. ~(NextCursor.blk > Len(blocks))
    BY <1>6 DEF CurStep
  <2>2. 1 \in 1 .. Len(blocks) /\ m \in SlotIds
    BY <1>2, <1>4, <2>1, NextCursorOnPage DEF FetchInv
  <2>3. /\ Live(blocks[1][m]) /\ reading' = "row" /\ cursor' = NextCursor
        /\ fetched' = Append(fetched, RowIn(heap, blocks[1][m]))
    BY <1>4, <1>6, <2>1, <2>2 DEF CurStep, SlotsAt, RowAt, Content, RowIn
  <2>4. m \in Nat /\ m + 1 \in 0 .. Slots /\ blocks # <<>>
    <3>1. Len(<<>>) = 0
      OBVIOUS
    <3> QED BY <2>2, <3>1, SlotsType DEF SlotIds
  <2>5. fetched' = [k \in 1 .. m + 1 |-> RowIn(heap', blocks'[1][k - 1])]
    <3> DEFINE g == [k \in 1 .. m |-> RowIn(heap, blocks[1][k - 1])]
               x == RowIn(heap, blocks[1][m])
               S == {g[k] : k \in 1 .. m} \cup {x}
    <3>1. g \in [1 .. m -> S] /\ x \in S
      OBVIOUS
    <3>2. \A k \in 1 .. m : g[k] = RowIn(heap, blocks[1][k - 1])
      OBVIOUS
    <3>3. g = fetched
      BY <1>3 DEF Got
    <3> HIDE DEF g, S
    <3>4. Append(g, x) = [k \in 1 .. m + 1 |-> IF k <= m THEN g[k] ELSE x]
      BY <2>4, <3>1, Appended
    <3>5. ASSUME NEW k \in 1 .. m + 1
          PROVE  (IF k <= m THEN g[k] ELSE x) = RowIn(heap, blocks[1][k - 1])
      BY <2>4, <3>2
    <3> QED BY <1>2, <2>3, <3>3, <3>4, <3>5
  <2>6. ASSUME NEW s \in SlotIds, s < m + 1 PROVE Live(blocks[1][s])
    <3>1. s \in Nat
      BY DEF SlotIds
    <3>2. CASE s < m
      BY <1>3, <2>4, <3>1, <3>2 DEF Got
    <3>3. CASE s = m
      BY <2>3, <3>3
    <3> QED BY <2>4, <2>6, <3>1, <3>2, <3>3
  <2>7. cursor'.blk = 1 /\ cursor'.slot = (m + 1) - 1
    BY <1>4, <2>3, <2>4
  <2>8. Got(m + 1)'
    BY <1>2, <2>3, <2>4, <2>5, <2>6, <2>7 DEF Got
  <2> QED BY <1>1, <2>4, <2>8 DEF FetchInv
<1> QED BY <1>5, <1>6

\* The first slots of the first datablock hold the first rows of the table.
LEMMA GotPrefix ==
  ASSUME FetchInv PROVE IsPrefix(fetched, LiveRows)
<1>1. PICK m \in 0 .. Slots : Got(m)
  BY DEF FetchInv
<1>2. PICK n, e : Lists(e, n, PlacesIn(blocks))
  BY DEF FetchInv, StoreInv, PlacesListed
<1> DEFINE P == PlacesIn(blocks)
<1>3. Len(blocks) \in Nat /\ m \in Nat /\ m <= Slots /\ Slots \in Nat
  BY SlotsType DEF FetchInv, StoreInv, TableInv, TypeOK
<1>4. P \in SUBSET Nat
  BY <1>3, PlaceIn
<1>5. ASSUME NEW s \in 0 .. m - 1
      PROVE  s \in P /\ s \in Nat /\ BlockOf(s) = 1 /\ SlotOf(s) = s
  <2>1. s \in SlotIds /\ s \in Nat
    BY <1>3 DEF SlotIds
  <2>2. 1 \in 1 .. Len(blocks)
    <3>1. blocks # <<>>
      BY <1>1, <1>3 DEF Got
    <3> QED BY <1>3, <3>1 DEF FetchInv, StoreInv, TableInv, TypeOK
  <2>3. Live(blocks[1][s])
    BY <1>1, <1>3, <2>1 DEF Got
  <2>4. PlaceOf(1, s) = s
    BY <1>3, <2>1 DEF PlaceOf
  <2>5. PlaceOf(1, s) \in P
    BY <1>3, <2>1, <2>2, <2>3, PlaceIn
  <2> QED BY <2>1, <2>4, <2>5, PlaceFacts
<1> HIDE DEF P
<1>6. n \in Nat /\ \A k \in 1 .. n : Cardinality({q \in P : q <= e[k]}) = k
  <2>1. n \in Nat /\ Lists(e, n, P)
    BY <1>2 DEF Lists, P
  <2> QED BY <1>4, <2>1, ListedCount
<1>7. ASSUME NEW k \in 1 .. m PROVE k \in 1 .. n /\ e[k] = k - 1
  <2>1. k - 1 \in 0 .. m - 1 /\ k - 1 \in Nat
    BY <1>3
  <2>2. PICK j \in 1 .. n : e[j] = k - 1
    BY <1>2, <1>5, <2>1 DEF Lists, P
  <2>3. {q \in P : q <= k - 1} = 0 .. k - 1
    <3>1. ASSUME NEW q \in 0 .. k - 1 PROVE q \in P
      <4>1. q \in 0 .. m - 1
        BY <1>3, <2>1
      <4> QED BY <1>5, <4>1
    <3>2. ASSUME NEW q \in P, q <= k - 1 PROVE q \in 0 .. k - 1
      BY <1>4, <2>1, <3>2
    <3> QED BY <2>1, <3>1, <3>2
  <2>4. Cardinality(0 .. k - 1) = k
    BY <2>1, FS_Interval
  <2>5. j = k
    BY <1>6, <2>2, <2>3, <2>4
  <2> QED BY <2>2, <2>5
<1>8. LiveRows = [k \in 1 .. n |-> RowIn(heap, blocks[BlockOf(e[k])][SlotOf(e[k])])]
  BY <1>2, <1>3, RowsListed
<1>9. ASSUME NEW k \in 1 .. m PROVE k \in 1 .. n /\ LiveRows[k] = fetched[k]
  <2>1. k - 1 \in 0 .. m - 1 /\ k \in 1 .. n /\ e[k] = k - 1
    BY <1>3, <1>7
  <2>2. BlockOf(e[k]) = 1 /\ SlotOf(e[k]) = k - 1
    BY <1>5, <2>1
  <2>3. fetched[k] = RowIn(heap, blocks[1][k - 1])
    BY <1>1 DEF Got
  <2> QED BY <1>8, <2>1, <2>2, <2>3
<1>10. /\ LiveRows \in [1 .. n -> {LiveRows[k] : k \in 1 .. n}] /\ Len(LiveRows) = n
       /\ fetched \in [1 .. m -> {fetched[k] : k \in 1 .. m}] /\ Len(fetched) = m
  BY <1>1, <1>3, <1>6, <1>8 DEF Got
<1>11. m <= n
  <2>1. CASE m = 0
    BY <1>6, <2>1
  <2>2. CASE m > 0
    <3>1. m \in 1 .. m
      BY <1>3, <2>2
    <3> QED BY <1>6, <1>7, <3>1
  <2> QED BY <1>3, <2>1, <2>2
<1>12. SubSeq(fetched, 1, m) = SubSeq(LiveRows, 1, m)
  <2> DEFINE S == {LiveRows[k] : k \in 1 .. n}
             u == SubSeq(fetched, 1, m)
             v == SubSeq(LiveRows, 1, m)
  <2>1. \A k \in 1 .. m : fetched[k] \in S /\ LiveRows[k] \in S
    BY <1>9
  <2> HIDE DEF S
  <2>2. /\ u \in Seq(S) /\ Len(u) = IF 1 <= m THEN m - 1 + 1 ELSE 0
        /\ \A k \in 1 .. m - 1 + 1 : u[k] = fetched[1 + k - 1]
    BY <1>3, <2>1, SubSeqProperties
  <2>3. /\ v \in Seq(S) /\ Len(v) = IF 1 <= m THEN m - 1 + 1 ELSE 0
        /\ \A k \in 1 .. m - 1 + 1 : v[k] = LiveRows[1 + k - 1]
    BY <1>3, <2>1, SubSeqProperties
  <2> HIDE DEF u, v
  <2>4. \A k \in 1 .. m : u[k] = v[k]
    BY <1>3, <1>9, <2>2, <2>3
  <2>5. Len(u) = m /\ Len(v) = m
    BY <1>3, <2>2, <2>3
  <2>6. u = v
    BY <2>2, <2>3, <2>4, <2>5, SeqEqual
  <2> QED BY <2>6 DEF u, v
<1> QED BY <1>10, <1>11, <1>12 DEF IsPrefix

\* When the page is a multiple of the row, a client gets the rows of the result
\* set in the order of the table, none twice, none that was deleted and nothing
\* that is not a row, for every result set and every number of steps.
THEOREM RowsFetchedInOrder == WholePages /\ RSSpec => []FetchedInOrder
<1> SUFFICES ASSUME WholePages PROVE RSSpec => []FetchedInOrder
  OBVIOUS
<1>1. RSInit => FetchInv
  <2> SUFFICES ASSUME RSInit PROVE FetchInv
    OBVIOUS
  <2>1. CursorInv
    BY InitInv DEF RSInit, CursorInv, Init, LoopInv
  <2>2. StoreInv
    BY InitStore DEF RSInit
  <2>3. <<>> = [k \in 1 .. 0 |-> RowIn(heap, blocks[1][k - 1])]
    OBVIOUS
  <2>4. Got(0)
    BY <2>3, SlotsType DEF RSInit, Got
  <2> QED BY <2>1, <2>2, <2>4, SlotsType DEF FetchInv
<1>2. FetchInv /\ [RSNext]_rsVars => FetchInv'
  <2> SUFFICES ASSUME FetchInv, [RSNext]_rsVars PROVE FetchInv'
    OBVIOUS
  <2>1. CASE UNCHANGED rsVars
    <3>1. UNCHANGED vars
      BY <2>1 DEF rsVars, vars
    <3>2. StoreInv'
      BY <3>1, NextStore DEF FetchInv
    <3>3. CursorInv'
      BY <2>1 DEF FetchInv, rsVars, CursorInv, OnRow, TableInv, TypeOK, SlotDiscipline,
                  VacuumOrder, LoopInv, FullBefore, FullUpTo, RestUnread, NoLag, Dense
    <3> QED BY <2>1, <3>2, <3>3 DEF FetchInv, rsVars, Got
  <2> QED BY <2>1, BuildingFetch, CurStepFetch DEF RSNext
<1>3. FetchInv => FetchedInOrder
  BY GotPrefix DEF FetchedInOrder
<1> QED BY <1>1, <1>2, <1>3, PTL DEF RSSpec
============================================================================
