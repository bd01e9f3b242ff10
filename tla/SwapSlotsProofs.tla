-------------------------- MODULE SwapSlotsProofs --------------------------
(***************************************************************************)
(* swap_slots implements an atomic exchange, for every size of the slots,  *)
(* of the images, of a page and of the swap object, provided that a chunk  *)
(* is a whole number of pages and that no error is lost.                   *)
(***************************************************************************)
EXTENDS SwapSlots, TLAPS

----------------------------------------------------------------------------
(* Arithmetic of page boundaries. *)

LEMMA PageStartIsMultiple ==
  \A a \in Nat : IsPageStart(a) => \E q \in Nat : a = q * PageBlocks
BY LayoutAssumption DEF IsPageStart

LEMMA MultipleIsPageStart == \A q \in Nat : IsPageStart(q * PageBlocks)
BY LayoutAssumption DEF IsPageStart

LEMMA ZeroIsPageStart == IsPageStart(0)
BY LayoutAssumption DEF IsPageStart

LEMMA PageStartsAdd ==
  ASSUME NEW a \in Nat, NEW b \in Nat, IsPageStart(a), IsPageStart(b)
  PROVE  IsPageStart(a + b)
<1>1. PICK q \in Nat : a = q * PageBlocks
  BY PageStartIsMultiple
<1>2. PICK r \in Nat : b = r * PageBlocks
  BY PageStartIsMultiple
<1>3. a + b = (q + r) * PageBlocks /\ q + r \in Nat
  BY <1>1, <1>2, LayoutAssumption
<1> QED BY <1>3, MultipleIsPageStart

LEMMA NextPageStart ==
  ASSUME NEW a \in Nat, IsPageStart(a)
  PROVE  IsPageStart(a + PageBlocks)
<1>1. PICK q \in Nat : a = q * PageBlocks
  BY PageStartIsMultiple
<1>2. a + PageBlocks = (q + 1) * PageBlocks /\ q + 1 \in Nat
  BY <1>1, LayoutAssumption
<1> QED BY <1>2, MultipleIsPageStart

LEMMA MultiplesApart ==
  ASSUME NEW q \in Nat, NEW r \in Nat, q < r
  PROVE  q * PageBlocks + PageBlocks <= r * PageBlocks
<1>1. r - q - 1 \in Nat
  OBVIOUS
<1>2. (r - q - 1) * PageBlocks >= 0
  BY <1>1, LayoutAssumption
<1>3. (r - q - 1) * PageBlocks = r * PageBlocks - q * PageBlocks - PageBlocks
  BY LayoutAssumption
<1>4. r * PageBlocks \in Int /\ q * PageBlocks \in Int
  BY LayoutAssumption
<1> QED BY <1>2, <1>3, <1>4, LayoutAssumption

\* Two page boundaries are at least one page apart.
LEMMA PageStartsApart ==
  ASSUME NEW a \in Nat, NEW b \in Nat, IsPageStart(a), IsPageStart(b), a < b
  PROVE  a + PageBlocks <= b
<1>1. PICK q \in Nat : a = q * PageBlocks
  BY PageStartIsMultiple
<1>2. PICK r \in Nat : b = r * PageBlocks
  BY PageStartIsMultiple
<1>3. q < r
  <2> SUFFICES ASSUME r <= q PROVE FALSE
    OBVIOUS
  <2>1. CASE r = q
    BY <2>1, <1>1, <1>2
  <2>2. CASE r < q
    BY <2>2, <1>1, <1>2, MultiplesApart, LayoutAssumption
  <2> QED BY <2>1, <2>2
<1> QED BY <1>1, <1>2, <1>3, MultiplesApart

----------------------------------------------------------------------------
(* Flash operations. *)

LEMMA EraseTyped ==
  ASSUME NEW m \in Contents, NEW b \in Nat
  PROVE  /\ ErasePage(m, b) \in Contents
         /\ \A x \in Blocks : b <= x /\ x < b + PageBlocks
                                => ErasePage(m, b)[x] = Erased
         /\ \A x \in Blocks : ~(b <= x /\ x < b + PageBlocks)
                                => ErasePage(m, b)[x] = m[x]
BY DEF ErasePage, Contents, Cells

LEMMA ProgramTyped ==
  ASSUME NEW m \in Contents, NEW b \in Blocks, NEW c \in Cells
  PROVE  /\ ProgramBlock(m, b, c) \in Contents
         /\ m[b] = Erased => ProgramBlock(m, b, c)[b] = c
         /\ \A x \in Blocks \ {b} : ProgramBlock(m, b, c)[x] = m[x]
BY DEF ProgramBlock, Contents, Cells

----------------------------------------------------------------------------
(* One step of the swap. *)

\* The facts about the current chunk that every step needs.
LEMMA ChunkFacts ==
  ASSUME SwapInv, spc \in Phases
  PROVE  /\ offset \in Nat /\ full \in Nat /\ size \in Nat
         /\ Chunk \in 1 .. SwapBlocks /\ full < Chunk /\ offset + Chunk <= size
         /\ offset + full < SlotBlocks /\ full < SlotBlocks
         /\ Chunk < SwapBlocks => offset + Chunk = size
         /\ ReadObject \in Objects /\ WriteObject \in Objects
         /\ ReadObject # WriteObject
         /\ ReadBlock \in Blocks /\ WriteBlock \in Blocks
         /\ SWAP \notin Slots
<1>1. offset \in Nat /\ full \in Nat /\ size \in Nat /\ size <= SlotBlocks
      /\ offset < size /\ full < Chunk
  BY LayoutAssumption DEF SwapInv, InLoop, SwapTypeOK
<1>2. Chunk \in 1 .. SwapBlocks /\ offset + Chunk <= size
      /\ (Chunk < SwapBlocks => offset + Chunk = size)
  BY <1>1, LayoutAssumption DEF Chunk
<1>3. offset + full < SlotBlocks /\ full < SlotBlocks
  BY <1>1, <1>2, LayoutAssumption
<1>4. SWAP \notin Slots
  BY LayoutAssumption DEF SWAP, Slots
<1>5. ReadObject \in Objects /\ WriteObject \in Objects /\ ReadObject # WriteObject
  BY <1>4 DEF ReadObject, WriteObject, Objects, SwapInv, SwapTypeOK, Phases
<1>6. ReadBlock \in Blocks /\ WriteBlock \in Blocks
  BY <1>1, <1>3, LayoutAssumption DEF ReadBlock, WriteBlock, Blocks
<1> QED BY <1>1, <1>2, <1>3, <1>4, <1>5, <1>6

\* Erasing a page loses no block of either image.
LEMMA SwapEraseKeeps ==
  ASSUME SwapInv, PagesFitChunk, SwapErase
  PROVE  /\ SwapInv'
         /\ \A b \in 0 .. size - 1 : /\ SourceBlock(b)' = SourceBlock(b)
                                     /\ DestinationBlock(b)' = DestinationBlock(b)
<1>0. spc \in Phases /\ IsPageStart(WriteBlock) /\ ~erased
      /\ UNCHANGED <<src, dst, spc, size, offset, full>> /\ erased' = TRUE
      /\ mem' = [mem EXCEPT ![WriteObject] = ErasePage(mem[WriteObject], WriteBlock)]
  BY DEF SwapErase, InSlot
<1>f. /\ offset \in Nat /\ full \in Nat /\ size \in Nat
      /\ Chunk \in 1 .. SwapBlocks /\ full < Chunk /\ offset + Chunk <= size
      /\ Chunk < SwapBlocks => offset + Chunk = size
      /\ WriteObject \in Objects /\ WriteBlock \in Blocks /\ WriteBlock \in Nat
      /\ SWAP \notin Slots /\ SWAP # src /\ SWAP # dst /\ src # dst
      /\ src \in Objects /\ dst \in Objects /\ SWAP \in Objects
      /\ PageBlocks \in Nat /\ PageBlocks > 0
      /\ size <= SlotBlocks
  BY <1>0, ChunkFacts, LayoutAssumption DEF SwapInv, InLoop, SwapTypeOK, Blocks, Objects
<1>1. mem \in Memory /\ mem[WriteObject] \in Contents
  BY <1>f DEF SwapInv, InLoop, SwapTypeOK, Memory
<1>2. /\ mem' \in Memory
      /\ \A x \in Blocks : WriteBlock <= x /\ x < WriteBlock + PageBlocks
                               => mem'[WriteObject][x] = Erased
      /\ \A x \in Blocks : ~(WriteBlock <= x /\ x < WriteBlock + PageBlocks)
                               => mem'[WriteObject][x] = mem[WriteObject][x]
      /\ \A p \in Objects \ {WriteObject} : mem'[p] = mem[p]
  <2> DEFINE E == ErasePage(mem[WriteObject], WriteBlock)
  <2>1. /\ E \in Contents
        /\ \A x \in Blocks : WriteBlock <= x /\ x < WriteBlock + PageBlocks
                                 => E[x] = Erased
        /\ \A x \in Blocks : ~(WriteBlock <= x /\ x < WriteBlock + PageBlocks)
                                 => E[x] = mem[WriteObject][x]
    BY <1>1, <1>f, EraseTyped, Zenon
  <2>2. mem' = [mem EXCEPT ![WriteObject] = E]
    BY <1>0
  <2> HIDE DEF E
  <2>3. mem' \in Memory /\ mem'[WriteObject] = E
        /\ \A p \in Objects \ {WriteObject} : mem'[p] = mem[p]
    BY <2>1, <2>2, <1>1, <1>f DEF Memory
  <2> QED BY <2>1, <2>3
<1>3. UNCHANGED <<Chunk, WriteObject, WriteBlock>>
  BY <1>0 DEF Chunk, WriteObject, WriteBlock
<1>4. spc # "to_swap" => WriteBlock = offset + full /\ WriteBlock + PageBlocks <= offset + SwapBlocks
  <2> SUFFICES ASSUME spc # "to_swap"
               PROVE  WriteBlock = offset + full /\ WriteBlock + PageBlocks <= offset + SwapBlocks
    OBVIOUS
  <2>1. IsPageStart(offset + SwapBlocks)
    BY <1>0, <1>f, PageStartsAdd, LayoutAssumption DEF SwapInv, InLoop, PagesFitChunk, IsPageStart
  <2>2. WriteBlock = offset + full
    BY DEF WriteBlock
  <2>3. offset + full < offset + SwapBlocks
    BY <1>f, LayoutAssumption
  <2> QED BY <1>0, <1>f, <2>1, <2>2, <2>3, PageStartsApart, LayoutAssumption
<1>5. PageReady'
  <2> SUFFICES ASSUME NEW x \in Blocks, WriteBlock <= x,
                      \A y \in WriteBlock + 1 .. x : ~IsPageStart(y)
               PROVE  mem'[WriteObject][x] = Erased
    BY <1>3 DEF PageReady
  <2>1. IsPageStart(WriteBlock + PageBlocks)
    BY <1>0, <1>f, NextPageStart
  <2>2. x < WriteBlock + PageBlocks
    BY <2>1, <1>f DEF Blocks
  <2> QED BY <2>2, <1>2
<1>6. Copied'
  <2>0. \A j \in 0 .. full - 1 : /\ j \in Blocks /\ offset + j \in Blocks
                                /\ ~(full <= j) /\ ~(offset + full <= offset + j)
    BY <1>f, LayoutAssumption DEF Blocks
  <2>1. CASE spc = "to_swap"
    <3>1. WriteObject = SWAP /\ WriteBlock = full
      BY <2>1 DEF WriteObject, WriteBlock
    <3>2. \A j \in 0 .. full - 1 : mem'[SWAP][j] = mem[SWAP][j] /\ mem'[src] = mem[src]
      BY <2>0, <3>1, <1>2, <1>f
    <3> QED BY <2>1, <3>2, <1>0 DEF Copied, SwapInv
  <2>2. CASE spc = "to_obj1"
    <3>1. WriteObject = src /\ WriteBlock = offset + full
      BY <2>2 DEF WriteObject, WriteBlock
    <3>2. \A j \in 0 .. full - 1 : /\ mem'[src][offset + j] = mem[src][offset + j]
                                  /\ mem'[dst] = mem[dst]
      BY <2>0, <3>1, <1>2, <1>f
    <3> QED BY <2>2, <3>2, <1>0 DEF Copied, SwapInv
  <2>3. CASE spc = "to_obj2"
    <3>1. WriteObject = dst /\ WriteBlock = offset + full
      BY <2>3 DEF WriteObject, WriteBlock
    <3>2. \A j \in 0 .. full - 1 : /\ mem'[dst][offset + j] = mem[dst][offset + j]
                                  /\ mem'[SWAP] = mem[SWAP]
      BY <2>0, <3>1, <1>2, <1>f
    <3> QED BY <2>3, <3>2, <1>0 DEF Copied, SwapInv
  <2> QED BY <2>1, <2>2, <2>3, <1>0 DEF Phases
<1>7. SwapInv'
  BY <1>0, <1>2, <1>3, <1>5, <1>6 DEF SwapInv, InLoop, SwapTypeOK
<1>8. ASSUME NEW b \in 0 .. size - 1
      PROVE  SourceBlock(b)' = SourceBlock(b) /\ DestinationBlock(b)' = DestinationBlock(b)
  <2>0. b \in Blocks /\ b < size /\ b \in Nat
    BY <1>f, LayoutAssumption DEF Blocks
  <2>d. (Moved(b)' <=> Moved(b)) /\ (InChunk(b)' <=> InChunk(b))
    BY <1>0, <1>3 DEF Moved, InChunk
  <2>1. CASE spc = "to_swap"
    <3>1. WriteObject = SWAP
      BY <2>1 DEF WriteObject
    <3> QED BY <2>0, <2>1, <2>d, <3>1, <1>0, <1>2, <1>f DEF SourceBlock, DestinationBlock
  <2>2. CASE spc = "to_obj1"
    <3>1. WriteObject = src
      BY <2>2 DEF WriteObject
    <3>2. Moved(b) \/ ~InChunk(b) => ~(WriteBlock <= b /\ b < WriteBlock + PageBlocks)
      BY <2>0, <2>2, <1>4, <1>f, LayoutAssumption DEF Moved, InChunk
    <3>3. Moved(b) \/ ~InChunk(b) => mem'[src][b] = mem[src][b]
      BY <2>0, <3>1, <3>2, <1>2
    <3> QED BY <2>0, <2>2, <2>d, <3>1, <3>3, <1>0, <1>2, <1>f DEF SourceBlock, DestinationBlock
  <2>3. CASE spc = "to_obj2"
    <3>1. WriteObject = dst
      BY <2>3 DEF WriteObject
    <3>2. Moved(b) \/ ~InChunk(b) => ~(WriteBlock <= b /\ b < WriteBlock + PageBlocks)
      BY <2>0, <2>3, <1>4, <1>f, LayoutAssumption DEF Moved, InChunk
    <3>3. Moved(b) \/ ~InChunk(b) => mem'[dst][b] = mem[dst][b]
      BY <2>0, <3>1, <3>2, <1>2
    <3> QED BY <2>0, <2>3, <2>d, <3>1, <3>3, <1>0, <1>2, <1>f DEF SourceBlock, DestinationBlock
  <2> QED BY <2>1, <2>2, <2>3, <1>0 DEF Phases
<1> QED BY <1>7, <1>8

\* Programming a block makes it the copy it is meant to be.
LEMMA ProgramWrites ==
  ASSUME SwapInv, SwapProgram
  PROVE  /\ mem' \in Memory
         /\ mem'[WriteObject][WriteBlock] = mem[ReadObject][ReadBlock]
         /\ \A x \in Blocks \ {WriteBlock} : mem'[WriteObject][x] = mem[WriteObject][x]
         /\ \A p \in Objects \ {WriteObject} : mem'[p] = mem[p]
<1>0. spc \in Phases /\ (IsPageStart(WriteBlock) => erased)
      /\ mem' = [mem EXCEPT ![WriteObject] =
            ProgramBlock(mem[WriteObject], WriteBlock, mem[ReadObject][ReadBlock])]
  BY DEF SwapProgram, InSlot
<1>1. /\ WriteObject \in Objects /\ ReadObject \in Objects
      /\ WriteBlock \in Blocks /\ ReadBlock \in Blocks
  BY <1>0, ChunkFacts
<1>2. /\ mem \in [Objects -> Contents]
      /\ mem[WriteObject] \in Contents /\ mem[ReadObject][ReadBlock] \in Cells
  BY <1>1 DEF SwapInv, InLoop, SwapTypeOK, Memory, Contents
<1>3. mem[WriteObject][WriteBlock] = Erased
  <2>1. \A y \in WriteBlock + 1 .. WriteBlock : ~IsPageStart(y)
    BY <1>1, LayoutAssumption DEF Blocks
  <2>2. WriteBlock <= WriteBlock
    BY <1>1, LayoutAssumption DEF Blocks
  <2> QED BY <1>0, <1>1, <2>1, <2>2 DEF SwapInv, InLoop, PageReady
<1> DEFINE E == ProgramBlock(mem[WriteObject], WriteBlock, mem[ReadObject][ReadBlock])
<1>4. /\ E \in Contents
      /\ E[WriteBlock] = mem[ReadObject][ReadBlock]
      /\ \A x \in Blocks \ {WriteBlock} : E[x] = mem[WriteObject][x]
  BY <1>1, <1>2, <1>3, ProgramTyped, Zenon
<1>5. mem' = [mem EXCEPT ![WriteObject] = E]
  BY <1>0
<1> HIDE DEF E
<1>6. mem' \in [Objects -> Contents] /\ mem'[WriteObject] = E
      /\ \A p \in Objects \ {WriteObject} : mem'[p] = mem[p]
  BY <1>1, <1>2, <1>4, <1>5
<1> QED BY <1>4, <1>6 DEF Memory

\* Programming a block loses no block of either image, and keeps the invariant.
LEMMA SwapProgramKeeps ==
  ASSUME SwapInv, PagesFitChunk, SwapProgram
  PROVE  /\ SwapInv'
         /\ \A b \in 0 .. size - 1 : /\ SourceBlock(b)' = SourceBlock(b)
                                     /\ DestinationBlock(b)' = DestinationBlock(b)
<1>0. spc \in Phases /\ (IsPageStart(WriteBlock) => erased)
      /\ UNCHANGED <<src, dst, size>>
  BY DEF SwapProgram, InSlot
<1>f. /\ offset \in Nat /\ full \in Nat /\ size \in Nat
      /\ Chunk \in 1 .. SwapBlocks /\ full < Chunk /\ offset + Chunk <= size
      /\ Chunk < SwapBlocks => offset + Chunk = size
      /\ WriteObject \in Objects /\ WriteBlock \in Blocks /\ WriteBlock \in Nat
      /\ SWAP \notin Slots /\ SWAP # src /\ SWAP # dst /\ src # dst
      /\ src \in Objects /\ dst \in Objects /\ SWAP \in Objects
      /\ size <= SlotBlocks /\ SlotBlocks \in Nat /\ SwapBlocks \in Nat
      /\ SwapBlocks <= SlotBlocks
  BY <1>0, ChunkFacts, LayoutAssumption DEF SwapInv, InLoop, SwapTypeOK, Blocks, Objects
<1>w. /\ mem' \in Memory
      /\ mem'[WriteObject][WriteBlock] = mem[ReadObject][ReadBlock]
      /\ \A x \in Blocks \ {WriteBlock} : mem'[WriteObject][x] = mem[WriteObject][x]
      /\ \A p \in Objects \ {WriteObject} : mem'[p] = mem[p]
  BY ProgramWrites
<1>m. mem' \in Memory
  BY <1>w
<1>u. src' \in Slots /\ dst' \in Slots /\ size' \in 0 .. SlotBlocks + 1
  BY <1>0 DEF SwapInv, InLoop, SwapTypeOK
<1>j. \A j \in 0 .. Chunk - 1 : j \in Blocks /\ offset + j \in Blocks
  BY <1>f DEF Blocks
\* After the step, each phase has copied one block more.
<1>c1. spc = "to_swap" =>
         /\ \A j \in 0 .. full : mem'[SWAP][j] = mem[src][offset + j]
         /\ mem'[src] = mem[src] /\ mem'[dst] = mem[dst]
  <2> SUFFICES ASSUME spc = "to_swap"
               PROVE  /\ \A j \in 0 .. full : mem'[SWAP][j] = mem[src][offset + j]
                      /\ mem'[src] = mem[src] /\ mem'[dst] = mem[dst]
    OBVIOUS
  <2>1. WriteObject = SWAP /\ WriteBlock = full /\ ReadObject = src /\ ReadBlock = offset + full
    BY DEF WriteObject, WriteBlock, ReadObject, ReadBlock
  <2>2. \A j \in 0 .. full - 1 : mem[SWAP][j] = mem[src][offset + j]
    BY DEF SwapInv, InLoop, Copied
  <2> QED BY <2>1, <2>2, <1>f, <1>w, <1>j
<1>c2. spc = "to_obj1" =>
         /\ \A j \in 0 .. full : mem'[src][offset + j] = mem[dst][offset + j]
         /\ \A x \in Blocks : x # offset + full => mem'[src][x] = mem[src][x]
         /\ mem'[SWAP] = mem[SWAP] /\ mem'[dst] = mem[dst]
  <2> SUFFICES ASSUME spc = "to_obj1"
               PROVE  /\ \A j \in 0 .. full : mem'[src][offset + j] = mem[dst][offset + j]
                      /\ \A x \in Blocks : x # offset + full => mem'[src][x] = mem[src][x]
                      /\ mem'[SWAP] = mem[SWAP] /\ mem'[dst] = mem[dst]
    OBVIOUS
  <2>1. WriteObject = src /\ WriteBlock = offset + full /\ ReadObject = dst /\ ReadBlock = offset + full
    BY DEF WriteObject, WriteBlock, ReadObject, ReadBlock
  <2>2. \A j \in 0 .. full - 1 : mem[src][offset + j] = mem[dst][offset + j]
    BY DEF SwapInv, InLoop, Copied
  <2>3. \A x \in Blocks : x # offset + full => mem'[src][x] = mem[src][x]
    BY <2>1, <1>w
  <2>4. mem'[SWAP] = mem[SWAP] /\ mem'[dst] = mem[dst]
    BY <2>1, <1>f, <1>w
  <2>5. mem'[src][offset + full] = mem[dst][offset + full]
    BY <2>1, <1>w
  <2> QED BY <2>2, <2>3, <2>4, <2>5, <1>f, <1>j
<1>c3. spc = "to_obj2" =>
         /\ \A j \in 0 .. full : mem'[dst][offset + j] = mem[SWAP][j]
         /\ \A x \in Blocks : x # offset + full => mem'[dst][x] = mem[dst][x]
         /\ mem'[SWAP] = mem[SWAP] /\ mem'[src] = mem[src]
  <2> SUFFICES ASSUME spc = "to_obj2"
               PROVE  /\ \A j \in 0 .. full : mem'[dst][offset + j] = mem[SWAP][j]
                      /\ \A x \in Blocks : x # offset + full => mem'[dst][x] = mem[dst][x]
                      /\ mem'[SWAP] = mem[SWAP] /\ mem'[src] = mem[src]
    OBVIOUS
  <2>1. WriteObject = dst /\ WriteBlock = offset + full /\ ReadObject = SWAP /\ ReadBlock = full
    BY DEF WriteObject, WriteBlock, ReadObject, ReadBlock
  <2>2. \A j \in 0 .. full - 1 : mem[dst][offset + j] = mem[SWAP][j]
    BY DEF SwapInv, InLoop, Copied
  <2> QED BY <2>1, <2>2, <1>f, <1>w, <1>j
<1>1. CASE full + 1 < Chunk
  <2>1. full' = full + 1 /\ erased' = FALSE /\ UNCHANGED <<spc, offset>>
    BY <1>1 DEF SwapProgram
  <2>2. UNCHANGED <<Chunk, WriteObject>> /\ WriteBlock' = WriteBlock + 1
    BY <2>1, <1>0, <1>f DEF Chunk, WriteObject, WriteBlock
  <2>3. PageReady'
    <3> SUFFICES ASSUME ~IsPageStart(WriteBlock + 1), NEW x \in Blocks, WriteBlock + 1 <= x,
                        \A y \in WriteBlock + 1 + 1 .. x : ~IsPageStart(y)
                 PROVE  mem'[WriteObject][x] = Erased
      BY <2>1, <2>2 DEF PageReady
    <3>1. \A y \in WriteBlock + 1 .. x : ~IsPageStart(y)
      BY <1>f DEF Blocks
    <3>2. mem[WriteObject][x] = Erased
      BY <3>1, <1>0, <1>f DEF SwapInv, InLoop, PageReady, Blocks
    <3> QED BY <3>2, <1>w, <1>f DEF Blocks
  <2>4. Copied'
    BY <2>1, <1>0, <1>f, <1>c1, <1>c2, <1>c3 DEF Copied
  <2>t. SwapTypeOK'
    <3>1. full' \in 0 .. SwapBlocks /\ offset' \in 0 .. SlotBlocks + 1
      BY <1>1, <1>f, <2>1
    <3> QED BY <1>0, <1>m, <1>u, <2>1, <3>1 DEF SwapTypeOK
  <2>5. SwapInv'
    BY <1>0, <1>1, <1>f, <2>1, <2>2, <2>3, <2>4, <2>t DEF SwapInv, InLoop, Phases
  <2>6. ASSUME NEW b \in 0 .. size - 1
        PROVE  SourceBlock(b)' = SourceBlock(b) /\ DestinationBlock(b)' = DestinationBlock(b)
    <3>0. b \in Blocks /\ (Moved(b) \/ ~InChunk(b) => b # offset + full)
      BY <1>f DEF Blocks, Moved, InChunk
    <3>1. (Moved(b)' <=> Moved(b)) /\ (InChunk(b)' <=> InChunk(b))
      BY <2>1, <2>2 DEF Moved, InChunk
    <3> QED BY <3>0, <3>1, <1>0, <2>1, <1>c1, <1>c2, <1>c3
            DEF SourceBlock, DestinationBlock, Phases
  <2> QED BY <2>5, <2>6
<1>2. CASE ~(full + 1 < Chunk)
  <2>0. full + 1 = Chunk /\ full' = 0 /\ erased' = FALSE
    BY <1>2, <1>f DEF SwapProgram, NextPhase
  <2>e. \A b \in 0 .. size - 1 :
           InChunk(b) => b - offset \in 0 .. full /\ offset + (b - offset) = b
    BY <2>0, <1>f DEF InChunk
  <2>1. CASE spc = "to_swap"
    <3>1. spc' = "to_obj1" /\ offset' = offset /\ Chunk' = Chunk
      BY <1>0, <1>2, <2>1 DEF SwapProgram, NextPhase, Chunk
    <3>t. SwapTypeOK'
      <4>1. full' \in 0 .. SwapBlocks /\ offset' \in 0 .. SlotBlocks + 1
        BY <1>f, <2>0, <3>1
      <4>2. spc' \in Phases \cup {"idle", "done", "error"}
        BY <3>1 DEF Phases
      <4> QED BY <1>m, <1>u, <2>0, <4>1, <4>2 DEF SwapTypeOK
    <3>p. PageReady' /\ Copied'
      BY <1>0, <1>f, <2>0, <3>1 DEF SwapInv, InLoop, PageReady, Copied, WriteBlock
    <3>2. SwapInv'
      BY <1>0, <1>f, <2>0, <3>1, <3>t, <3>p DEF SwapInv, InLoop, Phases
    <3>3. ASSUME NEW b \in 0 .. size - 1
          PROVE  SourceBlock(b)' = SourceBlock(b) /\ DestinationBlock(b)' = DestinationBlock(b)
      <4>1. (Moved(b)' <=> Moved(b)) /\ (InChunk(b)' <=> InChunk(b))
        BY <3>1 DEF Moved, InChunk
      <4>2. InChunk(b) => mem'[SWAP][b - offset] = mem[src][b]
        BY <2>1, <2>e, <1>c1
      <4> QED BY <4>1, <4>2, <1>0, <3>1, <2>1, <1>c1 DEF SourceBlock, DestinationBlock
    <3> QED BY <3>2, <3>3
  <2>2. CASE spc = "to_obj1"
    <3>1. spc' = "to_obj2" /\ offset' = offset /\ Chunk' = Chunk
      BY <1>0, <1>2, <2>2 DEF SwapProgram, NextPhase, Chunk
    <3>t. SwapTypeOK'
      <4>1. full' \in 0 .. SwapBlocks /\ offset' \in 0 .. SlotBlocks + 1
        BY <1>f, <2>0, <3>1
      <4>2. spc' \in Phases \cup {"idle", "done", "error"}
        BY <3>1 DEF Phases
      <4> QED BY <1>m, <1>u, <2>0, <4>1, <4>2 DEF SwapTypeOK
    <3>p. PageReady' /\ Copied'
      BY <1>0, <1>f, <2>0, <3>1 DEF SwapInv, InLoop, PageReady, Copied, WriteBlock
    <3>2. SwapInv'
      BY <1>0, <1>f, <2>0, <3>1, <3>t, <3>p DEF SwapInv, InLoop, Phases
    <3>3. ASSUME NEW b \in 0 .. size - 1
          PROVE  SourceBlock(b)' = SourceBlock(b) /\ DestinationBlock(b)' = DestinationBlock(b)
      <4>0. b \in Blocks /\ (Moved(b) \/ ~InChunk(b) => b # offset + full)
        BY <1>f DEF Blocks, Moved, InChunk
      <4>1. (Moved(b)' <=> Moved(b)) /\ (InChunk(b)' <=> InChunk(b))
        BY <3>1 DEF Moved, InChunk
      <4>2. InChunk(b) => mem'[src][b] = mem[dst][b]
        BY <2>2, <2>e, <1>c2
      <4> QED BY <4>0, <4>1, <4>2, <1>0, <3>1, <2>2, <1>c2 DEF SourceBlock, DestinationBlock
    <3> QED BY <3>2, <3>3
  <2>3. CASE spc = "to_obj2"
    <3>1. /\ offset' = offset + Chunk
          /\ spc' = IF offset + Chunk < size THEN "to_swap" ELSE "done"
      BY <1>0, <1>2, <2>3 DEF SwapProgram, NextPhase
    <3>2. spc' = "to_swap" => IsPageStart(offset') /\ offset' < size /\ 0 < Chunk'
      <4> SUFFICES ASSUME spc' = "to_swap"
                   PROVE  IsPageStart(offset') /\ offset' < size /\ 0 < Chunk'
        OBVIOUS
      <4>1. offset + Chunk < size /\ Chunk = SwapBlocks
        BY <3>1, <1>f
      <4>2. IsPageStart(offset + SwapBlocks)
        BY <1>0, <1>f, PageStartsAdd DEF SwapInv, InLoop, PagesFitChunk, IsPageStart
      <4> QED BY <4>1, <4>2, <3>1, <1>0, <1>f, LayoutAssumption DEF Chunk
    <3>3. spc' = "done" => offset' = size
      BY <3>1, <1>f
    <3>4. PageReady'
      BY <2>0, <3>1, ZeroIsPageStart DEF PageReady, WriteBlock, Phases
    <3>5. Copied'
      BY <2>0, <3>1 DEF Copied
    <3>t. SwapTypeOK'
      <4>1. full' \in 0 .. SwapBlocks /\ offset' \in 0 .. SlotBlocks + 1
        BY <1>f, <2>0, <3>1
      <4>2. spc' \in Phases \cup {"idle", "done", "error"}
        BY <3>1 DEF Phases
      <4> QED BY <1>m, <1>u, <2>0, <4>1, <4>2 DEF SwapTypeOK
    <3>6. SwapInv'
      BY <1>0, <1>f, <2>0, <3>1, <3>2, <3>3, <3>4, <3>5, <3>t DEF SwapInv, InLoop, Phases
    <3>7. ASSUME NEW b \in 0 .. size - 1
          PROVE  SourceBlock(b)' = SourceBlock(b) /\ DestinationBlock(b)' = DestinationBlock(b)
      <4>0. b \in Blocks /\ (Moved(b) \/ ~InChunk(b) => b # offset + full)
        BY <1>f DEF Blocks, Moved, InChunk
      <4>1. Moved(b)' <=> Moved(b) \/ InChunk(b)
        BY <3>1, <1>f DEF Moved, InChunk
      <4>2. InChunk(b) => mem'[dst][b] = mem[SWAP][b - offset]
        BY <2>3, <2>e, <1>c3
      <4>3. InChunk(b) => ~Moved(b)
        BY <1>f DEF InChunk, Moved
      <4> QED BY <4>0, <4>1, <4>2, <4>3, <1>0, <3>1, <2>3, <1>c3
              DEF SourceBlock, DestinationBlock
    <3> QED BY <3>6, <3>7
  <2> QED BY <2>1, <2>2, <2>3, <1>0 DEF Phases
<1> QED BY <1>1, <1>2

\* A reported error leaves everything where it is.
LEMMA SwapFaultKeeps ==
  ASSUME SwapInv, ErrorsReported, SwapFault
  PROVE  /\ SwapInv' /\ spc' = "error" /\ UNCHANGED <<mem, src, dst, size>>
         /\ \A b \in 0 .. size - 1 : /\ SourceBlock(b)' = SourceBlock(b)
                                     /\ DestinationBlock(b)' = DestinationBlock(b)
<1>1. spc = "to_swap"
  BY DEF SwapFault, InSlot, Phases, ErrorsReported
<1>2. spc' = "error" /\ UNCHANGED <<offset, full, erased, mem, src, dst, size>>
  BY <1>1 DEF SwapFault
<1>3. SwapInv'
  BY <1>1, <1>2 DEF SwapInv, InLoop, SwapTypeOK, PageReady, Copied, Phases
<1>4. ASSUME NEW b \in 0 .. size - 1
      PROVE  SourceBlock(b)' = SourceBlock(b) /\ DestinationBlock(b)' = DestinationBlock(b)
  <2>1. Moved(b)' <=> Moved(b)
    BY <1>2 DEF Moved
  <2> QED BY <1>1, <1>2, <2>1 DEF SourceBlock, DestinationBlock
<1> QED BY <1>2, <1>3, <1>4

\* Every step keeps the invariant and both original images.
LEMMA SwapNextKeeps ==
  ASSUME SwapInv, PagesFitChunk, ErrorsReported, SwapNext \/ SwapOverrun
  PROVE  /\ SwapInv'
         /\ spc # "done" /\ UNCHANGED <<src, dst, size>>
         /\ \A b \in 0 .. size - 1 : /\ SourceBlock(b)' = SourceBlock(b)
                                     /\ DestinationBlock(b)' = DestinationBlock(b)
<1>1. CASE SwapErase
  BY <1>1, SwapEraseKeeps DEF SwapErase, InSlot, Phases
<1>2. CASE SwapProgram
  BY <1>2, SwapProgramKeeps DEF SwapProgram, InSlot, Phases
<1>3. CASE SwapFault
  BY <1>3, SwapFaultKeeps DEF SwapFault, InSlot, Phases
<1>4. CASE SwapOverrun
  <2>1. spc \in Phases /\ offset + full >= SlotBlocks
    BY <1>4 DEF SwapOverrun, Phases
  <2> QED BY <2>1, ChunkFacts, LayoutAssumption
<1> QED BY <1>1, <1>2, <1>3, <1>4 DEF SwapNext

\* When the loop is done, the slots hold each other's original image.
LEMMA DoneIsExchanged ==
  ASSUME SwapInv, spc = "done", NEW b \in 0 .. size - 1
  PROVE  SourceBlock(b) = mem[dst][b] /\ DestinationBlock(b) = mem[src][b]
BY DEF SwapInv, InLoop, SwapTypeOK, SourceBlock, DestinationBlock, Moved

----------------------------------------------------------------------------
(* The types hold without any condition on pages or errors. *)

LEMMA LoopFacts ==
  ASSUME SwapTypeOK, InLoop, spc \in Phases
  PROVE  /\ offset \in Nat /\ full \in Nat /\ size \in Nat
         /\ Chunk \in 1 .. SwapBlocks /\ full < Chunk /\ offset + Chunk <= size
         /\ size <= SlotBlocks + 1
         /\ ReadObject \in Objects /\ WriteObject \in Objects
         /\ InSlot => ReadBlock \in Blocks /\ WriteBlock \in Blocks
<1>1. offset \in Nat /\ full \in Nat /\ size \in Nat /\ size <= SlotBlocks + 1
      /\ offset < size /\ full < Chunk
  BY LayoutAssumption DEF SwapTypeOK, InLoop
<1>2. Chunk \in 1 .. SwapBlocks /\ offset + Chunk <= size
  BY <1>1, LayoutAssumption DEF Chunk
<1>3. ReadObject \in Objects /\ WriteObject \in Objects
  BY DEF ReadObject, WriteObject, Objects, SwapTypeOK, Phases
<1>4. InSlot => ReadBlock \in Blocks /\ WriteBlock \in Blocks
  BY <1>1, LayoutAssumption DEF InSlot, ReadBlock, WriteBlock, Blocks
<1> QED BY <1>1, <1>2, <1>3, <1>4

LEMMA NextPhaseTyped ==
  ASSUME SwapTypeOK, InLoop, spc \in Phases, NextPhase, size' = size
  PROVE  /\ spc' \in Phases \cup {"idle", "done", "error"}
         /\ offset' \in 0 .. SlotBlocks + 1 /\ full' \in 0 .. SwapBlocks
         /\ erased' \in BOOLEAN
         /\ InLoop'
<1>f. /\ offset \in Nat /\ full \in Nat /\ size \in Nat
      /\ Chunk \in 1 .. SwapBlocks /\ offset + Chunk <= size
      /\ size <= SlotBlocks + 1 /\ offset < size
      /\ SwapBlocks \in Nat /\ SwapBlocks > 0 /\ SlotBlocks \in Nat
  BY LoopFacts, LayoutAssumption DEF InLoop
<1>1. full' = 0 /\ erased' = FALSE
  BY DEF NextPhase
<1>2. CASE spc \in {"to_swap", "to_obj1"}
  <2>1. spc' \in Phases /\ offset' = offset
    BY <1>2 DEF NextPhase, Phases
  <2>2. Chunk' = Chunk
    BY <2>1 DEF Chunk
  <2>3. full' \in 0 .. SwapBlocks
    BY <1>f, <1>1
  <2>4. offset' \in 0 .. SlotBlocks + 1
    BY <1>f, <2>1
  <2>5. offset' < size' /\ full' < Chunk'
    BY <1>f, <1>1, <2>1, <2>2
  <2> QED BY <1>1, <2>1, <2>3, <2>4, <2>5 DEF InLoop
<1>3. CASE spc = "to_obj2"
  <2>1. /\ offset' = offset + Chunk
        /\ spc' = IF offset + Chunk < size THEN "to_swap" ELSE "done"
    BY <1>3 DEF NextPhase
  <2>2. spc' \in Phases => offset' < size /\ 0 < Chunk'
    BY <1>f, <2>1 DEF Chunk, Phases
  <2>3. offset' \in 0 .. SlotBlocks + 1
    BY <1>f, <2>1
  <2>4. full' \in 0 .. SwapBlocks
    BY <1>f, <1>1
  <2>5. spc' \in Phases \cup {"idle", "done", "error"}
    BY <2>1 DEF Phases
  <2> QED BY <1>1, <2>2, <2>3, <2>4, <2>5 DEF InLoop
<1> QED BY <1>2, <1>3 DEF Phases

LEMMA SwapNextTyped ==
  ASSUME SwapTypeOK, InLoop, SwapNext \/ SwapOverrun
  PROVE  SwapTypeOK' /\ InLoop'
<1>0. src \in Slots /\ dst \in Slots /\ mem \in [Objects -> Contents]
      /\ src \in Objects
  BY DEF SwapTypeOK, Memory, Objects
<1>1. CASE SwapErase
  <2>1. spc \in Phases /\ InSlot
    BY <1>1 DEF SwapErase, InSlot
  <2>2. WriteObject \in Objects /\ WriteBlock \in Nat
    BY <2>1, LoopFacts, LayoutAssumption DEF Blocks
  <2>3. ErasePage(mem[WriteObject], WriteBlock) \in Contents
    BY <1>0, <2>2, EraseTyped
  <2>4. mem' \in [Objects -> Contents]
    BY <1>0, <1>1, <2>2, <2>3 DEF SwapErase
  <2> QED BY <1>1, <2>4 DEF SwapErase, SwapTypeOK, InLoop, Chunk, Memory
<1>2. CASE SwapProgram
  <2>1. spc \in Phases /\ InSlot /\ UNCHANGED <<src, dst, size>>
    BY <1>2 DEF SwapProgram, InSlot
  <2>2. /\ WriteObject \in Objects /\ ReadObject \in Objects
        /\ WriteBlock \in Blocks /\ ReadBlock \in Blocks
    BY <2>1, LoopFacts
  <2>3. mem[WriteObject] \in Contents /\ mem[ReadObject][ReadBlock] \in Cells
    BY <1>0, <2>2 DEF Contents
  <2>4. ProgramBlock(mem[WriteObject], WriteBlock, mem[ReadObject][ReadBlock]) \in Contents
    BY <2>2, <2>3, ProgramTyped
  <2>5. mem' \in Memory
    BY <1>0, <1>2, <2>2, <2>4 DEF SwapProgram, Memory
  <2>6. CASE full + 1 < Chunk
    <3>1. full' = full + 1 /\ erased' = FALSE /\ UNCHANGED <<spc, offset>>
      BY <1>2, <2>6 DEF SwapProgram
    <3>2. Chunk' = Chunk /\ full' \in 0 .. SwapBlocks
      BY <2>1, <2>6, <3>1, LoopFacts, LayoutAssumption DEF Chunk
    <3> QED BY <2>1, <2>5, <2>6, <3>1, <3>2 DEF SwapTypeOK, InLoop
  <2>7. CASE ~(full + 1 < Chunk)
    <3>1. NextPhase
      BY <1>2, <2>7 DEF SwapProgram
    <3> QED BY <2>1, <2>5, <3>1, NextPhaseTyped DEF SwapTypeOK
  <2> QED BY <2>6, <2>7
<1>3. CASE SwapFault
  <2>1. spc \in Phases /\ UNCHANGED <<mem, src, dst, size>>
    BY <1>3 DEF SwapFault, InSlot
  <2>2. CASE spc = "to_swap"
    BY <1>3, <2>1, <2>2 DEF SwapFault, SwapTypeOK, InLoop, Phases
  <2>3. CASE spc # "to_swap"
    <3>1. NextPhase
      BY <1>3, <2>3 DEF SwapFault
    <3> QED BY <2>1, <3>1, NextPhaseTyped DEF SwapTypeOK
  <2> QED BY <2>2, <2>3
<1>4. CASE SwapOverrun
  <2>1. EraseAll \in Contents
    BY DEF EraseAll, Contents, Cells
  <2>2. mem' \in [Objects -> Contents]
    BY <1>0, <1>4, <2>1 DEF SwapOverrun
  <2> QED BY <1>4, <2>2 DEF SwapOverrun, SwapTypeOK, InLoop, Phases, Memory
<1> QED BY <1>1, <1>2, <1>3, <1>4 DEF SwapNext

----------------------------------------------------------------------------
LEMMA SlotStatesTyped == SlotStates \subseteq Contents /\ EraseAll \in Contents
<1>1. \A i \in Images, n \in Int : Stored(i, n) \in Contents
  BY DEF Stored, Contents, Cells
<1>2. \A m \in Contents : InvalidateObject(m) \in Contents
  BY DEF InvalidateObject, Contents, Cells
<1>3. EraseAll \in Contents
  BY DEF EraseAll, Contents, Cells
<1>4. \A i \in Images : Size[i] \in Int
  BY LayoutAssumption
<1>5. 0 .. SlotBlocks \subseteq Int
  BY LayoutAssumption
<1> QED BY <1>1, <1>2, <1>3, <1>4, <1>5 DEF SlotStates

LEMMA SwapInitInv ==
  ASSUME SwapInit
  PROVE  SwapInv
<1>1. mem \in Memory
  BY SlotStatesTyped DEF SwapInit, Memory
<1>2. size \in 1 .. SlotBlocks
  BY LayoutAssumption DEF SwapInit, LargerSize
<1>3. SwapTypeOK
  <2>1. size \in 0 .. SlotBlocks + 1 /\ offset \in 0 .. SlotBlocks + 1
        /\ full \in 0 .. SwapBlocks
    BY <1>2, LayoutAssumption DEF SwapInit
  <2> QED BY <1>1, <2>1 DEF SwapInit, SwapTypeOK, Phases
<1>4. spc = "to_swap" /\ offset = 0 /\ full = 0 /\ ~erased /\ src # dst
  BY DEF SwapInit
<1>5. Chunk > 0
  BY <1>2, <1>4, LayoutAssumption DEF Chunk
<1>6. PageReady /\ Copied
  BY <1>4, ZeroIsPageStart DEF PageReady, Copied, WriteBlock
<1> QED BY <1>2, <1>3, <1>4, <1>5, <1>6, ZeroIsPageStart DEF SwapInv, InLoop

\* The loop invariant of swap_slots holds for every geometry in which a chunk
\* is a whole number of pages.
THEOREM SwapInvariant ==
  ASSUME PagesFitChunk, ErrorsReported
  PROVE  SwapSpec => []SwapInv
<1>1. SwapInit => SwapInv
  BY SwapInitInv
<1>2. SwapInv /\ [SwapNext]_swapVars => SwapInv'
  <2>1. ASSUME SwapInv, SwapNext PROVE SwapInv'
    BY <2>1, SwapNextKeeps
  <2>2. ASSUME SwapInv, UNCHANGED swapVars PROVE SwapInv'
    BY <2>2 DEF swapVars, SwapInv, InLoop, SwapTypeOK, PageReady, Copied, Chunk,
                WriteBlock, WriteObject
  <2> QED BY <2>1, <2>2
<1> QED BY <1>1, <1>2, PTL DEF SwapSpec

\* swap_slots implements the atomic exchange of Exchange.tla: no step loses a
\* block of either image, and the last one exchanges them.
THEOREM SwapIsAtomic ==
  ASSUME PagesFitChunk, ErrorsReported
  PROVE  SwapSpec => SwapIsAtomicExchange
<1> DEFINE first == IF spc = "done" THEN [b \in 0 .. size - 1 |-> mem[src][b]]
                    ELSE OriginalSource
           second == IF spc = "done" THEN [b \in 0 .. size - 1 |-> mem[dst][b]]
                     ELSE OriginalDestination
<1>1. SwapInit => Atomic!Init
  BY DEF SwapInit, Atomic!Init
<1>2. SwapInv /\ [SwapNext]_swapVars
        => [Atomic!Swap]_<<first, second, spc = "done">>
  <2>1. ASSUME SwapInv, SwapNext
        PROVE  [Atomic!Swap]_<<first, second, spc = "done">>
    <3>1. /\ SwapInv' /\ spc # "done" /\ UNCHANGED <<src, dst, size>>
          /\ \A b \in 0 .. size - 1 : /\ SourceBlock(b)' = SourceBlock(b)
                                      /\ DestinationBlock(b)' = DestinationBlock(b)
      BY <2>1, SwapNextKeeps
    <3>2. OriginalSource' = OriginalSource /\ OriginalDestination' = OriginalDestination
      BY <3>1 DEF OriginalSource, OriginalDestination
    <3>3. first = OriginalSource /\ second = OriginalDestination
      BY <3>1
    <3>4. CASE spc' # "done"
      <4>1. first' = OriginalSource' /\ second' = OriginalDestination'
        BY <3>4
      <4>2. (spc = "done")' = (spc = "done")
        BY <3>1, <3>4
      <4> QED BY <3>2, <3>3, <4>1, <4>2
    <3>5. CASE spc' = "done"
      <4>1. \A b \in 0 .. size - 1 : /\ mem'[dst'][b] = SourceBlock(b)'
                                    /\ mem'[src'][b] = DestinationBlock(b)'
        BY <3>1, <3>5 DEF SwapInv, InLoop, SwapTypeOK, SourceBlock, DestinationBlock, Moved
      <4>2. first' = OriginalDestination /\ second' = OriginalSource
        BY <3>1, <3>5, <4>1 DEF OriginalSource, OriginalDestination
      <4> QED BY <3>1, <3>3, <3>5, <4>2 DEF Atomic!Swap
    <3> QED BY <3>4, <3>5
  <2>2. ASSUME UNCHANGED swapVars
        PROVE  UNCHANGED <<first, second, spc = "done">>
    BY <2>2 DEF swapVars, OriginalSource, OriginalDestination, SourceBlock,
                DestinationBlock, Moved, InChunk, Chunk
  <2> QED BY <2>1, <2>2
<1> QED BY <1>1, <1>2, SwapInvariant, PTL
        DEF SwapSpec, SwapIsAtomicExchange, Atomic!Spec
=============================================================================
