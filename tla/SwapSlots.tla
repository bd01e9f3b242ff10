----------------------------- MODULE SwapSlots -----------------------------
(***************************************************************************)
(* swap_slots: exchanges two slots through the SWAP object, one chunk of   *)
(* SwapBlocks blocks after the other.  A chunk goes through three phases,  *)
(* each a call of swap_chunk that moves it block by block:                 *)
(*     to_swap   source -> SWAP                                            *)
(*     to_obj1   destination -> source                                     *)
(*     to_obj2   SWAP -> destination                                       *)
(* The three objects are open in mode SEQUENTIAL_REWRITE, so memory_write  *)
(* at a page boundary erases the page before it programs the block; the    *)
(* two are separate steps because power can be lost between them.          *)
(***************************************************************************)
EXTENDS Flash

CONSTANT Faults  \* the operations whose flash access may fail

VARIABLES
  mem,      \* contents of every object
  src,      \* obj1, the source slot
  dst,      \* obj2, the destination slot
  spc,      \* control: "idle", a phase, "done" or "error"
  size,     \* the larger of the two images, fixed when the swap starts
  offset,   \* first block of the current chunk
  full,     \* swap_full: blocks of the chunk moved in this phase
  erased    \* the page of the block to be programmed has been erased

swapVars == <<mem, src, dst, spc, size, offset, full, erased>>

Phases == {"to_swap", "to_obj1", "to_obj2"}

SwapTypeOK ==
  /\ mem \in Memory
  /\ src \in Slots
  /\ dst \in Slots
  /\ spc \in Phases \cup {"idle", "done", "error"}
  /\ size \in 0 .. SlotBlocks + 1
  /\ offset \in 0 .. SlotBlocks + 1
  /\ full \in 0 .. SwapBlocks
  /\ erased \in BOOLEAN

----------------------------------------------------------------------------
Chunk == IF offset + SwapBlocks > size THEN size - offset ELSE SwapBlocks

ReadObject ==
  CASE spc = "to_swap" -> src
    [] spc = "to_obj1" -> dst
    [] spc = "to_obj2" -> SWAP

WriteObject ==
  CASE spc = "to_swap" -> SWAP
    [] spc = "to_obj1" -> src
    [] spc = "to_obj2" -> dst

\* A mutant of ReadBlock: the flag read_swap is lost.
ReadBlockOfSlot == offset + full

ReadBlock == IF spc = "to_obj2" THEN full ELSE offset + full
WriteBlock == IF spc = "to_swap" THEN full ELSE offset + full

LargerSize(from, to) ==
  IF SizeOf(mem[to]) > SizeOf(mem[from])
  THEN SizeOf(mem[to]) ELSE SizeOf(mem[from])

\* The prologue: both manifests are read and the larger size is kept.
SwapStart(from, to) ==
  /\ src' = from
  /\ dst' = to
  /\ size' = LargerSize(from, to)
  /\ spc' = IF size' > 0 THEN "to_swap" ELSE "done"
  /\ offset' = 0
  /\ full' = 0
  /\ erased' = FALSE

\* A mutant of NextPhase: the offset is not incremented.
NextPhaseSameChunk ==
  /\ full' = 0
  /\ erased' = FALSE
  /\ spc' = CASE spc = "to_swap" -> "to_obj1"
              [] spc = "to_obj1" -> "to_obj2"
              [] spc = "to_obj2" -> "to_swap"
  /\ UNCHANGED offset

\* A call of swap_chunk has returned and its result counts as success.
NextPhase ==
  /\ full' = 0
  /\ erased' = FALSE
  /\ \/ /\ spc = "to_swap"
        /\ spc' = "to_obj1"
        /\ offset' = offset
     \/ /\ spc = "to_obj1"
        /\ spc' = "to_obj2"
        /\ offset' = offset
     \/ /\ spc = "to_obj2"
        /\ spc' = IF offset + Chunk < size THEN "to_swap" ELSE "done"
        /\ offset' = offset + Chunk

InSlot == spc \in Phases /\ offset + full < SlotBlocks

\* memory_write at a page boundary: the page is erased first.
SwapErase ==
  /\ InSlot
  /\ IsPageStart(WriteBlock)
  /\ ~erased
  /\ mem' = [mem EXCEPT ![WriteObject] = ErasePage(@, WriteBlock)]
  /\ erased' = TRUE
  /\ UNCHANGED <<src, dst, spc, size, offset, full>>

\* memory_read of a block, and the programming half of memory_write.
SwapProgram ==
  /\ InSlot
  /\ IsPageStart(WriteBlock) => erased
  /\ mem' = [mem EXCEPT ![WriteObject] =
                ProgramBlock(@, WriteBlock, mem[ReadObject][ReadBlock])]
  /\ IF full + 1 < Chunk
       THEN /\ full' = full + 1
            /\ erased' = FALSE
            /\ UNCHANGED <<spc, offset>>
       ELSE NextPhase
  /\ UNCHANGED <<src, dst, size>>

\* A read, erase or program fails and swap_chunk returns an error.  Only the
\* first of the three calls has its result stored in err: the errors of the
\* other two are lost and the loop goes on.
SwapFault ==
  /\ InSlot
  /\ spc \in Faults
  /\ IF spc = "to_swap"
       THEN spc' = "error" /\ UNCHANGED <<offset, full, erased>>
       ELSE NextPhase
  /\ UNCHANGED <<mem, src, dst, size>>

SwapNext == SwapErase \/ SwapProgram \/ SwapFault

\* The size came from an erased manifest and the loop has left the slot: it
\* goes on over the memory behind both slots until an access fails.  On files
\* the first read behind the end fails at once, on flash the blocks of the
\* upper slot have been exchanged with erased ones by then.
SwapOverrun ==
  /\ spc = "to_swap"
  /\ offset + full >= SlotBlocks
  /\ spc' = "error"
  /\ \/ mem' = mem
     \/ mem' = [mem EXCEPT ![src] = EraseAll]
  /\ UNCHANGED <<src, dst, size, offset, full, erased>>

----------------------------------------------------------------------------
(* swap_slots on its own, from every content that first boot and downloads *)
(* leave in two slots, provided that neither manifest is erased: then the  *)
(* loop does not leave the slots (SwapInv), and SwapOverrun has no part.   *)

SlotStates ==
  {Stored(i, n) : i \in Images, n \in 0 .. SlotBlocks}
    \cup {InvalidateObject(Stored(i, Size[i])) : i \in Images}

SwapInit ==
  /\ src \in Slots
  /\ dst \in Slots \ {src}
  /\ mem \in {m \in [Objects -> SlotStates] : m[SWAP] = EraseAll}
  /\ SizeOf(mem[src]) \in 1 .. SlotBlocks
  /\ SizeOf(mem[dst]) \in 0 .. SlotBlocks
  /\ size = LargerSize(src, dst)
  /\ spc = "to_swap"
  /\ offset = 0
  /\ full = 0
  /\ erased = FALSE

SwapSpec == SwapInit /\ [][SwapNext]_swapVars /\ WF_swapVars(SwapNext)

----------------------------------------------------------------------------
(* Where the blocks of the two original images are while the swap is under *)
(* way.                                                                    *)

InChunk(b) == offset <= b /\ b < offset + Chunk
Moved(b) == b < offset

\* Block b of the image that was in the source (destination) at the start.
SourceBlock(b) ==
  IF Moved(b) THEN mem[dst][b]
  ELSE IF spc \in {"to_obj1", "to_obj2"} /\ InChunk(b)
       THEN mem[SWAP][b - offset]
       ELSE mem[src][b]

DestinationBlock(b) ==
  IF Moved(b) \/ (spc = "to_obj2" /\ InChunk(b))
  THEN mem[src][b] ELSE mem[dst][b]

OriginalSource == [b \in 0 .. size - 1 |-> SourceBlock(b)]
OriginalDestination == [b \in 0 .. size - 1 |-> DestinationBlock(b)]

\* Before the end, the objects count as not yet exchanged; at the end, they
\* are what they are.
Atomic == INSTANCE Exchange WITH
  first  <- IF spc = "done" THEN [b \in 0 .. size - 1 |-> mem[src][b]]
            ELSE OriginalSource,
  second <- IF spc = "done" THEN [b \in 0 .. size - 1 |-> mem[dst][b]]
            ELSE OriginalDestination,
  done   <- spc = "done"

\* swap_slots exchanges its two objects and loses nothing on the way: in every
\* state in which power may fail, each block of both images is still in one of
\* the three objects, at a place known from the progress of the loop.  The one
\* step that completes the swap is the exchange of Exchange.tla.
SwapIsAtomicExchange == Atomic!Spec

\* The loop of swap_slots ends, with success or with a reported error.
SwapTerminates == <>(spc \in {"done", "error"})

----------------------------------------------------------------------------
(* The conditions under which swap_slots keeps its promise, and the        *)
(* inductive invariant that shows it.                                      *)

\* Erasing the pages of one chunk touches no block of the next one.
PagesFitChunk == SwapBlocks % PageBlocks = 0

\* The two calls of swap_chunk whose result is dropped do not fail.
ErrorsReported == Faults \cap {"to_obj1", "to_obj2"} = {}

\* Inside the loops of swap_slots and swap_chunk.
InLoop == spc \in Phases => offset < size /\ full < Chunk

\* The block about to be programmed, and those behind it in the same page,
\* are erased, from the erasure of the page on.
PageReady ==
  spc \in Phases /\ (erased \/ ~IsPageStart(WriteBlock)) =>
    \A x \in Blocks :
      WriteBlock <= x /\ (\A y \in WriteBlock + 1 .. x : ~IsPageStart(y))
        => mem[WriteObject][x] = Erased

\* What the current call of swap_chunk has copied so far.
Copied ==
  /\ spc = "to_swap" =>
       \A j \in 0 .. full - 1 : mem[SWAP][j] = mem[src][offset + j]
  /\ spc = "to_obj1" =>
       \A j \in 0 .. full - 1 : mem[src][offset + j] = mem[dst][offset + j]
  /\ spc = "to_obj2" =>
       \A j \in 0 .. full - 1 : mem[dst][offset + j] = mem[SWAP][j]

\* The loop invariant of swap_slots: progress is page-aligned, the copies made
\* in the current phase equal their originals, and a block is programmed only
\* while it is erased.
SwapInv ==
  /\ SwapTypeOK
  /\ src # dst
  /\ size \in 1 .. SlotBlocks
  /\ spc # "idle"
  /\ InLoop
  /\ spc \in Phases => IsPageStart(offset)
  /\ spc = "done" => offset = size
  /\ PageReady
  /\ Copied
=============================================================================
