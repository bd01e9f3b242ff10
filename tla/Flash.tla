------------------------------- MODULE Flash -------------------------------
(***************************************************************************)
(* The persistent memory of a device: the memory objects, the flash driver *)
(* operations on them, and the read-only questions the library asks of     *)
(* them (version and size in a manifest, verification, newest and oldest   *)
(* firmware).                                                              *)
(*                                                                         *)
(* The unit of storage is a block: the part of an object that one          *)
(* memory_read/memory_write pair of swap_chunk moves (BUFFER_SIZE bytes).  *)
(* Block 0 carries the manifest.  A cell, the value of a block, is a pair: *)
(* <<i, b>> is block b of image i; the pairs <<0, _>> are the values that  *)
(* belong to no image.                                                     *)
(***************************************************************************)
EXTENDS Integers

CONSTANTS
  NImages,     \* images that vendor and server ever produce are 1..NImages
  Version,     \* Version[i]: vendor.version in the manifest of image i
  Size,        \* Size[i]: blocks covered by manifest and firmware of image i
  Signed,      \* the images whose stored manifest passes verify_manifest
  MaxVersion,  \* what version_t reads from erased flash: 0xFFFF
  NSlots,      \* entries of memory_slots[]
  Bootable,    \* the slots whose .bootable is true
  SlotBlocks,  \* blocks per slot
  PageBlocks,  \* blocks per flash page
  SwapBlocks   \* cfg->swap_size in blocks

Images == 1 .. NImages
Slots == 1 .. NSlots
SWAP == 0
Objects == {SWAP} \cup Slots
Blocks == 0 .. SlotBlocks - 1

Erased == <<0, 0>>   \* a block of an erased page, all ones
Zeroed == <<0, 1>>   \* a block whose manifest was overwritten with zeros
Torn   == <<0, 2>>   \* a block programmed over a block that was not erased

Cells == (Images \X Blocks) \cup {Erased, Zeroed, Torn}
Contents == [Blocks -> Cells]
Memory == [Objects -> Contents]

ASSUME ImagesAssumption ==
  /\ NImages \in Nat
  /\ MaxVersion \in Nat
  /\ Version \in [Images -> 1 .. MaxVersion - 1]
  /\ Signed \subseteq Images

ASSUME LayoutAssumption ==
  /\ NSlots \in Nat \ {0}
  /\ SlotBlocks \in Nat \ {0}
  /\ PageBlocks \in Nat \ {0}
  /\ SwapBlocks \in 1 .. SlotBlocks
  /\ Bootable \subseteq Slots
  /\ Size \in [Images -> 1 .. SlotBlocks]

\* Every platform lists a bootable slot first.
ASSUME BootableFirst == 1 \in Bootable

----------------------------------------------------------------------------
(* The flash driver. *)

IsPageStart(b) == b % PageBlocks = 0

\* A mutant of ErasePage: the last block of the page is left as it was.
ErasePageShort(m, b) ==
  [x \in Blocks |-> IF b <= x /\ x < b + PageBlocks - 1 THEN Erased ELSE m[x]]

\* fdescr->erase at the page-aligned block b.
ErasePage(m, b) ==
  [x \in Blocks |-> IF b <= x /\ x < b + PageBlocks THEN Erased ELSE m[x]]

\* fdescr->program can only clear bits: a block that is not erased is spoiled,
\* unless it already holds the value.
ProgramBlock(m, b, c) ==
  [m EXCEPT ![b] = IF @ = Erased \/ @ = c THEN c ELSE Torn]

\* memory_open with WRITE_ALL after it erased the pages below block n, and
\* when every page was erased.
ErasedUpTo(m, n) == [b \in Blocks |-> IF b < n THEN Erased ELSE m[b]]
EraseAll == [b \in Blocks |-> Erased]

\* The first n blocks of image i in an object that was erased before.
Stored(i, n) == [b \in Blocks |-> IF b < n THEN <<i, b>> ELSE Erased]

\* invalidate_object: programming zeros succeeds whatever the block held.
InvalidateObject(m) == [m EXCEPT ![0] = Zeroed]

----------------------------------------------------------------------------
(* Reading a manifest. *)

VersionOf(m) ==
  IF m[0][1] \in Images THEN Version[m[0][1]]
  ELSE IF m[0] = Erased THEN MaxVersion ELSE 0

\* get_size + get_offset.  Both fields of an erased manifest are 0xFFFFFFFF,
\* their sum is 0xFFFFFFFE: more than any slot holds.
SizeOf(m) ==
  IF m[0][1] \in Images THEN Size[m[0][1]]
  ELSE IF m[0] = Erased THEN SlotBlocks + 1 ELSE 0

\* The object holds image i from its manifest to its last block.
Holds(m, i) == \A b \in 0 .. Size[i] - 1 : m[b] = <<i, b>>

\* verify_object: application id, both signatures and the digest of the
\* firmware that the manifest describes.
VerifyObject(m) == \E i \in Signed : Holds(m, i)

----------------------------------------------------------------------------
(* get_ordered_firmware as a relation on the versions that the manifests   *)
(* show; module OrderedFirmware has the loop.                              *)

Versions(mem) == [s \in Slots |-> VersionOf(mem[s])]

Candidates(prefer_bootable) == IF prefer_bootable THEN Bootable ELSE Slots

\* s has the highest (lowest) version of the candidates, and is the first of
\* those that have it.
NewestFirmware(ver, prefer_bootable, s) ==
  /\ s \in Candidates(prefer_bootable)
  /\ \A t \in Candidates(prefer_bootable) :
       \/ ver[t] < ver[s]
       \/ ver[t] = ver[s] /\ s <= t

OldestFirmware(ver, prefer_bootable, s) ==
  /\ s \in Candidates(prefer_bootable)
  /\ \A t \in Candidates(prefer_bootable) :
       \/ ver[s] < ver[t]
       \/ ver[t] = ver[s] /\ s <= t
=============================================================================
