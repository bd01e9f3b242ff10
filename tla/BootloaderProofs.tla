------------------------- MODULE BootloaderProofs -------------------------
(***************************************************************************)
(* The bootloader agent, for every set of images, every slot layout and    *)
(* every bound on resets and downloads: its variables keep their types in  *)
(* both builds and whatever fails, bootstrap happens once, and under the   *)
(* conditions that module Bootloader names it starts verified images only. *)
(* Over many updates the version it starts never decreases, and it always  *)
(* starts one.                                                             *)
(***************************************************************************)
EXTENDS Bootloader, SwapSlotsProofs

----------------------------------------------------------------------------
(* Operators of module Flash. *)

LEMMA ManifestTyped ==
  ASSUME NEW m \in Contents
  PROVE  VersionOf(m) \in 0 .. MaxVersion /\ SizeOf(m) \in 0 .. SlotBlocks + 1
<1>1. CASE m[0][1] \in Images
  <2>1. VersionOf(m) = Version[m[0][1]] /\ SizeOf(m) = Size[m[0][1]]
    BY <1>1 DEF VersionOf, SizeOf
  <2>2. Version[m[0][1]] \in 1 .. MaxVersion - 1
    BY <1>1, ImagesAssumption
  <2>3. Size[m[0][1]] \in 1 .. SlotBlocks
    BY <1>1, LayoutAssumption
  <2> QED BY <2>1, <2>2, <2>3, ImagesAssumption, LayoutAssumption
<1>2. CASE m[0][1] \notin Images
  <2>1. VersionOf(m) \in {0, MaxVersion} /\ SizeOf(m) \in {0, SlotBlocks + 1}
    BY <1>2 DEF VersionOf, SizeOf
  <2> QED BY <2>1, ImagesAssumption, LayoutAssumption
<1> QED BY <1>1, <1>2

LEMMA ContentsTyped ==
  /\ EraseAll \in Contents
  /\ \A i \in Images, n \in Int : Stored(i, n) \in Contents
  /\ \A m \in Contents : InvalidateObject(m) \in Contents
  /\ \A m \in Contents, n \in Int : ErasedUpTo(m, n) \in Contents
<1>1. EraseAll \in Contents
  BY DEF EraseAll, Contents, Cells
<1>2. \A i \in Images, n \in Int : Stored(i, n) \in Contents
  BY DEF Stored, Contents, Cells
<1>3. \A m \in Contents : InvalidateObject(m) \in Contents
  BY DEF InvalidateObject, Contents, Cells
<1>4. \A m \in Contents, n \in Int : ErasedUpTo(m, n) \in Contents
  BY DEF ErasedUpTo, Contents, Cells
<1> QED BY <1>1, <1>2, <1>3, <1>4

\* One object of a memory replaced by typed contents is a memory.
LEMMA UpdateTyped ==
  ASSUME NEW f \in Memory, NEW o \in Objects, NEW m \in Contents
  PROVE  [f EXCEPT ![o] = m] \in Memory
BY DEF Memory

LEMMA SizesTyped == \A i \in Images : Size[i] \in Nat /\ Size[i] - 1 \in Int
BY LayoutAssumption

----------------------------------------------------------------------------
(* Type correctness needs the bounds of the loops of swap_slots. *)

TypeInv == TypeOK /\ InLoop

LEMMA InitTyped == Init => TypeInv
<1> SUFFICES ASSUME Init PROVE TypeInv
  OBVIOUS
<1>1. FactoryContents \subseteq Contents
  BY ContentsTyped, SizesTyped DEF FactoryContents
<1>2. mem \in Memory
  BY <1>1 DEF Init, Memory
<1>3. 1 \in Slots
  BY LayoutAssumption DEF Slots
<1>4. /\ 0 \in 0 .. SlotBlocks + 1 /\ 0 \in 0 .. SwapBlocks
      /\ 1 \in 1 .. NSlots + 1 /\ 0 \in 0 .. MaxVersion
      /\ 0 \in 0 .. MaxResets /\ 0 \in 0 .. MaxDownloads
  BY LayoutAssumption, ImagesAssumption, ModesAssumption
<1>5. SwapTypeOK
  BY <1>2, <1>3, <1>4 DEF Init, SwapTypeOK
<1>6. InLoop
  BY DEF Init, InLoop, Phases
<1> QED BY <1>3, <1>4, <1>5, <1>6 DEF Init, TypeInv, TypeOK, Controls

\* The actions that leave the swap alone keep its part of the types.
LEMMA SwapUnchanged ==
  ASSUME TypeInv, UNCHANGED swapVars
  PROVE  SwapTypeOK' /\ InLoop'
BY DEF TypeInv, TypeOK, SwapTypeOK, InLoop, Chunk, swapVars

LEMMA RestartTyped ==
  ASSUME Restart, mem' \in Memory
  PROVE  /\ SwapTypeOK' /\ InLoop' /\ pc' \in Controls
         /\ event' \in Failures \cup {"EVENT_INIT", "EVENT_BOOT"}
         /\ id_newest_bootable' \in Slots /\ version_bootable' \in 0 .. MaxVersion
         /\ idx' \in 1 .. NSlots + 1 /\ boot_id' \in Slots
         /\ app_version' \in 0 .. MaxVersion
<1>3. 1 \in Slots
  BY LayoutAssumption DEF Slots
<1>4. /\ 0 \in 0 .. SlotBlocks + 1 /\ 0 \in 0 .. SwapBlocks
      /\ 1 \in 1 .. NSlots + 1 /\ 0 \in 0 .. MaxVersion
  BY LayoutAssumption, ImagesAssumption
<1>5. SwapTypeOK'
  BY <1>3, <1>4 DEF Restart, SwapTypeOK
<1>6. InLoop'
  BY DEF Restart, InLoop, Phases
<1> QED BY <1>3, <1>4, <1>5, <1>6 DEF Restart, Controls

LEMMA SlotVersion ==
  ASSUME mem \in Memory, NEW s \in Slots
  PROVE  /\ mem[s] \in Contents
         /\ VersionOf(mem[s]) \in 0 .. MaxVersion
         /\ SizeOf(mem[s]) \in 0 .. SlotBlocks + 1
<1>1. mem[s] \in Contents
  BY DEF Memory, Objects
<1> QED BY <1>1, ManifestTyped

\* The prologue of swap_slots enters the loop with its bounds established.
LEMMA SwapStartTyped ==
  ASSUME mem \in Memory, NEW s \in Slots, NEW d \in Slots, SwapStart(s, d), mem' = mem
  PROVE  SwapTypeOK' /\ InLoop'
<1>1. size' \in 0 .. SlotBlocks + 1
  BY SlotVersion DEF SwapStart, LargerSize
<1>2. offset' = 0 /\ full' = 0 /\ erased' = FALSE /\ src' = s /\ dst' = d
  BY DEF SwapStart
<1>3. spc' \in Phases \cup {"idle", "done", "error"} /\ (spc' \in Phases => size' > 0)
  BY DEF SwapStart, Phases
<1>4. size' > 0 => Chunk' > 0
  <2>1. size' \in Nat /\ SwapBlocks \in Nat /\ SwapBlocks > 0 /\ offset' \in Nat
    BY <1>1, <1>2, LayoutAssumption
  <2>2. Chunk' = size' - offset' \/ Chunk' = SwapBlocks
    BY DEF Chunk
  <2> QED BY <1>2, <2>1, <2>2
<1>5. 0 \in 0 .. SlotBlocks + 1 /\ 0 \in 0 .. SwapBlocks
  BY LayoutAssumption
<1> QED BY <1>1, <1>2, <1>3, <1>4, <1>5 DEF SwapTypeOK, InLoop

LEMMA GetNewestFirmwareTyped ==
  ASSUME TypeInv, GetNewestFirmware
  PROVE  TypeInv'
<1>1. SwapTypeOK' /\ InLoop'
  BY SwapUnchanged DEF GetNewestFirmware
<1>2. id_newest_bootable' \in Slots /\ version_bootable' \in 0 .. MaxVersion
  BY SlotVersion DEF GetNewestFirmware, TypeInv, TypeOK, SwapTypeOK
<1>3. pc' \in Controls /\ event' \in Failures \cup {"EVENT_INIT", "EVENT_BOOT"}
  BY DEF GetNewestFirmware, Fail, TypeInv, TypeOK, Controls, Failures
<1> QED BY <1>1, <1>2, <1>3 DEF GetNewestFirmware, TypeInv, TypeOK

LEMMA BootstrapTyped ==
  ASSUME TypeInv, Bootstrap
  PROVE  TypeInv'
<1>1. SwapTypeOK' /\ InLoop'
  BY SwapUnchanged DEF Bootstrap
<1>2. idx' \in 1 .. NSlots + 1
  BY LayoutAssumption DEF Bootstrap
<1>3. pc' \in Controls /\ event' \in Failures \cup {"EVENT_INIT", "EVENT_BOOT"}
  BY DEF Bootstrap, Fail, TypeInv, TypeOK, Controls, Failures
<1> QED BY <1>1, <1>2, <1>3 DEF Bootstrap, TypeInv, TypeOK

LEMMA InvalidateSlotTyped ==
  ASSUME TypeInv, InvalidateSlot
  PROVE  TypeInv'
<1>1. mem \in Memory /\ idx \in Nat /\ idx \in Objects
  BY LayoutAssumption DEF InvalidateSlot, TypeInv, TypeOK, SwapTypeOK, Objects, Slots
<1>2. mem[idx] \in Contents
  BY <1>1 DEF Memory
<1>3. mem' = mem \/ mem' = [mem EXCEPT ![idx] = InvalidateObject(mem[idx])]
  BY DEF InvalidateSlot
<1>4. mem' \in Memory
  BY <1>1, <1>2, <1>3, ContentsTyped, UpdateTyped
<1>5. SwapTypeOK' /\ InLoop'
  BY <1>4 DEF InvalidateSlot, TypeInv, TypeOK, SwapTypeOK, InLoop, Chunk
<1>6. idx' \in 1 .. NSlots + 1
  BY LayoutAssumption DEF InvalidateSlot, TypeInv, TypeOK
<1>7. pc' \in Controls /\ event' \in Failures \cup {"EVENT_INIT", "EVENT_BOOT"}
  BY DEF InvalidateSlot, Fail, TypeInv, TypeOK, Controls, Failures
<1> QED BY <1>5, <1>6, <1>7 DEF InvalidateSlot, TypeInv, TypeOK

LEMMA StoreBootloaderCtxTyped ==
  ASSUME TypeInv, StoreBootloaderCtx
  PROVE  TypeInv'
<1>1. SwapTypeOK' /\ InLoop'
  BY SwapUnchanged DEF StoreBootloaderCtx
<1>2. first_boot' \in BOOLEAN
  BY DEF StoreBootloaderCtx, TypeInv, TypeOK
<1>3. pc' \in Controls /\ event' \in Failures \cup {"EVENT_INIT", "EVENT_BOOT"}
  BY DEF StoreBootloaderCtx, Fail, TypeInv, TypeOK, Controls, Failures
<1> QED BY <1>1, <1>2, <1>3 DEF StoreBootloaderCtx, TypeInv, TypeOK

LEMMA GetNewestNonBootableTyped ==
  ASSUME TypeInv, GetNewestNonBootable
  PROVE  TypeInv'
<1>1. SwapTypeOK' /\ InLoop'
  BY DEF GetNewestNonBootable, TypeInv, TypeOK, SwapTypeOK, InLoop, Chunk
<1>2. pc' \in Controls /\ event' \in Failures \cup {"EVENT_INIT", "EVENT_BOOT"}
  BY DEF GetNewestNonBootable, Fail, TypeInv, TypeOK, Controls, Failures
<1> QED BY <1>1, <1>2 DEF GetNewestNonBootable, TypeInv, TypeOK

LEMMA ValidateNonBootableTyped ==
  ASSUME TypeInv, ValidateNonBootable
  PROVE  TypeInv'
<1>1. SwapTypeOK' /\ InLoop'
  BY SwapUnchanged DEF ValidateNonBootable
<1>2. pc' \in Controls /\ event' \in Failures \cup {"EVENT_INIT", "EVENT_BOOT"}
  BY DEF ValidateNonBootable, Fail, TypeInv, TypeOK, Controls, Failures
<1> QED BY <1>1, <1>2 DEF ValidateNonBootable, TypeInv, TypeOK

LEMMA UpgradeTyped ==
  ASSUME TypeInv, Upgrade
  PROVE  TypeInv'
<1>1. mem \in Memory /\ src \in Slots /\ mem' = mem
  BY DEF TypeInv, TypeOK, SwapTypeOK, Upgrade
<1>2. CASE \E d \in Slots : SwapStart(src, d) /\ version_bootable' = VersionOf(mem[d])
                            /\ pc' = "swap" /\ event' = event
  <2>1. PICK d \in Slots : SwapStart(src, d) /\ version_bootable' = VersionOf(mem[d])
    BY <1>2
  <2>2. SwapTypeOK' /\ InLoop'
    BY <1>1, <2>1, SwapStartTyped
  <2>3. version_bootable' \in 0 .. MaxVersion
    BY <1>1, <2>1, SlotVersion
  <2> QED BY <1>2, <2>2, <2>3 DEF Upgrade, TypeInv, TypeOK, Controls
<1>3. CASE UNCHANGED <<src, dst, spc, size, offset, full, erased, version_bootable>>
           /\ Fail("EVENT_UPGRADE_FAILURE")
  <2>1. SwapTypeOK' /\ InLoop'
    BY <1>1, <1>3, SwapUnchanged DEF swapVars
  <2> QED BY <1>3, <2>1 DEF Upgrade, Fail, TypeInv, TypeOK, Controls, Failures
<1> QED BY <1>2, <1>3 DEF Upgrade

LEMMA SwapStepTyped ==
  ASSUME TypeInv, SwapStep
  PROVE  TypeInv'
<1>1. SwapTypeOK' /\ InLoop'
  BY SwapNextTyped DEF SwapStep, TypeInv, TypeOK
<1> QED BY <1>1 DEF SwapStep, agentVars, TypeInv, TypeOK

LEMMA UpgradeCopyStopTyped ==
  ASSUME TypeInv, UpgradeCopyStop
  PROVE  TypeInv'
<1>1. SwapTypeOK' /\ InLoop' /\ boot_id' \in Slots
  BY DEF UpgradeCopyStop, TypeInv, TypeOK, SwapTypeOK, InLoop, Phases
<1>2. pc' \in Controls /\ event' \in Failures \cup {"EVENT_INIT", "EVENT_BOOT"}
  BY DEF UpgradeCopyStop, Fail, TypeInv, TypeOK, Controls, Failures
<1> QED BY <1>1, <1>2 DEF UpgradeCopyStop, TypeInv, TypeOK

LEMMA ValidateBootableTyped ==
  ASSUME TypeInv, ValidateBootable
  PROVE  TypeInv'
<1>1. SwapTypeOK' /\ InLoop'
  BY SwapUnchanged DEF ValidateBootable
<1>2. boot_id' \in Slots
  BY DEF ValidateBootable, TypeInv, TypeOK
<1>3. pc' \in Controls /\ event' \in Failures \cup {"EVENT_INIT", "EVENT_BOOT"}
  BY DEF ValidateBootable, Fail, TypeInv, TypeOK, Controls, Failures
<1> QED BY <1>1, <1>2, <1>3 DEF ValidateBootable, TypeInv, TypeOK

LEMMA BootTyped ==
  ASSUME TypeInv, Boot
  PROVE  TypeInv'
<1>1. SwapTypeOK' /\ InLoop'
  BY SwapUnchanged DEF Boot
<1>2. app_version' \in 0 .. MaxVersion /\ last_version' \in 0 .. MaxVersion
  BY SlotVersion DEF Boot, TypeInv, TypeOK, SwapTypeOK
<1>3. pc' \in Controls /\ event' \in Failures \cup {"EVENT_INIT", "EVENT_BOOT"}
  BY DEF Boot, Controls
<1> QED BY <1>1, <1>2, <1>3 DEF Boot, TypeInv, TypeOK

\* A download that does not end in a reboot changes one slot only.
LEMMA SlotWritten ==
  ASSUME TypeInv, NEW s \in Slots, NEW m \in Contents, mem' = [mem EXCEPT ![s] = m]
  PROVE  /\ mem' \in Memory
         /\ UNCHANGED <<src, dst, spc, size, offset, full, erased>> => SwapTypeOK' /\ InLoop'
<1>1. mem' \in Memory
  BY UpdateTyped DEF TypeInv, TypeOK, SwapTypeOK, Objects
<1> QED BY <1>1 DEF TypeInv, TypeOK, SwapTypeOK, InLoop, Chunk

LEMMA DownloadTyped ==
  ASSUME TypeInv, Download
  PROVE  TypeInv'
<1>1. PICK i \in Images, s \in Slots : DownloadComplete(i, s) \/ DownloadInterrupted(i, s)
  BY DEF Download
<1>2. /\ downloads' \in 0 .. MaxDownloads
      /\ UNCHANGED <<first_boot, last_version, resets>>
  <2>1. StartDownload(i, s)
    BY <1>1 DEF DownloadComplete, DownloadInterrupted
  <2>2. downloads < MaxDownloads /\ downloads' = downloads + 1
        /\ UNCHANGED <<first_boot, last_version, resets>>
    BY <2>1 DEF StartDownload
  <2>3. downloads \in 0 .. MaxDownloads
    BY DEF TypeInv, TypeOK
  <2> QED BY <2>2, <2>3, ModesAssumption
<1>3. PICK m \in Contents : mem' = [mem EXCEPT ![s] = m]
  <2>1. CASE mem' = [mem EXCEPT ![s] = Stored(i, Size[i])]
    <3>1. Stored(i, Size[i]) \in Contents
      BY ContentsTyped, SizesTyped
    <3> QED BY <2>1, <3>1
  <2>2. CASE \E n \in 0 .. Size[i] - 1 : mem' = [mem EXCEPT ![s] = Stored(i, n)]
    <3>1. PICK n \in 0 .. Size[i] - 1 : mem' = [mem EXCEPT ![s] = Stored(i, n)]
      BY <2>2
    <3>2. n \in Int
      BY SizesTyped
    <3>3. Stored(i, n) \in Contents
      BY <3>2, ContentsTyped
    <3> QED BY <3>1, <3>3
  <2>3. CASE \E n \in Blocks : mem' = [mem EXCEPT ![s] = ErasedUpTo(mem[s], n)]
    <3>1. mem[s] \in Contents
      BY SlotVersion DEF TypeInv, TypeOK, SwapTypeOK
    <3>2. Blocks \subseteq Int
      BY LayoutAssumption DEF Blocks
    <3> QED BY <2>3, <3>1, <3>2, ContentsTyped
  <2> QED BY <1>1, <2>1, <2>2, <2>3 DEF DownloadComplete, DownloadInterrupted
<1>4. mem' \in Memory
  BY <1>3, SlotWritten
<1>5. CASE Restart
  BY <1>2, <1>4, <1>5, RestartTyped DEF TypeInv, TypeOK
<1>6. CASE UNCHANGED <<src, dst, spc, size, offset, full, erased, pc, event,
                       id_newest_bootable, version_bootable, idx, boot_id, app_version>>
  <2>1. SwapTypeOK' /\ InLoop'
    BY <1>3, <1>6, SlotWritten
  <2> QED BY <1>2, <1>6, <2>1 DEF TypeInv, TypeOK
<1> QED BY <1>1, <1>5, <1>6 DEF DownloadComplete, DownloadInterrupted

LEMMA ResetTyped ==
  ASSUME TypeInv, Reset
  PROVE  TypeInv'
<1>1. mem' \in Memory
  BY DEF Reset, TypeInv, TypeOK, SwapTypeOK
<1>2. resets' \in 0 .. MaxResets
  BY ModesAssumption DEF Reset, TypeInv, TypeOK
<1> QED BY <1>1, <1>2, RestartTyped DEF Reset, TypeInv, TypeOK

LEMMA NextTyped == TypeInv /\ [Next]_vars => TypeInv'
<1>1. ASSUME TypeInv, BootStep PROVE TypeInv'
  BY <1>1, GetNewestFirmwareTyped, BootstrapTyped, InvalidateSlotTyped,
     StoreBootloaderCtxTyped, GetNewestNonBootableTyped, ValidateNonBootableTyped,
     UpgradeTyped, SwapStepTyped, UpgradeCopyStopTyped, ValidateBootableTyped,
     BootTyped DEF BootStep
<1>2. ASSUME TypeInv, UNCHANGED vars PROVE TypeInv'
  <2>1. SwapTypeOK' /\ InLoop'
    BY <1>2, SwapUnchanged DEF vars
  <2> QED BY <1>2, <2>1 DEF vars, agentVars, TypeInv, TypeOK
<1> QED BY <1>1, <1>2, DownloadTyped, ResetTyped DEF Next

\* Every variable of the bootloader keeps its type in both builds, whatever
\* fails and whenever power is lost: no loop leaves memory_slots[] or the
\* bounds of a swap.
THEOREM TypeCorrect == Spec => []TypeOK
<1>1. Spec => []TypeInv
  BY InitTyped, NextTyped, PTL DEF Spec
<1>2. TypeInv => TypeOK
  BY DEF TypeInv
<1> QED BY <1>1, <1>2, PTL

----------------------------------------------------------------------------
(* Bootstrap happens once.  The flag is down from the moment the context   *)
(* has been stored, so the invariant follows the control past that point.  *)

AfterBootstrap ==
  {"get_newest", "validate_non_bootable", "upgrade", "swap", "validate_bootable",
   "boot", "app"}

OnceInv ==
  /\ pc = "first_boot" => first_boot
  /\ pc \in AfterBootstrap => ~first_boot
  /\ last_version # 0 => ~first_boot

LEMMA InitOnce == Init => OnceInv
BY DEF Init, OnceInv, AfterBootstrap

LEMMA NextOnce == OnceInv /\ [Next]_vars => OnceInv'
<1> SUFFICES ASSUME OnceInv, [Next]_vars PROVE OnceInv'
  OBVIOUS
<1> USE DEF OnceInv, AfterBootstrap
<1>1. CASE GetNewestFirmware
  BY <1>1 DEF GetNewestFirmware, Fail
<1>2. CASE Bootstrap
  BY <1>2 DEF Bootstrap, Fail
<1>3. CASE InvalidateSlot
  BY <1>3 DEF InvalidateSlot, Fail
<1>4. CASE StoreBootloaderCtx
  BY <1>4 DEF StoreBootloaderCtx, Fail
<1>5. CASE GetNewestNonBootable
  BY <1>5 DEF GetNewestNonBootable, Fail
<1>6. CASE ValidateNonBootable
  BY <1>6 DEF ValidateNonBootable, Fail
<1>7. CASE Upgrade
  BY <1>7 DEF Upgrade, Fail
<1>8. CASE SwapStep
  BY <1>8 DEF SwapStep, agentVars
<1>9. CASE UpgradeCopyStop
  BY <1>9 DEF UpgradeCopyStop, Fail
<1>10. CASE ValidateBootable
  BY <1>10 DEF ValidateBootable, Fail
<1>11. CASE Boot
  BY <1>11 DEF Boot
<1>12. CASE Download
  <2>1. PICK i \in Images, t \in Slots : DownloadComplete(i, t) \/ DownloadInterrupted(i, t)
    BY <1>12 DEF Download
  <2>2. pc = "app" /\ UNCHANGED <<first_boot, last_version>>
    BY <2>1 DEF DownloadComplete, DownloadInterrupted, StartDownload
  <2>3. pc' = "init" \/ pc' = "app"
    BY <2>1, <2>2 DEF DownloadComplete, DownloadInterrupted, Restart
  <2> QED BY <2>2, <2>3
<1>13. CASE Reset
  BY <1>13 DEF Reset, Restart
<1>14. CASE UNCHANGED vars
  BY <1>14 DEF vars, agentVars
<1> QED BY <1>1, <1>2, <1>3, <1>4, <1>5, <1>6, <1>7, <1>8, <1>9, <1>10, <1>11,
           <1>12, <1>13, <1>14 DEF Next, BootStep

\* No run of the bootloader after the first boot invalidates a slot, for every
\* layout and in both builds, whatever fails and whenever power is lost.
THEOREM BootstrapIsOnce == Spec => []BootstrapOnce
<1>1. Spec => []OnceInv
  BY InitOnce, NextOnce, PTL DEF Spec
<1>2. OnceInv => BootstrapOnce
  BY DEF OnceInv, BootstrapOnce
<1> QED BY <1>1, <1>2, PTL

----------------------------------------------------------------------------
(* Only verified images are started. *)

LEMMA InvalidVersion ==
  ASSUME NEW m \in Contents
  PROVE  VersionOf(InvalidateObject(m)) = 0
<1>1. InvalidateObject(m)[0] = <<0, 1>>
  BY LayoutAssumption DEF InvalidateObject, Zeroed, Contents, Blocks
<1>2. 0 \notin Images
  BY ImagesAssumption DEF Images
<1>3. <<0, 1>> # <<0, 0>>
  OBVIOUS
<1>4. <<0, 1>>[1] = 0
  OBVIOUS
<1> QED BY <1>1, <1>2, <1>3, <1>4 DEF VersionOf, Erased

\* A verified object carries a complete image and its manifest.
LEMMA VerifiedManifest ==
  ASSUME NEW m \in Contents, NEW i \in Signed, Holds(m, i)
  PROVE  /\ VersionOf(m) = Version[i] /\ SizeOf(m) = Size[i]
         /\ i \in Images /\ Size[i] \in 1 .. SlotBlocks
         /\ Version[i] \in Nat /\ Version[i] < MaxVersion
<1>1. i \in Images /\ Size[i] \in 1 .. SlotBlocks
  BY ImagesAssumption, LayoutAssumption
<1>2. Version[i] \in 1 .. MaxVersion - 1
  BY <1>1, ImagesAssumption
<1>3. m[0] = <<i, 0>>
  BY <1>1, LayoutAssumption DEF Holds
<1>4. m[0][1] = i
  BY <1>3
<1> QED BY <1>1, <1>2, <1>4, ImagesAssumption DEF VersionOf, SizeOf

\* A version below that of erased flash belongs to a manifest whose size fits.
LEMMA SizeFits ==
  ASSUME NEW m \in Contents, VersionOf(m) < MaxVersion
  PROVE  SizeOf(m) \in 0 .. SlotBlocks
<1>1. CASE m[0][1] \in Images
  <2>1. SizeOf(m) = Size[m[0][1]]
    BY <1>1 DEF SizeOf
  <2>2. Size[m[0][1]] \in 1 .. SlotBlocks
    BY <1>1, LayoutAssumption
  <2> QED BY <2>1, <2>2, LayoutAssumption
<1>2. CASE m[0][1] \notin Images
  <2>1. m[0] # Erased
    BY <1>2, ImagesAssumption DEF VersionOf
  <2> QED BY <1>2, <2>1, LayoutAssumption DEF SizeOf
<1> QED BY <1>1, <1>2

\* Where the loop starts, its invariant holds and nothing has moved.
LEMMA SwapStartInv ==
  ASSUME mem \in Memory, mem' = mem, NEW s \in Slots, NEW d \in Slots, s # d,
         SizeOf(mem[s]) \in 1 .. SlotBlocks, SizeOf(mem[d]) \in 0 .. SlotBlocks,
         SwapStart(s, d)
  PROVE  /\ SwapInv' /\ SizeOf(mem[s]) <= size'
         /\ \A b \in Nat : SourceBlock(b)' = mem[s][b]
<1>1. size' \in 1 .. SlotBlocks /\ SizeOf(mem[s]) <= size'
  BY LayoutAssumption DEF SwapStart, LargerSize
<1>2. spc' = "to_swap" /\ offset' = 0 /\ full' = 0 /\ ~erased' /\ src' = s /\ dst' = d
  BY <1>1 DEF SwapStart
<1>3. SwapTypeOK' /\ InLoop'
  BY SwapStartTyped
<1>4. IsPageStart(offset)'
  <2>1. IsPageStart(offset') <=> IsPageStart(offset)'
    BY DEF IsPageStart
  <2> QED BY <1>2, <2>1, ZeroIsPageStart
<1>5. PageReady'
  <2>1. WriteBlock' = 0
    BY <1>2 DEF WriteBlock
  <2>2. IsPageStart(WriteBlock)' <=> IsPageStart(WriteBlock')
    BY DEF IsPageStart
  <2> QED BY <1>2, <2>1, <2>2, ZeroIsPageStart DEF PageReady
<1>6. Copied'
  BY <1>2 DEF Copied
<1>7. \A b \in Nat : SourceBlock(b)' = mem[s][b]
  BY <1>2 DEF SourceBlock, Moved
<1> QED BY <1>1, <1>2, <1>3, <1>4, <1>5, <1>6, <1>7 DEF SwapInv

LEMMA BootInvTyped == BootInv => TypeInv
BY DEF BootInv, TypeInv, ImageInTransit, SwapInv, InLoop, Phases

LEMMA InitBoot == Init => BootInv
BY InitTyped DEF Init, TypeInv, BootInv, BootableKnown, CandidateVerified,
                 ImageInTransit, BootValid

\* Most of the invariant is about the control points of an upgrade.
LEMMA ElsewhereBoot ==
  ASSUME TypeOK', spc' = "idle", pc' \in {"init", "app", "halted", "validate_bootable"}
  PROVE  BootInv'
BY DEF BootInv, BootableKnown, CandidateVerified, ImageInTransit, BootValid

LEMMA SelectionBoot ==
  ASSUME BootInv, TypeOK', GetNewestFirmware \/ Bootstrap \/ StoreBootloaderCtx
  PROVE  BootInv'
<1>1. spc = "idle" /\ UNCHANGED swapVars
  BY DEF BootInv, GetNewestFirmware, Bootstrap, StoreBootloaderCtx
<1>2. CASE pc' = "halted"
  BY <1>1, <1>2, ElsewhereBoot DEF swapVars
<1>3. CASE pc' # "halted"
  <2>1. pc' \in {"bootstrap", "first_boot", "get_newest"}
    BY <1>3 DEF GetNewestFirmware, Bootstrap, StoreBootloaderCtx, Fail
  <2>2. BootableKnown'
    <3>1. CASE GetNewestFirmware
      <4>1. PICK s \in Slots : /\ NewestFirmware(Versions(mem), TRUE, s)
                               /\ id_newest_bootable' = s
                               /\ version_bootable' = VersionOf(mem[s])
        BY <1>3, <3>1 DEF GetNewestFirmware, Fail
      <4>2. \A t \in Slots : Versions(mem)[t] = VersionOf(mem[t])
                             /\ VersionOf(mem[t]) \in Nat
        BY SlotVersion DEF Versions, BootInv, TypeOK, SwapTypeOK
      <4>3. \A t \in Bootable : t \in Slots /\ t \in Candidates(TRUE)
        BY LayoutAssumption DEF Candidates
      <4>4. \A t \in Bootable : VersionOf(mem[t]) <= VersionOf(mem[s])
        <5>1. TAKE t \in Bootable
        <5>2. \/ Versions(mem)[t] < Versions(mem)[s]
              \/ Versions(mem)[t] = Versions(mem)[s]
          BY <4>1, <4>3 DEF NewestFirmware
        <5>3. /\ Versions(mem)[t] = VersionOf(mem[t]) /\ VersionOf(mem[t]) \in Nat
              /\ Versions(mem)[s] = VersionOf(mem[s]) /\ VersionOf(mem[s]) \in Nat
          BY <4>2, <4>3
        <5> QED BY <5>2, <5>3
      <4> QED BY <1>1, <4>1, <4>4 DEF BootableKnown, swapVars
    <3>2. CASE Bootstrap \/ StoreBootloaderCtx
      BY <1>1, <3>2 DEF Bootstrap, StoreBootloaderCtx, BootInv, BootableKnown, swapVars
    <3> QED BY <3>1, <3>2
  <2> QED BY <1>1, <2>1, <2>2
          DEF BootInv, CandidateVerified, ImageInTransit, BootValid, swapVars
<1> QED BY <1>2, <1>3

LEMMA InvalidateSlotBoot ==
  ASSUME BootInv, TypeOK', InvalidateSlot
  PROVE  BootInv'
<1>1. /\ pc = "first_boot" /\ spc' = spc /\ spc = "idle"
      /\ UNCHANGED <<version_bootable, id_newest_bootable>>
  BY DEF BootInv, InvalidateSlot
<1>2. CASE pc' = "halted"
  BY <1>1, <1>2, ElsewhereBoot
<1>3. CASE pc' # "halted"
  <2>1. pc' = "first_boot" /\ (mem' = mem \/ (idx # id_newest_bootable
          /\ mem' = [mem EXCEPT ![idx] = InvalidateObject(mem[idx])]))
    BY <1>1, <1>3 DEF InvalidateSlot, Fail
  <2>2. idx \in Objects /\ mem \in Memory
    BY LayoutAssumption DEF InvalidateSlot, BootInv, TypeOK, SwapTypeOK, Objects, Slots
  <2>3. mem[idx] \in Contents
    BY <2>2 DEF Memory
  <2>4. VersionOf(InvalidateObject(mem[idx])) = 0
    BY <2>3, InvalidVersion
  <2>5. \A t \in Slots : t \in Objects
    BY DEF Objects
  <2>6. \A t \in Slots : mem'[t] = mem[t] \/ (t # id_newest_bootable /\ VersionOf(mem'[t]) = 0)
    BY <2>1, <2>2, <2>4, <2>5 DEF Memory
  <2>7. /\ version_bootable = VersionOf(mem[id_newest_bootable])
        /\ \A t \in Bootable : VersionOf(mem[t]) <= version_bootable
        /\ version_bootable \in Nat /\ id_newest_bootable \in Slots
    BY <1>1 DEF BootInv, BootableKnown, TypeOK
  <2>8. \A t \in Bootable : VersionOf(mem'[t]) <= version_bootable
    BY <2>6, <2>7, LayoutAssumption
  <2>9. BootableKnown'
    BY <1>1, <2>6, <2>7, <2>8 DEF BootableKnown
  <2> QED BY <1>1, <2>1, <2>9 DEF BootInv, CandidateVerified, ImageInTransit, BootValid
<1> QED BY <1>2, <1>3

\* The driver sees that the candidate is invalid, or it is not.
EventSeen == Coroutines \/ (pc = "validate_non_bootable" => VerifyObject(mem[src]))

LEMMA CandidateBoot ==
  ASSUME BootInv, TypeOK', EventSeen, GetNewestNonBootable \/ ValidateNonBootable
  PROVE  BootInv'
<1>1. /\ spc = "idle" /\ spc' = spc
      /\ UNCHANGED <<mem, version_bootable, id_newest_bootable>>
  BY DEF BootInv, GetNewestNonBootable, ValidateNonBootable, swapVars
<1>2. CASE pc' \in {"halted", "validate_bootable"}
  BY <1>1, <1>2, ElsewhereBoot
<1>3. CASE pc' \notin {"halted", "validate_bootable"}
  <2>1. pc' \in {"validate_non_bootable", "upgrade"}
        /\ pc \in {"get_newest", "validate_non_bootable"}
    BY <1>3 DEF GetNewestNonBootable, ValidateNonBootable, Fail
  <2>2. BootableKnown'
    BY <1>1, <2>1 DEF BootInv, BootableKnown
  <2>3. CandidateVerified'
    <3>1. CASE GetNewestNonBootable
      BY <1>1, <1>3, <3>1 DEF GetNewestNonBootable, Fail, CandidateVerified
    <3>2. CASE ValidateNonBootable
      BY <1>1, <1>3, <3>2 DEF ValidateNonBootable, EventSeen, Fail, swapVars, BootInv, CandidateVerified
    <3> QED BY <3>1, <3>2
  <2> QED BY <1>1, <2>1, <2>2, <2>3 DEF BootInv, ImageInTransit, BootValid
<1> QED BY <1>2, <1>3

\* The destination is older than the verified candidate, so it is another
\* slot and its manifest is not erased: the swap starts within the slots.
LEMMA UpgradeBoot ==
  ASSUME BootInv, TypeOK', Upgrade
  PROVE  BootInv'
<1>1. /\ pc = "upgrade" /\ spc = "idle" /\ mem' = mem /\ mem \in Memory /\ src \in Slots
      /\ VerifyObject(mem[src])
      /\ version_bootable < VersionOf(mem[src])
      /\ version_bootable \in Nat
      /\ \A t \in Bootable : VersionOf(mem[t]) <= version_bootable
  BY DEF Upgrade, BootInv, TypeOK, SwapTypeOK, CandidateVerified, BootableKnown
<1>2. CASE pc' = "halted"
  <2>1. spc' = spc
    BY <1>2 DEF Upgrade
  <2> QED BY <1>1, <1>2, <2>1, ElsewhereBoot
<1>3. CASE pc' # "halted"
  <2>1. PICK d \in Slots : OldestFirmware(Versions(mem), TRUE, d) /\ SwapStart(src, d) /\ pc' = "swap"
    BY <1>3 DEF Upgrade, Fail
  <2>2. PICK i \in Signed : Holds(mem[src], i)
    BY <1>1 DEF VerifyObject
  <2>3. /\ VersionOf(mem[src]) = Version[i] /\ SizeOf(mem[src]) = Size[i]
        /\ Size[i] \in 1 .. SlotBlocks /\ Version[i] \in Nat /\ Version[i] < MaxVersion
    BY <1>1, <2>2, SlotVersion, VerifiedManifest
  <2>4. d \in Bootable /\ VersionOf(mem[d]) \in Nat /\ mem[d] \in Contents
    BY <1>1, <2>1, SlotVersion DEF OldestFirmware, Candidates
  <2>5. VersionOf(mem[d]) < VersionOf(mem[src]) /\ VersionOf(mem[d]) < MaxVersion
    BY <1>1, <2>3, <2>4, ImagesAssumption
  <2>6. d # src /\ SizeOf(mem[d]) \in 0 .. SlotBlocks
    BY <2>4, <2>5, SizeFits
  <2>7. /\ SwapInv' /\ Size[i] <= size'
        /\ \A b \in Nat : SourceBlock(b)' = mem[src][b]
    BY <1>1, <2>1, <2>3, <2>6, SwapStartInv
  <2>8. \A b \in 0 .. Size[i] - 1 : SourceBlock(b)' = <<i, b>>
    BY <2>2, <2>3, <2>7 DEF Holds
  <2>9. ImageInTransit'
    BY <2>7, <2>8 DEF ImageInTransit
  <2> QED BY <2>1, <2>9 DEF BootInv, BootableKnown, CandidateVerified, BootValid
<1> QED BY <1>2, <1>3

LEMMA SwapStepBoot ==
  ASSUME BootInv, TypeOK', PagesFitChunk, ErrorsReported, SwapStep
  PROVE  BootInv'
<1>1. pc = "swap" /\ pc' = "swap"
  BY DEF SwapStep, agentVars
<1>2. /\ SwapInv' /\ size' = size
      /\ \A b \in 0 .. size - 1 : SourceBlock(b)' = SourceBlock(b)
  BY <1>1, SwapNextKeeps DEF SwapStep, BootInv, ImageInTransit
<1>3. PICK i \in Signed : /\ Size[i] <= size
                          /\ \A b \in 0 .. Size[i] - 1 : SourceBlock(b) = <<i, b>>
  BY <1>1 DEF BootInv, ImageInTransit
<1>4. Size[i] \in Nat /\ size \in Nat
  BY <1>3, SizesTyped, ImagesAssumption, LayoutAssumption DEF BootInv, TypeOK, SwapTypeOK
<1>5. \A b \in 0 .. Size[i] - 1 : SourceBlock(b)' = <<i, b>>
  BY <1>2, <1>3, <1>4
<1>6. ImageInTransit'
  BY <1>2, <1>3, <1>5 DEF ImageInTransit
<1> QED BY <1>1, <1>6 DEF BootInv, BootableKnown, CandidateVerified, BootValid

\* A finished swap leaves the verified image in the destination.
LEMMA UpgradeCopyStopBoot ==
  ASSUME BootInv, TypeOK', UpgradeCopyStop
  PROVE  BootInv'
<1>1. pc = "swap" /\ spc' = "idle" /\ mem' = mem
  BY DEF UpgradeCopyStop
<1>2. CASE pc' = "halted"
  BY <1>1, <1>2, ElsewhereBoot
<1>3. CASE pc' # "halted"
  <2>1. spc = "done" /\ boot_id' = dst /\ pc' = "boot"
    BY <1>3 DEF UpgradeCopyStop, Fail
  <2>2. PICK i \in Signed : /\ Size[i] <= size
                            /\ \A b \in 0 .. Size[i] - 1 : SourceBlock(b) = <<i, b>>
    BY <1>1 DEF BootInv, ImageInTransit
  <2>3. Size[i] \in Nat /\ size \in Nat
    BY <2>2, SizesTyped, ImagesAssumption, LayoutAssumption DEF BootInv, TypeOK, SwapTypeOK
  <2>4. SwapInv
    BY <1>1 DEF BootInv, ImageInTransit
  <2>5. \A b \in 0 .. Size[i] - 1 : mem[dst][b] = <<i, b>>
    BY <2>1, <2>2, <2>3, <2>4, DoneIsExchanged
  <2>6. BootValid'
    BY <1>1, <2>1, <2>5 DEF BootValid, VerifyObject, Holds
  <2> QED BY <1>1, <2>1, <2>6 DEF BootInv, BootableKnown, CandidateVerified, ImageInTransit
<1> QED BY <1>2, <1>3

LEMMA ValidateBootableBoot ==
  ASSUME BootInv, TypeOK', ValidateBootable
  PROVE  BootInv'
<1>1. pc = "validate_bootable" /\ spc' = "idle" /\ mem' = mem
  BY DEF ValidateBootable, BootInv, swapVars
<1>2. CASE pc' = "halted"
  BY <1>1, <1>2, ElsewhereBoot
<1>3. CASE pc' # "halted"
  <2>1. VerifyObject(mem[id_newest_bootable]) /\ boot_id' = id_newest_bootable /\ pc' = "boot"
    BY <1>3 DEF ValidateBootable, Fail
  <2>2. BootValid'
    BY <1>1, <2>1 DEF BootValid, VerifyObject, Holds
  <2> QED BY <1>1, <2>1, <2>2 DEF BootInv, BootableKnown, CandidateVerified, ImageInTransit
<1> QED BY <1>2, <1>3

LEMMA EnvironmentBoot ==
  ASSUME BootInv, TypeOK', Boot \/ Download \/ Reset
  PROVE  BootInv'
<1>1. CASE Boot
  <2>1. spc' = "idle" /\ pc' \in {"app", "halted"}
    BY <1>1 DEF Boot, BootInv, swapVars
  <2> QED BY <2>1, ElsewhereBoot
<1>2. CASE Download
  <2>1. PICK i \in Images, t \in Slots : DownloadComplete(i, t) \/ DownloadInterrupted(i, t)
    BY <1>2 DEF Download
  <2>2. pc = "app" /\ spc = "idle"
    BY <2>1 DEF DownloadComplete, DownloadInterrupted, StartDownload, BootInv
  <2>3. spc' = "idle" /\ pc' \in {"init", "app"}
    BY <2>1, <2>2 DEF DownloadComplete, DownloadInterrupted, Restart
  <2> QED BY <2>3, ElsewhereBoot
<1>3. CASE Reset
  <2>1. spc' = "idle" /\ pc' = "init"
    BY <1>3 DEF Reset, Restart
  <2> QED BY <2>1, ElsewhereBoot
<1> QED BY <1>1, <1>2, <1>3

LEMMA NextBoot ==
  ASSUME PagesFitChunk, ErrorsReported
  PROVE  BootInv /\ EventSeen /\ [Next]_vars => BootInv'
<1> SUFFICES ASSUME BootInv, EventSeen, [Next]_vars PROVE BootInv'
  OBVIOUS
<1>1. TypeOK'
  BY BootInvTyped, NextTyped DEF TypeInv
<1>2. CASE UNCHANGED vars
  BY <1>1, <1>2 DEF vars, swapVars, agentVars, BootInv, BootableKnown, CandidateVerified,
     ImageInTransit, BootValid, SwapInv, InLoop, SwapTypeOK, PageReady, Copied, Chunk,
     WriteBlock, WriteObject, SourceBlock, Moved, InChunk
<1>3. CASE Next
  BY <1>1, <1>3, SelectionBoot, InvalidateSlotBoot, CandidateBoot, UpgradeBoot,
     SwapStepBoot, UpgradeCopyStopBoot, ValidateBootableBoot, EnvironmentBoot
     DEF Next, BootStep
<1> QED BY <1>2, <1>3

\* With events that reach the driver, chunks of whole pages and no lost error,
\* whatever is about to be started was verified and is complete: the candidate
\* before the swap, the three objects together during it, the destination after.
THEOREM BootInvariant ==
  ASSUME Coroutines, PagesFitChunk, ErrorsReported
  PROVE  Spec => []BootInv
<1>1. BootInv /\ [Next]_vars => BootInv'
  BY NextBoot DEF EventSeen
<1> QED BY <1>1, InitBoot, PTL DEF Spec

\* Under the same conditions the bootloader starts verified images only: for
\* every set of images, every layout, every number of resets at any point and
\* any history of downloads.
THEOREM BootsVerifiedOnly ==
  ASSUME Coroutines, PagesFitChunk, ErrorsReported
  PROVE  Spec => []BootValid
<1>1. BootInv => BootValid
  BY DEF BootInv
<1> QED BY <1>1, BootInvariant, PTL

----------------------------------------------------------------------------
(* Bootstrap is complete.  Until the first application runs, the slot that *)
(* is chosen stays the same over every power loss and failure: it verifies,*)
(* so that its version is above 0, and the versions of the others are only *)
(* lowered.  Once the flag is down, nothing else carries a version, so that*)
(* no upgrade can begin.  A started image verifies, hence last_version is  *)
(* never 0 again.                                                          *)

BeforeFirstApp ==
  {"init", "bootstrap", "first_boot", "get_newest", "validate_bootable", "boot", "halted"}

ChosenVerifies ==
  \A s \in Slots : NewestFirmware(Versions(mem), TRUE, s) => VerifyObject(mem[s])

ChosenKept ==
  pc \in {"bootstrap", "first_boot", "get_newest", "validate_bootable"} =>
    /\ NewestFirmware(Versions(mem), TRUE, id_newest_bootable)
    /\ version_bootable = VersionOf(mem[id_newest_bootable])

WipedSoFar ==
  pc = "first_boot" =>
    \A s \in Slots \ {id_newest_bootable} : s < idx => VersionOf(mem[s]) = 0

Wiped ==
  ~first_boot =>
    \E g \in Slots : /\ NewestFirmware(Versions(mem), TRUE, g)
                     /\ \A s \in Slots \ {g} : VersionOf(mem[s]) = 0

WipeInv ==
  /\ BootInv
  /\ OnceInv
  /\ last_version = 0 => /\ pc \in BeforeFirstApp
                         /\ ChosenVerifies /\ ChosenKept /\ WipedSoFar /\ Wiped

LEMMA WipeTyped ==
  ASSUME WipeInv
  PROVE  /\ mem \in Memory /\ id_newest_bootable \in Slots /\ idx \in 1 .. NSlots + 1
         /\ boot_id \in Slots /\ last_version \in 0 .. MaxVersion
BY DEF WipeInv, BootInv, TypeOK, SwapTypeOK

LEMMA SlotContents ==
  ASSUME mem \in Memory, NEW s \in Slots
  PROVE  mem[s] \in Contents /\ VersionOf(mem[s]) \in Nat /\ Versions(mem)[s] = VersionOf(mem[s])
<1>1. mem[s] \in Contents /\ VersionOf(mem[s]) \in 0 .. MaxVersion
  BY SlotVersion
<1> QED BY <1>1, ImagesAssumption DEF Versions

LEMMA VerifiedVersion ==
  ASSUME mem \in Memory, NEW s \in Slots, VerifyObject(mem[s])
  PROVE  VersionOf(mem[s]) > 0
<1>1. mem[s] \in Contents
  BY SlotContents
<1>2. PICK i \in Signed : Holds(mem[s], i)
  BY DEF VerifyObject
<1>3. VersionOf(mem[s]) = Version[i] /\ i \in Images
  BY <1>1, <1>2, VerifiedManifest
<1> QED BY <1>3, ImagesAssumption

LEMMA NewestUnique ==
  ASSUME mem \in Memory, NEW s \in Slots, NEW t \in Slots,
         NewestFirmware(Versions(mem), TRUE, s), NewestFirmware(Versions(mem), TRUE, t)
  PROVE  s = t
<1>1. s \in Nat /\ t \in Nat
  BY LayoutAssumption DEF Slots
<1>2. VersionOf(mem[s]) \in Nat /\ Versions(mem)[s] = VersionOf(mem[s])
  BY SlotContents
<1>3. VersionOf(mem[t]) \in Nat /\ Versions(mem)[t] = VersionOf(mem[t])
  BY SlotContents
<1>4. /\ \/ Versions(mem)[t] < Versions(mem)[s]
         \/ Versions(mem)[t] = Versions(mem)[s] /\ s <= t
      /\ \/ Versions(mem)[s] < Versions(mem)[t]
         \/ Versions(mem)[s] = Versions(mem)[t] /\ t <= s
  BY Zenon DEF NewestFirmware
<1> QED BY <1>1, <1>2, <1>3, <1>4

\* Only the chosen slot has a version once the flag is down.
LEMMA OthersWiped ==
  ASSUME WipeInv, last_version = 0, pc = "get_newest"
  PROVE  \A s \in Slots \ {id_newest_bootable} : VersionOf(mem[s]) = 0
<1>1. ~first_boot
  BY DEF WipeInv, OnceInv, AfterBootstrap
<1>2. PICK g \in Slots : /\ NewestFirmware(Versions(mem), TRUE, g)
                         /\ \A s \in Slots \ {g} : VersionOf(mem[s]) = 0
  BY <1>1 DEF WipeInv, Wiped
<1>3. NewestFirmware(Versions(mem), TRUE, id_newest_bootable) /\ id_newest_bootable \in Slots
  BY WipeTyped DEF WipeInv, ChosenKept
<1>4. id_newest_bootable = g
  BY <1>2, <1>3, NewestUnique, WipeTyped
<1> QED BY <1>2, <1>4

LEMMA InitWipe == Init => WipeInv
<1> SUFFICES ASSUME Init PROVE WipeInv
  OBVIOUS
<1>1. BootInv /\ OnceInv
  BY InitBoot, InitOnce
<1>2. \A s \in Bootable : NewestFirmware(Versions(mem), TRUE, s) => VerifyObject(mem[s])
  BY DEF Init
<1>3. ChosenVerifies
  BY <1>2 DEF ChosenVerifies, NewestFirmware, Candidates
<1> QED BY <1>1, <1>3 DEF Init, WipeInv, BeforeFirstApp, ChosenKept, WipedSoFar, Wiped

LEMMA InvalidateSlotWipe ==
  ASSUME WipeInv, last_version = 0, InvalidateSlot
  PROVE  /\ pc' \in BeforeFirstApp
         /\ ChosenVerifies' /\ ChosenKept' /\ WipedSoFar' /\ Wiped'
<1>1. pc = "first_boot" /\ first_boot /\ first_boot'
  BY DEF WipeInv, OnceInv, InvalidateSlot
<1>2. /\ id_newest_bootable \in Slots /\ idx \in Slots
      /\ mem \in Memory
  BY <1>1, WipeTyped, LayoutAssumption DEF InvalidateSlot, Slots
<1>5. /\ ChosenVerifies
      /\ NewestFirmware(Versions(mem), TRUE, id_newest_bootable)
      /\ version_bootable = VersionOf(mem[id_newest_bootable])
  BY <1>1 DEF WipeInv, ChosenKept
<1>3. CASE UNCHANGED mem /\ pc' = "halted"
  BY <1>1, <1>5, <1>3
     DEF InvalidateSlot, BeforeFirstApp, ChosenVerifies, ChosenKept, WipedSoFar, Wiped
<1>4. CASE /\ mem' = IF idx = id_newest_bootable THEN mem
                     ELSE [mem EXCEPT ![idx] = InvalidateObject(@)]
           /\ idx' = idx + 1 /\ pc' = "first_boot"
  <2>1. UNCHANGED <<id_newest_bootable, version_bootable>>
    BY DEF InvalidateSlot
  <2>2. \A s \in Slots : mem'[s] = IF s = idx /\ idx # id_newest_bootable
                                   THEN InvalidateObject(mem[s]) ELSE mem[s]
    BY <1>2, <1>4 DEF Memory, Objects
  <2>3. \A s \in Slots : VersionOf(mem'[s]) = IF s = idx /\ idx # id_newest_bootable
                                              THEN 0 ELSE VersionOf(mem[s])
    BY <2>2, <1>2, SlotContents, InvalidVersion
  <2>4. \A s \in Slots : /\ Versions(mem)[s] = VersionOf(mem[s])
                         /\ Versions(mem')[s] = VersionOf(mem'[s])
                         /\ VersionOf(mem[s]) \in Nat
    BY <1>2, SlotContents DEF Versions
  <2>5. Bootable \subseteq Slots /\ Slots \subseteq Nat
    BY LayoutAssumption DEF Slots
  <2>6. VersionOf(mem[id_newest_bootable]) > 0
    BY <1>2, <1>5, VerifiedVersion DEF ChosenVerifies
  <2>7. NewestFirmware(Versions(mem'), TRUE, id_newest_bootable)
    BY <1>2, <1>5, <2>3, <2>4, <2>5, <2>6 DEF NewestFirmware, Candidates
  <2>8. ChosenVerifies'
    <3> SUFFICES ASSUME NEW s \in Slots, NewestFirmware(Versions(mem'), TRUE, s)
                 PROVE  VerifyObject(mem'[s])
      BY DEF ChosenVerifies
    <3>1. \A t \in Slots : Versions(mem')[t] \in Nat
      BY <2>3, <2>4
    <3>2. s = id_newest_bootable
      BY <1>2, <2>5, <2>7, <3>1 DEF NewestFirmware, Candidates
    <3>3. mem'[s] = mem[s]
      BY <2>2, <3>2
    <3> QED BY <1>2, <1>5, <3>2, <3>3 DEF ChosenVerifies
  <2>9. WipedSoFar'
    <3>1. \A s \in Slots \ {id_newest_bootable} : s < idx => VersionOf(mem[s]) = 0
      BY <1>1 DEF WipeInv, WipedSoFar
    <3>2. \A s \in Slots : s < idx + 1 => s < idx \/ s = idx
      BY <1>2, <2>5
    <3> QED BY <1>4, <2>1, <2>3, <3>1, <3>2 DEF WipedSoFar
  <2>10. ChosenKept'
    BY <1>2, <1>5, <2>1, <2>3, <2>7 DEF ChosenKept
  <2> QED BY <1>1, <1>4, <2>8, <2>9, <2>10 DEF BeforeFirstApp, Wiped
<1> QED BY <1>1, <1>3, <1>4 DEF InvalidateSlot, Fail

LEMMA StoreWipe ==
  ASSUME WipeInv, last_version = 0, StoreBootloaderCtx
  PROVE  /\ pc' \in BeforeFirstApp
         /\ ChosenVerifies' /\ ChosenKept' /\ WipedSoFar' /\ Wiped'
<1>1. /\ pc = "first_boot" /\ idx > NSlots /\ pc' \in {"get_newest", "halted"}
      /\ UNCHANGED <<mem, id_newest_bootable, version_bootable>>
  BY DEF StoreBootloaderCtx, Fail, swapVars
<1>2. /\ ChosenVerifies
      /\ NewestFirmware(Versions(mem), TRUE, id_newest_bootable)
      /\ version_bootable = VersionOf(mem[id_newest_bootable])
      /\ \A s \in Slots \ {id_newest_bootable} : s < idx => VersionOf(mem[s]) = 0
  BY <1>1 DEF WipeInv, ChosenKept, WipedSoFar
<1>3. \A s \in Slots : s < idx
  BY <1>1, WipeTyped, LayoutAssumption DEF Slots
<1>4. Wiped'
  BY <1>1, <1>2, <1>3, WipeTyped DEF Wiped
<1> QED BY <1>1, <1>2, <1>4 DEF BeforeFirstApp, ChosenVerifies, ChosenKept, WipedSoFar

\* The choices of a run change nothing in the slots.
LEMMA ChoiceWipe ==
  ASSUME WipeInv, last_version = 0,
         \/ GetNewestFirmware \/ Bootstrap \/ GetNewestNonBootable \/ ValidateBootable
         \/ Reset \/ UNCHANGED vars
  PROVE  /\ pc' \in BeforeFirstApp
         /\ ChosenVerifies' /\ ChosenKept' /\ WipedSoFar' /\ Wiped'
<1> USE DEF WipeInv, BeforeFirstApp
<1>1. UNCHANGED mem /\ UNCHANGED first_boot
  BY DEF GetNewestFirmware, Bootstrap, GetNewestNonBootable, ValidateBootable, Reset,
         vars, swapVars, agentVars
<1>2. ChosenVerifies' /\ Wiped'
  BY <1>1 DEF ChosenVerifies, Wiped
<1>3. CASE GetNewestFirmware
  <2>1. CASE pc' = "halted"
    BY <1>2, <2>1 DEF ChosenKept, WipedSoFar
  <2>2. CASE pc' # "halted"
    <3>1. PICK s \in Slots : /\ NewestFirmware(Versions(mem), TRUE, s)
                             /\ id_newest_bootable' = s
                             /\ version_bootable' = VersionOf(mem[s])
                             /\ pc' = "bootstrap"
      BY <1>3, <2>2 DEF GetNewestFirmware, Fail
    <3>2. ChosenKept'
      BY <1>1, <3>1 DEF ChosenKept
    <3> QED BY <1>2, <3>1, <3>2 DEF WipedSoFar
  <2> QED BY <2>1, <2>2
<1>4. CASE Bootstrap
  <2>1. /\ pc = "bootstrap" /\ pc' \in {"first_boot", "get_newest", "halted"} /\ idx' = 1
        /\ UNCHANGED <<id_newest_bootable, version_bootable>>
    BY <1>4 DEF Bootstrap, Fail
  <2>2. \A s \in Slots : ~(s < 1)
    BY LayoutAssumption DEF Slots
  <2>3. WipedSoFar'
    BY <2>1, <2>2 DEF WipedSoFar
  <2>4. ChosenKept'
    BY <1>1, <2>1 DEF ChosenKept
  <2> QED BY <1>2, <2>1, <2>3, <2>4
<1>5. CASE GetNewestNonBootable
  <2>1. \A s \in Slots \ {id_newest_bootable} : VersionOf(mem[s]) = 0
    BY <1>5, OthersWiped DEF GetNewestNonBootable
  <2>2. version_bootable = VersionOf(mem[id_newest_bootable])
    BY <1>5 DEF GetNewestNonBootable, ChosenKept
  <2>3. \A s \in Slots : ~(version_bootable < VersionOf(mem[s]))
    BY <2>1, <2>2, SlotContents, WipeTyped
  <2>4. pc' \in {"validate_bootable", "halted"}
    BY <1>5, <2>3 DEF GetNewestNonBootable, Fail
  <2> QED BY <1>1, <1>2, <1>5, <2>4 DEF GetNewestNonBootable, ChosenKept, WipedSoFar
<1>6. CASE ValidateBootable
  BY <1>1, <1>2, <1>6 DEF ValidateBootable, Fail, ChosenKept, WipedSoFar
<1>7. CASE Reset
  BY <1>1, <1>2, <1>7 DEF Reset, Restart, ChosenKept, WipedSoFar
<1>8. CASE UNCHANGED vars
  BY <1>1, <1>2, <1>8 DEF vars, agentVars, ChosenKept, WipedSoFar
<1> QED BY <1>3, <1>4, <1>5, <1>6, <1>7, <1>8

LEMMA BootWipe ==
  ASSUME WipeInv, Boot, last_version' = 0
  PROVE  /\ last_version = 0
         /\ pc' \in BeforeFirstApp
         /\ ChosenVerifies' /\ ChosenKept' /\ WipedSoFar' /\ Wiped'
<1>1. VerifyObject(mem[boot_id])
  BY DEF WipeInv, BootInv, BootValid, Boot
<1>2. VersionOf(mem[boot_id]) > 0 /\ VersionOf(mem[boot_id]) \in Nat
  BY <1>1, WipeTyped, VerifiedVersion, SlotContents
<1>3. last_version' # VersionOf(mem[boot_id])
  BY <1>2
<1>4. pc' = "halted" /\ UNCHANGED <<mem, first_boot, last_version>>
  BY <1>3, Zenon DEF Boot, swapVars
<1> QED BY <1>4 DEF WipeInv, BeforeFirstApp, ChosenVerifies, ChosenKept, WipedSoFar, Wiped

LEMMA NextWipe ==
  ASSUME PagesFitChunk, ErrorsReported
  PROVE  WipeInv /\ EventSeen /\ [Next]_vars => WipeInv'
<1> SUFFICES ASSUME WipeInv, EventSeen, [Next]_vars, last_version' = 0
             PROVE  /\ pc' \in BeforeFirstApp
                    /\ ChosenVerifies' /\ ChosenKept' /\ WipedSoFar' /\ Wiped'
  BY NextBoot, NextOnce DEF WipeInv
<1>1. CASE Boot
  BY <1>1, BootWipe
<1>2. CASE ~Boot
  <2>1. CASE Download
    <3>1. PICK i \in Images, t \in Slots : DownloadComplete(i, t) \/ DownloadInterrupted(i, t)
      BY <2>1 DEF Download
    <3>2. pc = "app" /\ UNCHANGED last_version
      BY <3>1 DEF DownloadComplete, DownloadInterrupted, StartDownload
    <3> QED BY <3>2 DEF WipeInv, BeforeFirstApp
  <2>2. CASE ~Download
    <3>1. last_version = 0
      BY <1>2, <2>2 DEF Next, BootStep, GetNewestFirmware, Bootstrap, InvalidateSlot,
         StoreBootloaderCtx, GetNewestNonBootable, ValidateNonBootable, Upgrade, SwapStep,
         UpgradeCopyStop, ValidateBootable, Reset, vars, agentVars
    <3>2. pc \in BeforeFirstApp
      BY <3>1 DEF WipeInv
    <3>3. ~(ValidateNonBootable \/ Upgrade \/ SwapStep \/ UpgradeCopyStop)
      BY <3>2 DEF BeforeFirstApp, ValidateNonBootable, Upgrade, SwapStep, UpgradeCopyStop
    <3> QED BY <1>2, <2>2, <3>1, <3>3, InvalidateSlotWipe, StoreWipe, ChoiceWipe
            DEF Next, BootStep
  <2> QED BY <2>1, <2>2
<1> QED BY <1>1, <1>2

\* After bootstrap no slot but the chosen one holds anything that could be
\* upgraded to, for every layout and factory contents, however often power is
\* lost or an access fails while the slots are invalidated.
THEOREM BootstrapIsComplete ==
  ASSUME Coroutines, PagesFitChunk, ErrorsReported
  PROVE  Spec => []BootstrapWipesOthers
<1>1. WipeInv => BootstrapWipesOthers
  <2> SUFFICES ASSUME WipeInv, pc = "get_newest", last_version = 0,
                      NEW s \in Slots \ {id_newest_bootable}
               PROVE  ~VerifyObject(mem[s])
    BY DEF BootstrapWipesOthers
  <2>1. VersionOf(mem[s]) = 0
    BY OthersWiped
  <2> QED BY <2>1, VerifiedVersion, WipeTyped
<1>2. WipeInv /\ [Next]_vars => WipeInv'
  BY NextWipe DEF EventSeen
<1> QED BY <1>1, <1>2, InitWipe, PTL DEF Spec

----------------------------------------------------------------------------
(* Versions never go back.  Only the manifest counts, the first block of a *)
(* slot, so that nothing is needed of the build, of the size of pages, of  *)
(* what verifies, or of the other errors that swap_slots drops.            *)

\* Some bootable slot shows at least the version that was started last; an
\* erased manifest shows the highest of all.
VersionKept == \E t \in Bootable : VersionOf(mem[t]) >= last_version

Choosing ==
  {"bootstrap", "first_boot", "get_newest", "validate_non_bootable", "upgrade",
   "validate_bootable"}

NewestKnown ==
  pc \in Choosing =>
    /\ id_newest_bootable \in Bootable
    /\ version_bootable = VersionOf(mem[id_newest_bootable])
    /\ \A t \in Bootable : VersionOf(mem[t]) <= version_bootable

CandidateNewer ==
  pc \in {"validate_non_bootable", "upgrade"} => version_bootable < VersionOf(mem[src])

\* What a first block shows as version.
ManifestVersion(c) ==
  IF c[1] \in Images THEN Version[c[1]] ELSE IF c = Erased THEN MaxVersion ELSE 0

\* Where the manifest of the candidate is while swap_slots runs.
CandidateManifest ==
  IF offset > 0 THEN mem[dst][0]
  ELSE IF spc \in {"to_obj1", "to_obj2"} THEN mem[SWAP][0] ELSE mem[src][0]

\* The first block of an object has been copied, or is ready to be programmed.
ManifestCopied ==
  /\ offset = 0 /\ spc = "to_swap" /\ full > 0 => mem[SWAP][0] = mem[src][0]
  /\ offset = 0 /\ spc = "to_obj2" /\ full > 0 => mem[dst][0] = mem[SWAP][0]
  /\ spc \in Phases /\ erased /\ WriteBlock = 0 => mem[WriteObject][0] = Erased

ManifestInTransit ==
  pc = "swap" =>
    /\ src \notin Bootable /\ dst \in Bootable
    /\ spc # "idle"
    /\ spc = "done" => offset > 0
    /\ ManifestVersion(CandidateManifest) >= last_version
    /\ ManifestCopied

StartedKept ==
  /\ pc = "boot" => boot_id \in Bootable /\ VersionOf(mem[boot_id]) >= last_version
  /\ pc = "app" => app_version >= last_version

LifeInv ==
  /\ TypeInv
  /\ OnceInv
  /\ VersionKept
  /\ NewestKnown
  /\ CandidateNewer
  /\ ManifestInTransit
  /\ StartedKept

LEMMA LifeTyped ==
  ASSUME LifeInv
  PROVE  /\ mem \in Memory /\ src \in Slots /\ dst \in Slots
         /\ last_version \in 0 .. MaxVersion /\ last_version \in Nat
         /\ version_bootable \in Nat /\ MaxVersion \in Nat
         /\ Bootable \subseteq Slots
BY ImagesAssumption, LayoutAssumption DEF LifeInv, TypeInv, TypeOK, SwapTypeOK

LEMMA ManifestShown ==
  ASSUME NEW m
  PROVE  VersionOf(m) = ManifestVersion(m[0])
BY DEF VersionOf, ManifestVersion

LEMMA ErasedShown == ManifestVersion(Erased) = MaxVersion
<1>1. 0 \notin Images
  BY ImagesAssumption DEF Images
<1>2. Erased[1] = 0
  BY DEF Erased
<1> QED BY <1>1, <1>2 DEF ManifestVersion

LEMMA NewestIsHighest ==
  ASSUME mem \in Memory, NEW s \in Slots, NewestFirmware(Versions(mem), TRUE, s)
  PROVE  \A t \in Bootable : VersionOf(mem[t]) <= VersionOf(mem[s])
<1>1. TAKE t \in Bootable
<1>2. t \in Slots /\ t \in Candidates(TRUE)
  BY LayoutAssumption DEF Candidates
<1>3. Versions(mem)[t] < Versions(mem)[s] \/ Versions(mem)[t] = Versions(mem)[s]
  BY <1>2 DEF NewestFirmware
<1>4. VersionOf(mem[t]) \in Nat /\ Versions(mem)[t] = VersionOf(mem[t])
  BY <1>2, SlotContents
<1>5. VersionOf(mem[s]) \in Nat /\ Versions(mem)[s] = VersionOf(mem[s])
  BY SlotContents
<1> QED BY <1>3, <1>4, <1>5

\* A manifest that shows a version has a size.
LEMMA CarriesSize ==
  ASSUME NEW m \in Contents, VersionOf(m) # 0
  PROVE  SizeOf(m) > 0
<1>1. CASE m[0][1] \in Images
  <2>1. SizeOf(m) = Size[m[0][1]]
    BY <1>1 DEF SizeOf
  <2>2. Size[m[0][1]] \in 1 .. SlotBlocks
    BY <1>1, LayoutAssumption
  <2> QED BY <2>1, <2>2, LayoutAssumption
<1>2. CASE m[0][1] \notin Images
  <2>1. m[0] = Erased
    BY <1>2 DEF VersionOf
  <2> QED BY <1>2, <2>1, LayoutAssumption DEF SizeOf
<1> QED BY <1>1, <1>2

LEMMA NewestIsKept ==
  ASSUME LifeInv, pc \in Choosing
  PROVE  version_bootable >= last_version
<1>1. PICK t \in Bootable : VersionOf(mem[t]) >= last_version
  BY DEF LifeInv, VersionKept
<1>2. VersionOf(mem[t]) <= version_bootable
  BY <1>1 DEF LifeInv, NewestKnown
<1>3. VersionOf(mem[t]) \in Nat
  BY SlotVersion, LifeTyped
<1> QED BY <1>1, <1>2, <1>3, LifeTyped

LEMMA InitLife == Init => LifeInv
<1> SUFFICES ASSUME Init PROVE LifeInv
  OBVIOUS
<1>1. TypeInv /\ OnceInv
  BY InitTyped, InitOnce
<1>2. mem \in Memory /\ last_version = 0 /\ 1 \in Slots
  BY <1>1, BootableFirst, LayoutAssumption DEF TypeInv, TypeOK, SwapTypeOK, Init
<1>3. VersionOf(mem[1]) >= 0
  BY <1>2, SlotVersion, ImagesAssumption
<1>4. VersionKept
  BY <1>2, <1>3, BootableFirst DEF VersionKept
<1> QED BY <1>1, <1>4 DEF Init, LifeInv, NewestKnown, CandidateNewer, ManifestInTransit,
                          StartedKept, Choosing

----------------------------------------------------------------------------
(* The first block of the objects while swap_slots runs. *)

LEMMA ManifestErased ==
  ASSUME SwapTypeOK, InLoop, SwapErase
  PROVE  /\ \A p \in Objects \ {WriteObject} : mem'[p] = mem[p]
         /\ mem'[WriteObject][0] = IF WriteBlock = 0 THEN Erased ELSE mem[WriteObject][0]
<1>1. /\ spc \in Phases /\ InSlot
      /\ mem' = [mem EXCEPT ![WriteObject] = ErasePage(mem[WriteObject], WriteBlock)]
  BY DEF SwapErase, InSlot
<1>2. /\ WriteObject \in Objects /\ WriteBlock \in Nat
      /\ mem \in [Objects -> Contents]
  BY <1>1, LoopFacts DEF SwapTypeOK, Memory, Blocks
<1>3. mem'[WriteObject] = ErasePage(mem[WriteObject], WriteBlock)
  BY <1>1, <1>2
<1>4. 0 \in Blocks
  BY LayoutAssumption DEF Blocks
<1>5. WriteBlock <= 0 /\ 0 < WriteBlock + PageBlocks <=> WriteBlock = 0
  BY <1>2, LayoutAssumption
<1>6. mem'[WriteObject][0] = IF WriteBlock = 0 THEN Erased ELSE mem[WriteObject][0]
  BY <1>3, <1>4, <1>5 DEF ErasePage
<1> QED BY <1>1, <1>2, <1>6

LEMMA ManifestProgrammed ==
  ASSUME SwapTypeOK, InLoop, ManifestCopied, SwapProgram
  PROVE  /\ \A p \in Objects \ {WriteObject} : mem'[p] = mem[p]
         /\ mem'[WriteObject][0] = IF WriteBlock = 0 THEN mem[ReadObject][ReadBlock]
                                   ELSE mem[WriteObject][0]
<1>1. /\ spc \in Phases /\ InSlot /\ (IsPageStart(WriteBlock) => erased)
      /\ mem' = [mem EXCEPT ![WriteObject] =
                   ProgramBlock(mem[WriteObject], WriteBlock, mem[ReadObject][ReadBlock])]
  BY DEF SwapProgram, InSlot
<1>2. /\ WriteObject \in Objects /\ WriteBlock \in Blocks /\ 0 \in Blocks
      /\ mem \in [Objects -> Contents] /\ mem[WriteObject] \in [Blocks -> Cells]
  BY <1>1, LoopFacts, LayoutAssumption DEF SwapTypeOK, Memory, Blocks, Contents
<1>3. mem'[WriteObject] =
        ProgramBlock(mem[WriteObject], WriteBlock, mem[ReadObject][ReadBlock])
  BY <1>1, <1>2
<1>4. WriteBlock = 0 => mem[WriteObject][0] = Erased
  BY <1>1, ZeroIsPageStart DEF ManifestCopied
<1>5. mem'[WriteObject][0] = IF WriteBlock = 0 THEN mem[ReadObject][ReadBlock]
                             ELSE mem[WriteObject][0]
  BY <1>2, <1>3, <1>4 DEF ProgramBlock
<1> QED BY <1>1, <1>2, <1>5

\* One operation of swap_slots keeps the manifest of the candidate, in dst, SWAP
\* or src, and leaves in dst what was there, the candidate's manifest or none.
LEMMA SwapManifest ==
  ASSUME SwapTypeOK, InLoop, "to_obj2" \notin Faults, SwapNext \/ SwapOverrun,
         src # dst, spc = "done" => offset > 0, ManifestCopied
  PROVE  /\ CandidateManifest' \in {CandidateManifest, Erased}
         /\ mem'[dst][0] \in {mem[dst][0], CandidateManifest, Erased}
         /\ \A t \in Slots \ {src, dst} : mem'[t] = mem[t]
         /\ spc' # "idle" /\ (spc' = "done" => offset' > 0)
         /\ ManifestCopied'
         /\ UNCHANGED <<src, dst>>
<1>0. /\ src \in Slots /\ dst \in Slots /\ Slots \subseteq Objects /\ SWAP \in Objects
      /\ src # SWAP /\ dst # SWAP /\ SWAP \notin Slots /\ SWAP = 0
      /\ mem \in [Objects -> Contents] /\ offset \in Nat /\ full \in Nat
  BY LayoutAssumption DEF SwapTypeOK, Objects, Slots, SWAP, Memory
<1>1. CASE SwapErase
  <2>1. /\ spc \in Phases /\ UNCHANGED <<src, dst, spc, size, offset, full>>
        /\ erased' = TRUE
    BY <1>1 DEF SwapErase, InSlot
  <2>2. /\ \A p \in Objects \ {WriteObject} : mem'[p] = mem[p]
        /\ mem'[WriteObject][0] = IF WriteBlock = 0 THEN Erased ELSE mem[WriteObject][0]
    BY <1>1, ManifestErased
  <2>3. WriteObject' = WriteObject /\ WriteBlock' = WriteBlock
    BY <2>1 DEF WriteObject, WriteBlock
  <2>4. CASE spc = "to_swap"
    <3>1. WriteObject = SWAP /\ WriteBlock = full
      BY <2>4 DEF WriteObject, WriteBlock
    <3> QED BY <1>0, <2>1, <2>2, <2>3, <2>4, <3>1
            DEF CandidateManifest, ManifestCopied, Phases
  <2>5. CASE spc = "to_obj1"
    <3>1. WriteObject = src /\ WriteBlock = offset + full
      BY <2>5 DEF WriteObject, WriteBlock
    <3> QED BY <1>0, <2>1, <2>2, <2>3, <2>5, <3>1
            DEF CandidateManifest, ManifestCopied, Phases
  <2>6. CASE spc = "to_obj2"
    <3>1. WriteObject = dst /\ WriteBlock = offset + full
      BY <2>6 DEF WriteObject, WriteBlock
    <3> QED BY <1>0, <2>1, <2>2, <2>3, <2>6, <3>1
            DEF CandidateManifest, ManifestCopied, Phases
  <2> QED BY <2>1, <2>4, <2>5, <2>6 DEF Phases
<1>2. CASE SwapProgram
  <2>1. /\ spc \in Phases /\ UNCHANGED <<src, dst, size>>
        /\ \/ full' = full + 1 /\ erased' = FALSE /\ UNCHANGED <<spc, offset>>
           \/ NextPhase
    BY <1>2 DEF SwapProgram, InSlot
  <2>2. /\ \A p \in Objects \ {WriteObject} : mem'[p] = mem[p]
        /\ mem'[WriteObject][0] = IF WriteBlock = 0 THEN mem[ReadObject][ReadBlock]
                                  ELSE mem[WriteObject][0]
    BY <1>2, ManifestProgrammed
  <2>3. Chunk \in Nat /\ Chunk > 0
    BY <2>1, LoopFacts
  <2>4. erased' = FALSE
    BY <2>1 DEF NextPhase
  <2>5. CASE spc = "to_swap"
    <3>1. /\ WriteObject = SWAP /\ WriteBlock = full
          /\ ReadObject = src /\ ReadBlock = offset + full
      BY <2>5 DEF WriteObject, WriteBlock, ReadObject, ReadBlock
    <3>2. \/ spc' = "to_swap" /\ offset' = offset
          \/ spc' = "to_obj1" /\ offset' = offset
      BY <2>1, <2>5 DEF NextPhase
    <3>3. offset = 0 => mem'[SWAP][0] = mem[src][0]
      BY <1>0, <2>2, <2>5, <3>1 DEF ManifestCopied
    <3> QED BY <1>0, <2>1, <2>2, <2>4, <2>5, <3>1, <3>2, <3>3
            DEF CandidateManifest, ManifestCopied, Phases
  <2>6. CASE spc = "to_obj1"
    <3>1. WriteObject = src /\ WriteBlock = offset + full
      BY <2>6 DEF WriteObject, WriteBlock
    <3>2. \/ spc' = "to_obj1" /\ offset' = offset
          \/ spc' = "to_obj2" /\ offset' = offset /\ full' = 0
      BY <2>1, <2>6 DEF NextPhase
    <3> QED BY <1>0, <2>1, <2>2, <2>4, <2>6, <3>1, <3>2
            DEF CandidateManifest, ManifestCopied, Phases
  <2>7. CASE spc = "to_obj2"
    <3>1. /\ WriteObject = dst /\ WriteBlock = offset + full
          /\ ReadObject = SWAP /\ ReadBlock = full
      BY <2>7 DEF WriteObject, WriteBlock, ReadObject, ReadBlock
    <3>2. \/ spc' = "to_obj2" /\ offset' = offset
          \/ spc' \in {"to_swap", "done"} /\ offset' = offset + Chunk
      BY <2>1, <2>7 DEF NextPhase
    <3>3. offset = 0 => mem'[dst][0] = mem[SWAP][0]
      BY <1>0, <2>2, <2>7, <3>1 DEF ManifestCopied
    <3>4. offset > 0 => mem'[dst][0] = mem[dst][0]
      BY <1>0, <2>2, <3>1
    <3>5. CandidateManifest' = CandidateManifest
      BY <1>0, <2>1, <2>2, <2>3, <2>7, <3>1, <3>2, <3>3, <3>4 DEF CandidateManifest
    <3>6. mem'[dst][0] \in {mem[dst][0], CandidateManifest}
      BY <1>0, <2>7, <3>3, <3>4 DEF CandidateManifest
    <3>7. ManifestCopied'
      BY <1>0, <2>1, <2>2, <2>3, <2>4, <3>1, <3>2, <3>3 DEF ManifestCopied
    <3>8. spc' # "idle" /\ (spc' = "done" => offset' > 0)
      BY <1>0, <2>3, <3>2
    <3>9. \A t \in Slots \ {src, dst} : mem'[t] = mem[t]
      BY <1>0, <2>2, <3>1
    <3> QED BY <2>1, <3>5, <3>6, <3>7, <3>8, <3>9
  <2> QED BY <2>1, <2>5, <2>6, <2>7 DEF Phases
<1>3. CASE SwapFault
  <2>1. /\ UNCHANGED <<mem, src, dst, size>>
        /\ \/ spc = "to_swap" /\ spc' = "error" /\ UNCHANGED <<offset, full, erased>>
           \/ spc = "to_obj1" /\ spc' = "to_obj2" /\ offset' = offset /\ full' = 0
              /\ erased' = FALSE
    BY <1>3 DEF SwapFault, InSlot, Phases, NextPhase
  <2> QED BY <1>0, <2>1 DEF CandidateManifest, ManifestCopied, Phases
<1>4. CASE SwapOverrun
  <2>1. /\ spc = "to_swap" /\ spc' = "error"
        /\ UNCHANGED <<src, dst, size, offset, full, erased>>
        /\ mem' = mem \/ mem' = [mem EXCEPT ![src] = EraseAll]
    BY <1>4 DEF SwapOverrun
  <2>2. 0 \in Blocks /\ EraseAll[0] = Erased
    BY LayoutAssumption DEF EraseAll, Blocks
  <2>3. mem'[src][0] \in {mem[src][0], Erased} /\ \A p \in Objects \ {src} : mem'[p] = mem[p]
    BY <1>0, <2>1, <2>2
  <2> QED BY <1>0, <2>1, <2>3 DEF CandidateManifest, ManifestCopied, Phases
<1> QED BY <1>1, <1>2, <1>3, <1>4 DEF SwapNext

----------------------------------------------------------------------------
(* Every step keeps the versions. *)

\* Away from the choice of a slot, the swap and the started image.
LEMMA ElsewhereLife ==
  ASSUME LifeInv, TypeInv', OnceInv', VersionKept', pc' \in {"init", "halted"}
  PROVE  LifeInv'
BY DEF LifeInv, NewestKnown, CandidateNewer, ManifestInTransit, StartedKept, Choosing

LEMMA ContentsKept ==
  ASSUME LifeInv, UNCHANGED <<mem, last_version>>
  PROVE  VersionKept'
BY DEF LifeInv, VersionKept

\* (1), (2), (3) and the verification: nothing is written.
LEMMA ChoiceLife ==
  ASSUME LifeInv, TypeInv', OnceInv',
         \/ GetNewestFirmware \/ Bootstrap \/ StoreBootloaderCtx
         \/ GetNewestNonBootable \/ ValidateNonBootable \/ ValidateBootable
  PROVE  LifeInv'
<1>1. UNCHANGED <<mem, last_version>>
  BY DEF GetNewestFirmware, Bootstrap, StoreBootloaderCtx, GetNewestNonBootable,
         ValidateNonBootable, ValidateBootable, swapVars
<1>2. VersionKept'
  BY <1>1, ContentsKept
<1>3. CASE pc' = "halted"
  BY <1>2, <1>3, ElsewhereLife
<1>4. CASE pc' # "halted" /\ GetNewestFirmware
  <2>1. PICK s \in Slots : /\ NewestFirmware(Versions(mem), TRUE, s)
                           /\ id_newest_bootable' = s
                           /\ version_bootable' = VersionOf(mem[s])
                           /\ pc' = "bootstrap"
    BY <1>4 DEF GetNewestFirmware, Fail
  <2>2. s \in Bootable
    BY <2>1 DEF NewestFirmware, Candidates
  <2>3. \A t \in Bootable : VersionOf(mem[t]) <= VersionOf(mem[s])
    BY <2>1, NewestIsHighest, LifeTyped
  <2>4. NewestKnown'
    BY <1>1, <2>1, <2>2, <2>3 DEF NewestKnown
  <2> QED BY <1>2, <2>1, <2>4
          DEF LifeInv, CandidateNewer, ManifestInTransit, StartedKept
<1>5. CASE pc' # "halted" /\ (Bootstrap \/ StoreBootloaderCtx)
  <2>1. /\ pc \in {"bootstrap", "first_boot"} /\ pc' \in {"first_boot", "get_newest"}
        /\ UNCHANGED <<id_newest_bootable, version_bootable>>
    BY <1>5 DEF Bootstrap, StoreBootloaderCtx, Fail
  <2>2. NewestKnown'
    BY <1>1, <2>1 DEF LifeInv, NewestKnown, Choosing
  <2> QED BY <1>2, <2>1, <2>2
          DEF LifeInv, CandidateNewer, ManifestInTransit, StartedKept
<1>6. CASE pc' # "halted" /\ (GetNewestNonBootable \/ ValidateNonBootable)
  <2>1. /\ pc \in {"get_newest", "validate_non_bootable"}
        /\ pc' \in {"validate_non_bootable", "upgrade", "validate_bootable"}
        /\ UNCHANGED <<id_newest_bootable, version_bootable>>
    BY <1>6 DEF GetNewestNonBootable, ValidateNonBootable, Fail
  <2>2. NewestKnown'
    BY <1>1, <2>1 DEF LifeInv, NewestKnown, Choosing
  <2>3. CandidateNewer'
    <3>1. CASE GetNewestNonBootable
      BY <1>1, <1>6, <2>1, <3>1 DEF GetNewestNonBootable, Fail, CandidateNewer
    <3>2. CASE ValidateNonBootable
      BY <1>1, <2>1, <3>2 DEF ValidateNonBootable, swapVars, LifeInv, CandidateNewer
    <3> QED BY <1>6, <3>1, <3>2
  <2> QED BY <1>2, <2>1, <2>2, <2>3 DEF LifeInv, ManifestInTransit, StartedKept
<1>7. CASE pc' # "halted" /\ ValidateBootable
  <2>1. pc = "validate_bootable" /\ pc' = "boot" /\ boot_id' = id_newest_bootable
    BY <1>7 DEF ValidateBootable, Fail
  <2>2. /\ id_newest_bootable \in Bootable
        /\ version_bootable = VersionOf(mem[id_newest_bootable])
        /\ version_bootable >= last_version
    BY <2>1, NewestIsKept DEF LifeInv, NewestKnown, Choosing
  <2>3. StartedKept'
    BY <1>1, <2>1, <2>2 DEF StartedKept
  <2> QED BY <1>2, <2>1, <2>3
          DEF LifeInv, NewestKnown, CandidateNewer, ManifestInTransit, Choosing
<1> QED BY <1>3, <1>4, <1>5, <1>6, <1>7

\* Bootstrap invalidates slots, but nothing was started yet.
LEMMA InvalidateSlotLife ==
  ASSUME LifeInv, TypeInv', OnceInv', InvalidateSlot
  PROVE  LifeInv'
<1>1. /\ pc = "first_boot" /\ last_version = 0 /\ last_version' = 0
      /\ UNCHANGED <<version_bootable, id_newest_bootable>>
  BY DEF LifeInv, OnceInv, InvalidateSlot
<1>2. mem' \in Memory /\ 1 \in Slots
  BY LayoutAssumption DEF TypeInv, TypeOK, SwapTypeOK, Slots
<1>3. VersionOf(mem'[1]) \in 0 .. MaxVersion
  <2>1. mem'[1] \in Contents
    BY <1>2 DEF Memory, Objects
  <2> QED BY <2>1, ManifestTyped
<1>4. VersionKept'
  BY <1>1, <1>3, BootableFirst, ImagesAssumption DEF VersionKept
<1>5. CASE pc' = "halted"
  BY <1>4, <1>5, ElsewhereLife
<1>6. CASE pc' # "halted"
  <2>1. pc' = "first_boot" /\ (mem' = mem \/ (idx # id_newest_bootable
          /\ mem' = [mem EXCEPT ![idx] = InvalidateObject(mem[idx])]))
    BY <1>1, <1>6 DEF InvalidateSlot, Fail
  <2>2. idx \in Slots /\ mem \in Memory
    BY LayoutAssumption DEF InvalidateSlot, LifeInv, TypeInv, TypeOK, SwapTypeOK, Slots
  <2>3. VersionOf(InvalidateObject(mem[idx])) = 0
    BY <2>2, SlotVersion, InvalidVersion
  <2>4. \A t \in Slots :
          mem'[t] = mem[t] \/ (t # id_newest_bootable /\ VersionOf(mem'[t]) = 0)
    BY <2>1, <2>2, <2>3 DEF Memory, Objects
  <2>5. /\ id_newest_bootable \in Bootable
        /\ version_bootable = VersionOf(mem[id_newest_bootable])
        /\ \A t \in Bootable : VersionOf(mem[t]) <= version_bootable
    BY <1>1 DEF LifeInv, NewestKnown, Choosing
  <2>6. \A t \in Bootable : VersionOf(mem'[t]) <= version_bootable
    BY <2>4, <2>5, LifeTyped
  <2>7. mem'[id_newest_bootable] = mem[id_newest_bootable]
    BY <2>4, <2>5, LifeTyped
  <2>8. NewestKnown'
    BY <1>1, <2>5, <2>6, <2>7 DEF NewestKnown
  <2> QED BY <1>4, <2>1, <2>8 DEF LifeInv, CandidateNewer, ManifestInTransit, StartedKept
<1> QED BY <1>5, <1>6

\* The candidate is newer than every bootable slot, so it is none of them.
LEMMA UpgradeLife ==
  ASSUME LifeInv, TypeInv', OnceInv', Upgrade
  PROVE  LifeInv'
<1>1. pc = "upgrade" /\ UNCHANGED <<mem, last_version>>
  BY DEF Upgrade
<1>2. VersionKept'
  BY <1>1, ContentsKept
<1>3. CASE pc' = "halted"
  BY <1>2, <1>3, ElsewhereLife
<1>4. CASE pc' # "halted"
  <2>1. PICK d \in Slots : /\ OldestFirmware(Versions(mem), TRUE, d)
                           /\ SwapStart(src, d) /\ pc' = "swap"
    BY <1>4 DEF Upgrade, Fail
  <2>2. /\ version_bootable < VersionOf(mem[src]) /\ version_bootable >= last_version
        /\ \A t \in Bootable : VersionOf(mem[t]) <= version_bootable
    BY <1>1, NewestIsKept DEF LifeInv, CandidateNewer, NewestKnown, Choosing
  <2>3. VersionOf(mem[src]) \in Nat /\ mem[src] \in Contents
    BY SlotVersion, LifeTyped
  <2>4. src \notin Bootable
    BY <2>2, <2>3, LifeTyped
  <2>5. d \in Bootable
    BY <2>1 DEF OldestFirmware, Candidates
  <2>6. SizeOf(mem[src]) > 0
    <3>1. VersionOf(mem[src]) # 0
      BY <2>2, <2>3, LifeTyped
    <3> QED BY <2>3, <3>1, CarriesSize
  <2>7. size' > 0
    <3>1. SizeOf(mem[src]) \in Nat /\ SizeOf(mem[d]) \in Nat
      BY SlotVersion, LifeTyped
    <3> QED BY <2>1, <2>6, <3>1 DEF SwapStart, LargerSize
  <2>8. /\ spc' = "to_swap" /\ offset' = 0 /\ full' = 0 /\ erased' = FALSE
        /\ src' = src /\ dst' = d
    BY <2>1, <2>7 DEF SwapStart
  <2>9. CandidateManifest' = mem[src][0]
    BY <1>1, <2>8 DEF CandidateManifest
  <2>10. ManifestVersion(CandidateManifest') >= last_version
    BY <2>2, <2>3, <2>9, ManifestShown, LifeTyped
  <2>11. ManifestCopied'
    BY <2>8 DEF ManifestCopied
  <2>12. ManifestVersion(CandidateManifest)' = ManifestVersion(CandidateManifest')
    BY DEF ManifestVersion
  <2>13. ManifestInTransit'
    BY <1>1, <2>4, <2>5, <2>8, <2>10, <2>11, <2>12 DEF ManifestInTransit
  <2> QED BY <1>2, <2>1, <2>13 DEF LifeInv, NewestKnown, CandidateNewer, StartedKept, Choosing
<1> QED BY <1>3, <1>4

LEMMA SwapStepLife ==
  ASSUME LifeInv, TypeInv', OnceInv', "to_obj2" \notin Faults, SwapStep
  PROVE  LifeInv'
<1>1. /\ pc = "swap" /\ pc' = "swap" /\ last_version' = last_version
      /\ SwapNext \/ SwapOverrun
  BY DEF SwapStep, agentVars
<1>2. /\ SwapTypeOK /\ InLoop
      /\ src \notin Bootable /\ dst \in Bootable
      /\ spc = "done" => offset > 0
      /\ ManifestVersion(CandidateManifest) >= last_version
      /\ ManifestCopied
  BY <1>1 DEF LifeInv, TypeInv, TypeOK, ManifestInTransit
<1>3. /\ CandidateManifest' \in {CandidateManifest, Erased}
      /\ mem'[dst][0] \in {mem[dst][0], CandidateManifest, Erased}
      /\ \A t \in Slots \ {src, dst} : mem'[t] = mem[t]
      /\ spc' # "idle" /\ (spc' = "done" => offset' > 0)
      /\ ManifestCopied'
      /\ UNCHANGED <<src, dst>>
  BY <1>1, <1>2, SwapManifest
<1>4. ManifestVersion(Erased) >= last_version
  BY ErasedShown, LifeTyped
<1>5. ManifestVersion(CandidateManifest)' = ManifestVersion(CandidateManifest')
  BY DEF ManifestVersion
<1>6. ManifestInTransit'
  BY <1>1, <1>2, <1>3, <1>4, <1>5 DEF ManifestInTransit
<1>7. VersionKept'
  <2>1. PICK t \in Bootable : VersionOf(mem[t]) >= last_version
    BY DEF LifeInv, VersionKept
  <2>2. CASE t # dst
    BY <1>1, <1>2, <1>3, <2>1, <2>2, LifeTyped DEF VersionKept
  <2>3. CASE t = dst
    <3>1. ManifestVersion(mem'[dst][0]) >= last_version
      BY <1>2, <1>3, <1>4, <2>1, <2>3, ManifestShown
    <3>2. VersionOf(mem'[dst]) >= last_version
      BY <3>1, ManifestShown
    <3> QED BY <1>1, <1>2, <3>2 DEF VersionKept
  <2> QED BY <2>2, <2>3
<1> QED BY <1>1, <1>6, <1>7 DEF LifeInv, NewestKnown, CandidateNewer, StartedKept, Choosing

LEMMA UpgradeCopyStopLife ==
  ASSUME LifeInv, TypeInv', OnceInv', UpgradeCopyStop
  PROVE  LifeInv'
<1>1. pc = "swap" /\ UNCHANGED <<mem, last_version>>
  BY DEF UpgradeCopyStop
<1>2. VersionKept'
  BY <1>1, ContentsKept
<1>3. CASE pc' = "halted"
  BY <1>2, <1>3, ElsewhereLife
<1>4. CASE pc' # "halted"
  <2>1. spc = "done" /\ boot_id' = dst /\ pc' = "boot"
    BY <1>4 DEF UpgradeCopyStop, Fail
  <2>2. /\ dst \in Bootable /\ offset > 0
        /\ ManifestVersion(CandidateManifest) >= last_version
    BY <1>1, <2>1 DEF LifeInv, ManifestInTransit
  <2>3. VersionOf(mem[dst]) >= last_version
    BY <2>2, ManifestShown DEF CandidateManifest
  <2>4. StartedKept'
    BY <1>1, <2>1, <2>2, <2>3 DEF StartedKept
  <2> QED BY <1>2, <2>1, <2>4
          DEF LifeInv, NewestKnown, CandidateNewer, ManifestInTransit, Choosing
<1> QED BY <1>3, <1>4

\* The application compares what it is offered with the newest bootable version,
\* which is at least its own.
LEMMA BootLife ==
  ASSUME LifeInv, TypeInv', OnceInv', Boot
  PROVE  LifeInv' /\ last_version' >= last_version
<1>1. /\ pc = "boot" /\ UNCHANGED mem
      /\ boot_id \in Bootable /\ VersionOf(mem[boot_id]) >= last_version
  BY DEF Boot, LifeInv, StartedKept, swapVars
<1>2. CASE pc' = "halted"
  <2>1. UNCHANGED last_version
    BY <1>2 DEF Boot
  <2>2. VersionKept'
    BY <1>1, <2>1, ContentsKept
  <2> QED BY <1>2, <2>1, <2>2, ElsewhereLife, LifeTyped
<1>3. CASE pc' # "halted"
  <2>1. pc' = "app" /\ last_version' = VersionOf(mem[boot_id])
    BY <1>3 DEF Boot
  <2>2. PICK s \in Slots : /\ NewestFirmware(Versions(mem), TRUE, s)
                           /\ app_version' = VersionOf(mem[s])
    BY <1>3 DEF Boot
  <2>3. \A t \in Bootable : VersionOf(mem[t]) <= VersionOf(mem[s])
    BY <2>2, NewestIsHighest, LifeTyped
  <2>4. \A t \in Slots : VersionOf(mem[t]) \in Nat
    BY SlotVersion, LifeTyped
  <2>5. StartedKept'
    BY <1>1, <2>1, <2>2, <2>3, <2>4, LifeTyped DEF StartedKept
  <2>6. VersionKept'
    BY <1>1, <2>1, <2>4, LifeTyped DEF VersionKept
  <2> QED BY <1>1, <2>1, <2>5, <2>6
          DEF LifeInv, NewestKnown, CandidateNewer, ManifestInTransit, Choosing
<1> QED BY <1>2, <1>3

\* A download replaces a manifest by a newer one or by none, whichever slot it
\* goes to.
LEMMA DownloadLife ==
  ASSUME LifeInv, TypeInv', OnceInv', Download
  PROVE  LifeInv'
<1>1. PICK i \in Images, s \in Slots : DownloadComplete(i, s) \/ DownloadInterrupted(i, s)
  BY DEF Download
<1>2. /\ pc = "app" /\ Version[i] > app_version /\ app_version >= last_version
      /\ last_version' = last_version
  BY <1>1 DEF DownloadComplete, DownloadInterrupted, StartDownload, LifeInv, StartedKept
<1>3. /\ Version[i] \in Nat /\ app_version \in Nat /\ Size[i] \in 1 .. SlotBlocks
      /\ 0 \in Blocks /\ Blocks \subseteq Nat
  BY <1>1, ImagesAssumption, LayoutAssumption DEF LifeInv, TypeInv, TypeOK, Blocks
<1>4. /\ \A t \in Slots \ {s} : mem'[t] = mem[t]
      /\ mem'[s][0] \in {<<i, 0>>, Erased, mem[s][0]}
  <2>1. \A m : mem' = [mem EXCEPT ![s] = m] =>
               mem'[s] = m /\ \A t \in Slots \ {s} : mem'[t] = mem[t]
    BY LifeTyped DEF Memory, Objects
  <2>2. \A n \in Nat : Stored(i, n)[0] \in {<<i, 0>>, Erased}
    BY <1>3 DEF Stored
  <2>3. \A n \in Nat : ErasedUpTo(mem[s], n)[0] \in {Erased, mem[s][0]}
    BY <1>3 DEF ErasedUpTo
  <2>4. CASE mem' = [mem EXCEPT ![s] = Stored(i, Size[i])]
    BY <1>3, <2>1, <2>2, <2>4
  <2>5. CASE \E n \in 0 .. Size[i] - 1 : mem' = [mem EXCEPT ![s] = Stored(i, n)]
    BY <1>3, <2>1, <2>2, <2>5
  <2>6. CASE \E n \in Blocks : mem' = [mem EXCEPT ![s] = ErasedUpTo(mem[s], n)]
    BY <1>3, <2>1, <2>3, <2>6
  <2> QED BY <1>1, <2>4, <2>5, <2>6 DEF DownloadComplete, DownloadInterrupted
<1>5. ManifestVersion(<<i, 0>>) = Version[i]
  BY DEF ManifestVersion
<1>6. ManifestVersion(<<i, 0>>) >= last_version /\ ManifestVersion(Erased) >= last_version
  BY <1>2, <1>3, <1>5, ErasedShown, LifeTyped
<1>7. VersionKept'
  <2>1. PICK t \in Bootable : VersionOf(mem[t]) >= last_version
    BY DEF LifeInv, VersionKept
  <2>2. CASE t # s
    BY <1>2, <1>4, <2>1, <2>2, LifeTyped DEF VersionKept
  <2>3. CASE t = s
    <3>1. VersionOf(mem'[s]) >= last_version
      BY <1>4, <1>6, <2>1, <2>3, ManifestShown
    <3> QED BY <1>2, <2>1, <2>3, <3>1 DEF VersionKept
  <2> QED BY <2>2, <2>3
<1>8. CASE Restart
  BY <1>7, <1>8, ElsewhereLife DEF Restart
<1>9. CASE UNCHANGED <<pc, app_version>>
  BY <1>2, <1>7, <1>9
     DEF LifeInv, NewestKnown, CandidateNewer, ManifestInTransit, StartedKept, Choosing
<1> QED BY <1>1, <1>8, <1>9 DEF DownloadComplete, DownloadInterrupted

LEMMA NextLife ==
  ASSUME "to_obj2" \notin Faults
  PROVE  LifeInv /\ [Next]_vars => LifeInv' /\ (last_version' >= last_version)
<1> SUFFICES ASSUME LifeInv, [Next]_vars
             PROVE  LifeInv' /\ last_version' >= last_version
  OBVIOUS
<1>1. TypeInv' /\ OnceInv'
  BY NextTyped, NextOnce DEF LifeInv
<1>2. CASE Boot
  BY <1>1, <1>2, BootLife
<1>3. CASE ~Boot
  <2>1. last_version' = last_version
    <3>1. CASE Download
      BY <3>1 DEF Download, DownloadComplete, DownloadInterrupted, StartDownload
    <3>2. CASE ~Download
      BY <1>3, <3>2 DEF Next, BootStep, GetNewestFirmware, Bootstrap, InvalidateSlot,
         StoreBootloaderCtx, GetNewestNonBootable, ValidateNonBootable, Upgrade, SwapStep,
         UpgradeCopyStop, ValidateBootable, Reset, vars, agentVars
    <3> QED BY <3>1, <3>2
  <2>2. CASE Reset
    <3>1. pc' = "init" /\ UNCHANGED <<mem, last_version>>
      BY <2>2 DEF Reset, Restart
    <3> QED BY <1>1, <2>1, <3>1, ContentsKept, ElsewhereLife, LifeTyped
  <2>3. CASE UNCHANGED vars
    <3>1. UNCHANGED <<mem, src, dst, spc, size, offset, full, erased, pc, last_version,
                      id_newest_bootable, version_bootable, boot_id, app_version>>
      BY <2>3 DEF vars, swapVars, agentVars
    <3>2. WriteBlock' = WriteBlock /\ WriteObject' = WriteObject
      BY <3>1 DEF WriteBlock, WriteObject
    <3>3. CandidateManifest' = CandidateManifest /\ ManifestCopied' = ManifestCopied
      BY <3>1, <3>2 DEF CandidateManifest, ManifestCopied
    <3>4. ManifestInTransit'
      BY <3>1, <3>3 DEF LifeInv, ManifestInTransit
    <3>5. VersionKept' /\ NewestKnown' /\ CandidateNewer' /\ StartedKept'
      BY <3>1 DEF LifeInv, VersionKept, NewestKnown, CandidateNewer, StartedKept
    <3> QED BY <1>1, <2>1, <3>4, <3>5, LifeTyped DEF LifeInv
  <2>4. CASE Next /\ ~Reset
    BY <1>1, <1>3, <2>1, <2>4, ChoiceLife, InvalidateSlotLife, UpgradeLife, SwapStepLife,
       UpgradeCopyStopLife, DownloadLife, LifeTyped DEF Next, BootStep
  <2> QED BY <2>2, <2>3, <2>4
<1> QED BY <1>2, <1>3

\* The version that the bootloader starts never decreases, in both builds, for
\* every layout and size of page and whatever else fails, over any number of
\* downloads and power losses, unless the result of the last copy of swap_slots
\* is lost.
THEOREM NeverDowngrades ==
  ASSUME "to_obj2" \notin Faults
  PROVE  Spec => NoDowngrade
<1>1. LifeInv /\ [Next]_vars => [last_version' >= last_version]_vars
  BY NextLife
<1> QED BY <1>1, InitLife, NextLife, PTL DEF Spec, NoDowngrade

----------------------------------------------------------------------------
(* The device never stops.  From the first application on, a slot is either*)
(* invalidated or holds a complete and genuine image, and one such image is*)
(* bootable.  Therefore whatever shows a version verifies: the newest      *)
(* bootable firmware does, and so does a candidate for an upgrade.         *)

Genuine(m) == ManifestVersion(m[0]) = 0 \/ VerifyObject(m)

ChosenGenuine == pc \in Choosing => VerifyObject(mem[id_newest_bootable])

SlotsGenuine ==
  last_version # 0 /\ pc # "swap" =>
    /\ \A s \in Slots : Genuine(mem[s])
    /\ \E t \in Bootable : VerifyObject(mem[t])

\* What was in the destination is on its way to the source.
DisplacedInTransit ==
  \/ ManifestVersion(DestinationBlock(0)) = 0
  \/ \E i \in Signed : /\ Size[i] <= size
                       /\ \A b \in 0 .. Size[i] - 1 : DestinationBlock(b) = <<i, b>>

SwapGenuine ==
  pc = "swap" =>
    /\ spc # "error"
    /\ dst \in Bootable
    /\ \A s \in Slots \ {src, dst} : Genuine(mem[s])
    /\ DisplacedInTransit

AliveInv ==
  /\ WipeInv
  /\ pc # "halted"
  /\ ChosenGenuine
  /\ SlotsGenuine
  /\ SwapGenuine

LEMMA AliveTyped ==
  ASSUME AliveInv
  PROVE  /\ mem \in Memory /\ src \in Slots /\ dst \in Slots /\ id_newest_bootable \in Slots
         /\ version_bootable \in Nat /\ Bootable \subseteq Slots
         /\ size \in Nat /\ offset \in Nat
BY ImagesAssumption, LayoutAssumption
   DEF AliveInv, WipeInv, BootInv, TypeOK, SwapTypeOK

LEMMA ShowsVersion ==
  ASSUME mem \in Memory, NEW s \in Slots, Genuine(mem[s]), VersionOf(mem[s]) > 0
  PROVE  VerifyObject(mem[s])
BY ManifestShown, SlotContents DEF Genuine

LEMMA NewestVerifies ==
  ASSUME mem \in Memory, \A t \in Slots : Genuine(mem[t]),
         \E t \in Bootable : VerifyObject(mem[t]),
         NEW s \in Slots, NewestFirmware(Versions(mem), TRUE, s)
  PROVE  VerifyObject(mem[s])
<1>1. PICK t \in Bootable : VerifyObject(mem[t])
  OBVIOUS
<1>2. t \in Slots
  BY LayoutAssumption
<1>3. VersionOf(mem[t]) > 0 /\ VersionOf(mem[t]) \in Nat
  BY <1>1, <1>2, VerifiedVersion, SlotContents
<1>4. VersionOf(mem[t]) <= VersionOf(mem[s]) /\ VersionOf(mem[s]) \in Nat
  BY NewestIsHighest, SlotContents
<1> QED BY <1>3, <1>4, ShowsVersion

\* An upgrade begins only after an application has run.
LEMMA UpgradeIsLater ==
  ASSUME AliveInv, pc \in {"validate_non_bootable", "upgrade", "swap", "app"}
  PROVE  last_version # 0
BY DEF AliveInv, WipeInv, BeforeFirstApp

LEMMA CandidateVerifies ==
  ASSUME AliveInv
  PROVE  pc = "validate_non_bootable" => VerifyObject(mem[src])
<1> SUFFICES ASSUME pc = "validate_non_bootable" PROVE VerifyObject(mem[src])
  OBVIOUS
<1>1. version_bootable < VersionOf(mem[src])
  BY DEF AliveInv, WipeInv, BootInv, CandidateVerified
<1>2. Genuine(mem[src])
  BY UpgradeIsLater, AliveTyped DEF AliveInv, SlotsGenuine
<1>3. VersionOf(mem[src]) > 0
  BY <1>1, AliveTyped, SlotContents
<1> QED BY <1>2, <1>3, AliveTyped, ShowsVersion

LEMMA InitAlive == Init => AliveInv
BY InitWipe DEF Init, AliveInv, ChosenGenuine, SlotsGenuine, SwapGenuine, Choosing

\* The steps of a run that change no slot.
LEMMA ChoiceAlive ==
  ASSUME AliveInv, WipeInv', Faults = {},
         \/ GetNewestFirmware \/ Bootstrap \/ StoreBootloaderCtx
         \/ GetNewestNonBootable \/ ValidateNonBootable \/ ValidateBootable
  PROVE  AliveInv'
<1>1. UNCHANGED <<mem, last_version>> /\ pc # "swap"
  BY DEF GetNewestFirmware, Bootstrap, StoreBootloaderCtx, GetNewestNonBootable,
         ValidateNonBootable, ValidateBootable, swapVars
<1>2. pc' \notin {"halted", "swap"}
  <2>1. CASE ValidateBootable
    <3>1. VerifyObject(mem[id_newest_bootable])
      BY <2>1 DEF ValidateBootable, AliveInv, ChosenGenuine, Choosing
    <3> QED BY <2>1, <3>1 DEF ValidateBootable
  <2>2. CASE ValidateNonBootable
    BY <2>2, CandidateVerifies DEF ValidateNonBootable
  <2>3. CASE GetNewestFirmware \/ Bootstrap \/ StoreBootloaderCtx \/ GetNewestNonBootable
    BY <2>3 DEF GetNewestFirmware, Bootstrap, StoreBootloaderCtx, GetNewestNonBootable
  <2> QED BY <2>1, <2>2, <2>3
<1>3. SlotsGenuine' /\ SwapGenuine'
  BY <1>1, <1>2 DEF AliveInv, SlotsGenuine, SwapGenuine
<1>4. ChosenGenuine'
  <2>1. CASE GetNewestFirmware
    <3>1. PICK s \in Slots : /\ NewestFirmware(Versions(mem), TRUE, s)
                             /\ id_newest_bootable' = s
      BY <2>1 DEF GetNewestFirmware
    <3>2. CASE last_version = 0
      <4>1. VerifyObject(mem[s])
        BY <3>1, <3>2 DEF AliveInv, WipeInv, ChosenVerifies
      <4> QED BY <1>1, <3>1, <4>1 DEF ChosenGenuine
    <3>3. CASE last_version # 0
      <4>1. VerifyObject(mem[s])
        BY <1>1, <3>1, <3>3, NewestVerifies, AliveTyped DEF AliveInv, SlotsGenuine
      <4> QED BY <1>1, <3>1, <4>1 DEF ChosenGenuine
    <3> QED BY <3>2, <3>3
  <2>2. CASE ~GetNewestFirmware
    <3>1. UNCHANGED id_newest_bootable /\ pc \in Choosing
      BY <2>2 DEF Bootstrap, StoreBootloaderCtx, GetNewestNonBootable, ValidateNonBootable,
                  ValidateBootable, Choosing
    <3> QED BY <1>1, <3>1 DEF AliveInv, ChosenGenuine
  <2> QED BY <2>1, <2>2
<1> QED BY <1>2, <1>3, <1>4 DEF AliveInv

\* Slots are invalidated before the first application, and never the chosen one.
LEMMA InvalidateSlotAlive ==
  ASSUME AliveInv, WipeInv', Faults = {}, InvalidateSlot
  PROVE  AliveInv'
<1>1. /\ pc = "first_boot" /\ pc' = "first_boot"
      /\ UNCHANGED <<id_newest_bootable, last_version>>
      /\ mem' = IF idx = id_newest_bootable THEN mem
                ELSE [mem EXCEPT ![idx] = InvalidateObject(@)]
  BY DEF InvalidateSlot
<1>2. last_version = 0
  BY <1>1 DEF AliveInv, WipeInv, OnceInv
<1>3. mem'[id_newest_bootable] = mem[id_newest_bootable]
  BY <1>1, AliveTyped DEF Memory, Objects
<1>4. VerifyObject(mem[id_newest_bootable])
  BY <1>1 DEF AliveInv, ChosenGenuine, Choosing
<1>5. ChosenGenuine'
  BY <1>1, <1>3, <1>4 DEF ChosenGenuine
<1> QED BY <1>1, <1>2, <1>5 DEF AliveInv, SlotsGenuine, SwapGenuine

LEMMA UpgradeAlive ==
  ASSUME AliveInv, WipeInv', Faults = {}, Upgrade
  PROVE  AliveInv'
<1>1. pc = "upgrade" /\ pc' = "swap" /\ UNCHANGED mem
  BY DEF Upgrade
<1>2. PICK d \in Slots : OldestFirmware(Versions(mem), TRUE, d) /\ SwapStart(src, d)
  BY DEF Upgrade
<1>3. d \in Bootable /\ dst' = d /\ offset' = 0 /\ spc' \in {"to_swap", "done"}
      /\ size' = LargerSize(src, d)
  BY <1>2 DEF OldestFirmware, Candidates, SwapStart
<1>4. \A s \in Slots : Genuine(mem[s])
  BY <1>1, UpgradeIsLater DEF AliveInv, SlotsGenuine
<1>5. \A b \in Nat : DestinationBlock(b)' = mem[d][b]
  BY <1>1, <1>3 DEF DestinationBlock, Moved
<1>6. DisplacedInTransit'
  <2>1. CASE ManifestVersion(mem[d][0]) = 0
    <3>1. DestinationBlock(0)' = mem[d][0]
      BY <1>5
    <3>2. ManifestVersion(DestinationBlock(0))' = ManifestVersion(DestinationBlock(0)')
      BY DEF ManifestVersion
    <3> QED BY <2>1, <3>1, <3>2 DEF DisplacedInTransit
  <2>2. CASE VerifyObject(mem[d])
    <3>1. PICK i \in Signed : Holds(mem[d], i)
      BY <2>2 DEF VerifyObject
    <3>2. SizeOf(mem[d]) = Size[i] /\ Size[i] \in Nat
      BY <3>1, AliveTyped, SlotContents, VerifiedManifest, LayoutAssumption
    <3>3. SizeOf(mem[src]) \in Nat
      BY AliveTyped, SlotVersion, LayoutAssumption
    <3>4. Size[i] <= size'
      BY <1>3, <3>2, <3>3 DEF LargerSize
    <3>5. \A b \in 0 .. Size[i] - 1 : DestinationBlock(b)' = <<i, b>>
      BY <1>5, <3>1, <3>2 DEF Holds
    <3> QED BY <3>4, <3>5 DEF DisplacedInTransit
  <2> QED BY <1>4, <2>1, <2>2 DEF Genuine
<1> QED BY <1>1, <1>3, <1>4, <1>6 DEF AliveInv, ChosenGenuine, Choosing, SlotsGenuine, SwapGenuine

LEMMA SwapStepAlive ==
  ASSUME AliveInv, WipeInv', PagesFitChunk, Faults = {}, SwapStep
  PROVE  AliveInv'
<1>1. pc = "swap" /\ pc' = "swap" /\ (SwapNext \/ SwapOverrun) /\ UNCHANGED last_version
  BY DEF SwapStep, agentVars
<1>2. SwapInv /\ ErrorsReported
  BY <1>1 DEF AliveInv, WipeInv, BootInv, ImageInTransit, ErrorsReported
<1>3. /\ UNCHANGED <<src, dst, size>>
      /\ \A b \in 0 .. size - 1 : DestinationBlock(b)' = DestinationBlock(b)
  BY <1>1, <1>2, SwapNextKeeps
<1>4. spc \in Phases /\ (SwapErase \/ SwapProgram)
  <2>1. ~SwapFault
    BY DEF SwapFault
  <2>2. ~SwapOverrun
    BY <1>2, ChunkFacts, LayoutAssumption DEF SwapOverrun, Phases
  <2> QED BY <1>1, <2>1, <2>2 DEF SwapNext, SwapErase, SwapProgram, InSlot
<1>5. spc' # "error"
  BY <1>4 DEF SwapErase, SwapProgram, NextPhase, Phases
<1>6. \A s \in Slots \ {src, dst} : mem'[s] = mem[s]
  <2>1. WriteObject \in {SWAP, src, dst}
    BY <1>4 DEF WriteObject, Phases
  <2>2. SWAP \notin Slots
    BY LayoutAssumption DEF SWAP, Slots
  <2>3. mem \in [Objects -> Contents] /\ Slots \subseteq Objects
    BY AliveTyped DEF Memory, Objects
  <2> QED BY <1>4, <2>1, <2>2, <2>3 DEF SwapErase, SwapProgram
<1>7. /\ dst \in Bootable /\ DisplacedInTransit
      /\ \A s \in Slots \ {src, dst} : Genuine(mem[s])
  BY <1>1 DEF AliveInv, SwapGenuine
<1>8. DisplacedInTransit'
  <2>1. size \in Nat /\ size > 0
    BY <1>2, LayoutAssumption DEF SwapInv
  <2>2. CASE ManifestVersion(DestinationBlock(0)) = 0
    <3>1. DestinationBlock(0)' = DestinationBlock(0)
      BY <1>3, <2>1
    <3>2. ManifestVersion(DestinationBlock(0))' = ManifestVersion(DestinationBlock(0)')
      BY DEF ManifestVersion
    <3> QED BY <2>2, <3>1, <3>2 DEF DisplacedInTransit
  <2>3. CASE \E i \in Signed : /\ Size[i] <= size
                               /\ \A b \in 0 .. Size[i] - 1 : DestinationBlock(b) = <<i, b>>
    <3>1. PICK i \in Signed : /\ Size[i] <= size
                              /\ \A b \in 0 .. Size[i] - 1 : DestinationBlock(b) = <<i, b>>
      BY <2>3
    <3>2. Size[i] \in Nat
      BY SizesTyped, ImagesAssumption
    <3>3. \A b \in 0 .. Size[i] - 1 : DestinationBlock(b)' = <<i, b>>
      BY <1>3, <2>1, <3>1, <3>2
    <3> QED BY <1>3, <3>1, <3>3 DEF DisplacedInTransit
  <2> QED BY <1>7, <2>2, <2>3 DEF DisplacedInTransit
<1>9. SwapGenuine'
  <2>1. \A s \in Slots \ {src, dst} : Genuine(mem'[s])
    BY <1>6, <1>7
  <2> QED BY <1>3, <1>5, <1>7, <1>8, <2>1 DEF SwapGenuine, Genuine, ManifestVersion
<1> QED BY <1>1, <1>9 DEF AliveInv, ChosenGenuine, Choosing, SlotsGenuine

\* The two slots have exchanged their images, both genuine.
LEMMA UpgradeCopyStopAlive ==
  ASSUME AliveInv, WipeInv', UpgradeCopyStop
  PROVE  AliveInv'
<1>1. /\ pc = "swap" /\ spc # "error" /\ dst \in Bootable
      /\ \A s \in Slots \ {src, dst} : Genuine(mem[s])
      /\ DisplacedInTransit
      /\ UNCHANGED <<mem, last_version>>
  BY DEF UpgradeCopyStop, AliveInv, SwapGenuine
<1>2. spc = "done" /\ pc' = "boot"
  BY <1>1 DEF UpgradeCopyStop
<1>3. SwapInv
  BY <1>1 DEF AliveInv, WipeInv, BootInv, ImageInTransit
<1>4. VerifyObject(mem[dst])
  <2>1. boot_id' = dst
    BY <1>2 DEF UpgradeCopyStop, Fail
  <2>2. VerifyObject(mem'[boot_id'])
    BY <1>2 DEF WipeInv, BootInv, BootValid, VerifyObject, Holds
  <2> QED BY <1>1, <2>1, <2>2
<1>5. size \in Nat /\ size > 0
  BY <1>3, LayoutAssumption DEF SwapInv
<1>6. Genuine(mem[src])
  <2>1. CASE ManifestVersion(DestinationBlock(0)) = 0
    <3>1. DestinationBlock(0) = mem[src][0]
      BY <1>2, <1>3, <1>5, DoneIsExchanged
    <3> QED BY <2>1, <3>1 DEF Genuine
  <2>2. CASE \E i \in Signed : /\ Size[i] <= size
                               /\ \A b \in 0 .. Size[i] - 1 : DestinationBlock(b) = <<i, b>>
    <3>1. PICK i \in Signed : /\ Size[i] <= size
                              /\ \A b \in 0 .. Size[i] - 1 : DestinationBlock(b) = <<i, b>>
      BY <2>2
    <3>2. Size[i] \in Nat
      BY SizesTyped, ImagesAssumption
    <3>3. \A b \in 0 .. Size[i] - 1 : mem[src][b] = <<i, b>>
      BY <1>2, <1>3, <1>5, <3>1, <3>2, DoneIsExchanged
    <3> QED BY <3>3 DEF Genuine, VerifyObject, Holds
  <2> QED BY <1>1, <2>1, <2>2 DEF DisplacedInTransit
<1>7. \A s \in Slots : Genuine(mem[s])
  BY <1>1, <1>4, <1>6 DEF Genuine
<1>8. SlotsGenuine'
  BY <1>1, <1>4, <1>7 DEF SlotsGenuine
<1> QED BY <1>2, <1>8 DEF AliveInv, ChosenGenuine, Choosing, SwapGenuine

\* Bootstrap has left one image, which verifies.
LEMMA BootAlive ==
  ASSUME AliveInv, WipeInv', Faults = {}, Boot
  PROVE  AliveInv'
<1>1. pc = "boot" /\ pc' = "app" /\ UNCHANGED mem
  BY DEF Boot, swapVars
<1>2. (\A s \in Slots : Genuine(mem[s])) /\ (\E t \in Bootable : VerifyObject(mem[t]))
  <2>1. CASE last_version # 0
    BY <1>1, <2>1 DEF AliveInv, SlotsGenuine
  <2>2. CASE last_version = 0
    <3>1. ~first_boot
      BY <1>1 DEF AliveInv, WipeInv, OnceInv, AfterBootstrap
    <3>2. PICK g \in Slots : /\ NewestFirmware(Versions(mem), TRUE, g)
                             /\ \A s \in Slots \ {g} : VersionOf(mem[s]) = 0
      BY <2>2, <3>1 DEF AliveInv, WipeInv, Wiped
    <3>3. VerifyObject(mem[g]) /\ g \in Bootable
      BY <2>2, <3>2 DEF AliveInv, WipeInv, ChosenVerifies, NewestFirmware, Candidates
    <3> QED BY <3>2, <3>3, ManifestShown DEF Genuine
  <2> QED BY <2>1, <2>2
<1>3. SlotsGenuine'
  BY <1>1, <1>2 DEF SlotsGenuine
<1> QED BY <1>1, <1>3 DEF AliveInv, ChosenGenuine, Choosing, SwapGenuine

\* A complete download replaces a slot with a genuine image.
LEMMA DownloadAlive ==
  ASSUME AliveInv, WipeInv', Signed = Images, ~Interruptions, Download
  PROVE  AliveInv'
<1>1. PICK i \in Images, s \in Slots : DownloadComplete(i, s)
  BY DEF Download, DownloadInterrupted
<1>2. /\ pc = "app" /\ pc' = "init" /\ last_version' = last_version
      /\ mem' = [mem EXCEPT ![s] = Stored(i, Size[i])]
  BY <1>1 DEF DownloadComplete, StartDownload, Restart
<1>3. (\A t \in Slots : Genuine(mem[t])) /\ (\E t \in Bootable : VerifyObject(mem[t]))
  BY <1>2, UpgradeIsLater DEF AliveInv, SlotsGenuine
<1>4. \A t \in Slots : mem'[t] = IF t = s THEN Stored(i, Size[i]) ELSE mem[t]
  BY <1>2, AliveTyped DEF Memory, Objects
<1>5. VerifyObject(Stored(i, Size[i]))
  <2>1. Size[i] \in 1 .. SlotBlocks
    BY LayoutAssumption
  <2>2. Holds(Stored(i, Size[i]), i)
    BY <2>1, LayoutAssumption DEF Holds, Stored, Blocks
  <2> QED BY <2>2 DEF VerifyObject
<1>6. \A t \in Slots : Genuine(mem'[t])
  BY <1>3, <1>4, <1>5 DEF Genuine
<1>7. \E t \in Bootable : VerifyObject(mem'[t])
  <2>1. PICK t \in Bootable : VerifyObject(mem[t])
    BY <1>3
  <2> QED BY <1>4, <1>5, <2>1, AliveTyped
<1>8. SlotsGenuine'
  BY <1>6, <1>7 DEF SlotsGenuine, Genuine, ManifestVersion
<1> QED BY <1>2, <1>8 DEF AliveInv, ChosenGenuine, Choosing, SwapGenuine

LEMMA NextAlive ==
  ASSUME PagesFitChunk, Faults = {}, Signed = Images, ~Interruptions, ~ResetInSwap
  PROVE  AliveInv /\ [Next]_vars => AliveInv'
<1> SUFFICES ASSUME AliveInv, [Next]_vars PROVE AliveInv'
  OBVIOUS
<1>1. WipeInv'
  <2>1. EventSeen
    BY CandidateVerifies DEF EventSeen
  <2> QED BY <2>1, NextWipe DEF AliveInv, ErrorsReported
<1>2. CASE UNCHANGED vars
  <2>1. UNCHANGED <<mem, src, dst, spc, size, offset, full, pc, last_version, id_newest_bootable>>
    BY <1>2 DEF vars, swapVars, agentVars
  <2>2. DisplacedInTransit' = DisplacedInTransit
    BY <2>1 DEF DisplacedInTransit, DestinationBlock, Moved, InChunk, Chunk, ManifestVersion
  <2>3. SwapGenuine'
    BY <2>1, <2>2 DEF AliveInv, SwapGenuine, Genuine, ManifestVersion
  <2>4. SlotsGenuine'
    BY <2>1 DEF AliveInv, SlotsGenuine
  <2>5. ChosenGenuine'
    BY <2>1 DEF AliveInv, ChosenGenuine
  <2> QED BY <1>1, <2>1, <2>3, <2>4, <2>5 DEF AliveInv
<1>3. CASE Reset
  <2>1. pc # "swap" /\ pc' = "init" /\ UNCHANGED <<mem, last_version>>
    BY <1>3 DEF Reset, Restart
  <2> QED BY <1>1, <2>1 DEF AliveInv, ChosenGenuine, Choosing, SlotsGenuine, SwapGenuine
<1>4. CASE Next /\ ~Reset
  BY <1>1, <1>4, ChoiceAlive, InvalidateSlotAlive, UpgradeAlive, SwapStepAlive,
     UpgradeCopyStopAlive, BootAlive, DownloadAlive DEF Next, BootStep
<1> QED BY <1>2, <1>3, <1>4

\* As long as no flash access fails and every download is complete and genuine,
\* every run of the bootloader starts an image: in both builds, for every layout
\* with chunks of whole pages and every factory contents, whenever power is lost
\* outside of swap_slots.
THEOREM NeverStops ==
  ASSUME PagesFitChunk, Faults = {}, Signed = Images, ~Interruptions, ~ResetInSwap
  PROVE  Spec => []AlwaysBoots
<1>1. AliveInv => AlwaysBoots
  BY DEF AliveInv, AlwaysBoots
<1> QED BY <1>1, InitAlive, NextAlive, PTL DEF Spec
============================================================================
