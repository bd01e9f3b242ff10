---------------------------- MODULE Bootloader ----------------------------
(***************************************************************************)
(* The bootloader agent from power-on to EVENT_BOOT or to a failure event, *)
(* with the driver that runs it, composed with swap_slots, with power loss *)
(* between any two flash operations, with failing flash operations, and    *)
(* with an application that downloads images into the slots between two    *)
(* runs of the bootloader.                                                 *)
(*                                                                         *)
(* Coroutines distinguishes the two builds of the agent.  With coroutines  *)
(* (Contiki-NG) every event returns to the driver, which stops on a failure*)
(* event.  Without them (RIOT, Zephyr, POSIX) PULL_CONTINUE is empty, so   *)
(* the agent goes on after EVENT_VALIDATE_NON_BOOTABLE_INVALID.            *)
(***************************************************************************)
EXTENDS SwapSlots

CONSTANTS
  Coroutines,     \* ENABLE_COROUTINES
  Interruptions,  \* downloads may stop before they are complete
  ResetInSwap,    \* power may be lost while swap_slots runs
  MaxResets,      \* bound on the power losses
  MaxDownloads    \* bound on the downloads the application starts

ASSUME ModesAssumption ==
  /\ Coroutines \in BOOLEAN
  /\ Interruptions \in BOOLEAN
  /\ ResetInSwap \in BOOLEAN
  /\ MaxResets \in Nat
  /\ MaxDownloads \in Nat

VARIABLES
  first_boot,          \* persistent: FIRST_BOOT in bctx.startup_flags
  pc,                  \* control
  event,               \* the last event returned to the driver
  id_newest_bootable,
  version_bootable,
  idx,                 \* i, index into memory_slots[]
  boot_id,
  app_version,         \* ctx->version of the update agent of the application
  last_version,        \* history: the version last booted
  resets,
  downloads

agentVars == <<first_boot, pc, event, id_newest_bootable, version_bootable,
               idx, boot_id, app_version, last_version, resets, downloads>>
vars == <<swapVars, agentVars>>

Failures ==
  {"EVENT_GET_NEWEST_FIRMWARE_FAILURE", "EVENT_BOOTSTRAP_FAILURE",
   "EVENT_FIRST_BOOT_FAILURE", "EVENT_STORE_BOOTLAODER_CTX_FAILURE",
   "EVENT_GET_NEWEST_NON_BOOTABLE_FAILURE",
   "EVENT_VALIDATE_NON_BOOTABLE_FAILURE",
   "EVENT_VALIDATE_NON_BOOTABLE_INVALID", "EVENT_UPGRADE_FAILURE",
   "EVENT_UPGRADE_COPY_FAILURE", "EVENT_VALIDATE_BOOTABLE_FAILURE"}

Controls ==
  {"init", "bootstrap", "first_boot", "get_newest", "validate_non_bootable",
   "upgrade", "swap", "validate_bootable", "boot", "app", "halted"}

TypeOK ==
  /\ SwapTypeOK
  /\ first_boot \in BOOLEAN
  /\ pc \in Controls
  /\ event \in Failures \cup {"EVENT_INIT", "EVENT_BOOT"}
  /\ id_newest_bootable \in Slots
  /\ version_bootable \in 0 .. MaxVersion
  /\ idx \in 1 .. NSlots + 1
  /\ boot_id \in Slots
  /\ app_version \in 0 .. MaxVersion
  /\ last_version \in 0 .. MaxVersion
  /\ resets \in 0 .. MaxResets
  /\ downloads \in 0 .. MaxDownloads

\* A board as it leaves the factory: a signed image in a bootable slot, the
\* other slots erased or with anything an earlier life left there, FIRST_BOOT
\* set in the context that was flashed with the bootloader.
FactoryContents == {EraseAll} \cup {Stored(i, Size[i]) : i \in Images}

Init ==
  /\ mem \in {m \in [Objects -> FactoryContents] :
                m[SWAP] = EraseAll /\ VerifyObject(m[1])
                /\ \A s \in Bootable : NewestFirmware(Versions(m), TRUE, s) => VerifyObject(m[s])}
  /\ src = 1 /\ dst = 1 /\ spc = "idle"
  /\ size = 0 /\ offset = 0 /\ full = 0 /\ erased = FALSE
  /\ first_boot = TRUE
  /\ pc = "init"
  /\ event = "EVENT_INIT"
  /\ id_newest_bootable = 1 /\ version_bootable = 0
  /\ idx = 1
  /\ boot_id = 1
  /\ app_version = 0 /\ last_version = 0
  /\ resets = 0 /\ downloads = 0

----------------------------------------------------------------------------
\* PULL_RETURN of a failure event: the driver stops.
Fail(ev) ==
  /\ pc' = "halted"
  /\ event' = ev

\* A mutant of GetNewestFirmware: the oldest firmware is taken.
GetOldestBootable ==
  /\ pc = "init"
  /\ \E s \in Slots :
       /\ OldestFirmware(Versions(mem), TRUE, s)
       /\ id_newest_bootable' = s
       /\ version_bootable' = VersionOf(mem[s])
  /\ pc' = "bootstrap"
  /\ UNCHANGED <<swapVars, first_boot, event, idx, boot_id, app_version,
                 last_version, resets, downloads>>

\* (1) The newest firmware of the bootable slots.
GetNewestFirmware ==
  /\ pc = "init"
  /\ \/ \E s \in Slots :
          /\ NewestFirmware(Versions(mem), TRUE, s)
          /\ id_newest_bootable' = s
          /\ version_bootable' = VersionOf(mem[s])
          /\ pc' = "bootstrap"
          /\ UNCHANGED event
     \/ /\ "open" \in Faults
        /\ Fail("EVENT_GET_NEWEST_FIRMWARE_FAILURE")
        /\ UNCHANGED <<id_newest_bootable, version_bootable>>
  /\ UNCHANGED <<swapVars, first_boot, idx, boot_id, app_version,
                 last_version, resets, downloads>>

\* (2) The bootloader context is read.
Bootstrap ==
  /\ pc = "bootstrap"
  /\ \/ /\ pc' = IF first_boot THEN "first_boot" ELSE "get_newest"
        /\ UNCHANGED event
     \/ /\ "open" \in Faults
        /\ Fail("EVENT_BOOTSTRAP_FAILURE")
  /\ idx' = 1
  /\ UNCHANGED <<swapVars, first_boot, id_newest_bootable, version_bootable,
                 boot_id, app_version, last_version, resets, downloads>>

\* A mutant of InvalidateSlot: the end of memory_slots[] is not noticed.
InvalidatePastEnd ==
  /\ pc = "first_boot"
  /\ mem' = IF idx = id_newest_bootable THEN mem
            ELSE [mem EXCEPT ![idx] = InvalidateObject(@)]
  /\ idx' = idx + 1
  /\ UNCHANGED <<src, dst, spc, size, offset, full, erased, first_boot, pc, event,
                 id_newest_bootable, version_bootable, boot_id, app_version,
                 last_version, resets, downloads>>

\* (2.1) One turn of the loop that invalidates the other slots.
InvalidateSlot ==
  /\ pc = "first_boot"
  /\ idx <= NSlots
  /\ \/ /\ mem' = IF idx = id_newest_bootable THEN mem
                  ELSE [mem EXCEPT ![idx] = InvalidateObject(@)]
        /\ idx' = idx + 1
        /\ UNCHANGED <<pc, event>>
     \/ /\ idx # id_newest_bootable
        /\ "invalidate" \in Faults
        /\ Fail("EVENT_FIRST_BOOT_FAILURE")
        /\ UNCHANGED <<mem, idx>>
  /\ UNCHANGED <<src, dst, spc, size, offset, full, erased, first_boot,
                 id_newest_bootable, version_bootable, boot_id, app_version,
                 last_version, resets, downloads>>

\* Mutants of StoreBootloaderCtx: the context is stored as it was read, and the
\* loop has left out the last slot.
StoreUnchangedCtx ==
  /\ pc = "first_boot"
  /\ idx > NSlots
  /\ pc' = "get_newest"
  /\ UNCHANGED <<swapVars, first_boot, event, id_newest_bootable, version_bootable,
                 idx, boot_id, app_version, last_version, resets, downloads>>

StoreTooEarly ==
  /\ pc = "first_boot"
  /\ idx >= NSlots
  /\ first_boot' = FALSE
  /\ pc' = "get_newest"
  /\ UNCHANGED <<swapVars, event, id_newest_bootable, version_bootable, idx, boot_id,
                 app_version, last_version, resets, downloads>>

\* (2.3) startup_flags = 0 is stored.
StoreBootloaderCtx ==
  /\ pc = "first_boot"
  /\ idx > NSlots
  /\ \/ /\ first_boot' = FALSE
        /\ pc' = "get_newest"
        /\ UNCHANGED event
     \/ /\ "ctx" \in Faults
        /\ Fail("EVENT_STORE_BOOTLAODER_CTX_FAILURE")
        /\ UNCHANGED first_boot
  /\ UNCHANGED <<swapVars, id_newest_bootable, version_bootable, idx, boot_id,
                 app_version, last_version, resets, downloads>>

\* Mutants of GetNewestNonBootable: the oldest firmware is the candidate, any
\* other version counts as an upgrade, and the next version does not.
UpgradeToOldest ==
  /\ pc = "get_newest"
  /\ \E s \in Slots :
       /\ OldestFirmware(Versions(mem), FALSE, s)
       /\ src' = s
       /\ pc' = IF version_bootable # VersionOf(mem[s])
                  THEN "validate_non_bootable" ELSE "validate_bootable"
  /\ UNCHANGED <<mem, dst, spc, size, offset, full, erased, first_boot, event,
                 id_newest_bootable, version_bootable, idx, boot_id,
                 app_version, last_version, resets, downloads>>

UpgradeToOther ==
  /\ pc = "get_newest"
  /\ \E s \in Slots :
       /\ s # id_newest_bootable
       /\ src' = s
       /\ pc' = IF VersionOf(mem[s]) \notin {0, version_bootable}
                  THEN "validate_non_bootable" ELSE "validate_bootable"
  /\ UNCHANGED <<mem, dst, spc, size, offset, full, erased, first_boot, event,
                 id_newest_bootable, version_bootable, idx, boot_id,
                 app_version, last_version, resets, downloads>>

UpgradeByTwo ==
  /\ pc = "get_newest"
  /\ \E s \in Slots :
       /\ NewestFirmware(Versions(mem), FALSE, s)
       /\ src' = s
       /\ pc' = IF version_bootable + 1 < VersionOf(mem[s])
                  THEN "validate_non_bootable" ELSE "validate_bootable"
  /\ UNCHANGED <<mem, dst, spc, size, offset, full, erased, first_boot, event,
                 id_newest_bootable, version_bootable, idx, boot_id,
                 app_version, last_version, resets, downloads>>

\* (3) The newest firmware of all slots, and (4) the comparison.
GetNewestNonBootable ==
  /\ pc = "get_newest"
  /\ \/ \E s \in Slots :
          /\ NewestFirmware(Versions(mem), FALSE, s)
          /\ src' = s
          /\ pc' = IF version_bootable < VersionOf(mem[s])
                     THEN "validate_non_bootable" ELSE "validate_bootable"
          /\ UNCHANGED event
     \/ /\ "open" \in Faults
        /\ Fail("EVENT_GET_NEWEST_NON_BOOTABLE_FAILURE")
        /\ UNCHANGED src
  /\ UNCHANGED <<mem, dst, spc, size, offset, full, erased, first_boot,
                 id_newest_bootable, version_bootable, idx, boot_id,
                 app_version, last_version, resets, downloads>>

\* A mutant of ValidateNonBootable: the result of verify_object is ignored.
SkipValidation ==
  /\ pc = "validate_non_bootable"
  /\ pc' = "upgrade"
  /\ UNCHANGED <<swapVars, first_boot, event, id_newest_bootable, version_bootable,
                 idx, boot_id, app_version, last_version, resets, downloads>>

\* (4.1) The candidate is verified.  An invalid one stops only a driver that
\* sees the event.
ValidateNonBootable ==
  /\ pc = "validate_non_bootable"
  /\ \/ /\ VerifyObject(mem[src])
        /\ pc' = "upgrade"
        /\ UNCHANGED event
     \/ /\ ~VerifyObject(mem[src]) \/ "verify" \in Faults
        /\ IF Coroutines
             THEN Fail("EVENT_VALIDATE_NON_BOOTABLE_INVALID")
             ELSE pc' = "upgrade" /\ UNCHANGED event
     \/ /\ "open" \in Faults
        /\ Fail("EVENT_VALIDATE_NON_BOOTABLE_FAILURE")
  /\ UNCHANGED <<swapVars, first_boot, id_newest_bootable, version_bootable,
                 idx, boot_id, app_version, last_version, resets, downloads>>

\* (4.2) The oldest bootable slot is the destination; the swap starts.
Upgrade ==
  /\ pc = "upgrade"
  /\ \/ \E d \in Slots :
          /\ OldestFirmware(Versions(mem), TRUE, d)
          /\ version_bootable' = VersionOf(mem[d])
          /\ SwapStart(src, d)
          /\ pc' = "swap"
          /\ UNCHANGED event
     \/ /\ "open" \in Faults
        /\ Fail("EVENT_UPGRADE_FAILURE")
        /\ UNCHANGED <<src, dst, spc, size, offset, full, erased,
                       version_bootable>>
  /\ UNCHANGED <<mem, first_boot, id_newest_bootable, idx, boot_id,
                 app_version, last_version, resets, downloads>>

SwapStep ==
  /\ pc = "swap"
  /\ SwapNext \/ SwapOverrun
  /\ UNCHANGED agentVars

\* A mutant of UpgradeCopyStop: the slot that the image came from is started.
BootSource ==
  /\ pc = "swap"
  /\ spc = "done"
  /\ boot_id' = src
  /\ pc' = "boot"
  /\ spc' = "idle"
  /\ UNCHANGED <<mem, src, dst, size, offset, full, erased, first_boot, event,
                 id_newest_bootable, version_bootable, idx, app_version,
                 last_version, resets, downloads>>

\* swap_slots has returned; already_validated_flag skips the verification of
\* what was copied.
UpgradeCopyStop ==
  /\ pc = "swap"
  /\ \/ /\ spc = "done"
        /\ boot_id' = dst
        /\ pc' = "boot"
        /\ UNCHANGED event
     \/ /\ spc = "error"
        /\ Fail("EVENT_UPGRADE_COPY_FAILURE")
        /\ UNCHANGED boot_id
  /\ spc' = "idle"
  /\ UNCHANGED <<mem, src, dst, size, offset, full, erased, first_boot,
                 id_newest_bootable, version_bootable, idx, app_version,
                 last_version, resets, downloads>>

\* (5.1) No upgrade: the newest bootable firmware is verified.
ValidateBootable ==
  /\ pc = "validate_bootable"
  /\ \/ /\ VerifyObject(mem[id_newest_bootable])
        /\ boot_id' = id_newest_bootable
        /\ pc' = "boot"
        /\ UNCHANGED event
     \/ /\ ~VerifyObject(mem[id_newest_bootable]) \/ "verify" \in Faults
        /\ Fail("EVENT_VALIDATE_BOOTABLE_FAILURE")
        /\ UNCHANGED boot_id
  /\ UNCHANGED <<swapVars, first_boot, id_newest_bootable, version_bootable,
                 idx, app_version, last_version, resets, downloads>>

\* EVENT_BOOT: the driver calls load_object, which jumps to the image unless
\* it cannot open the object.  The update agent of the started application
\* takes the version of the newest bootable firmware as the running version.
Boot ==
  /\ pc = "boot"
  /\ event' = "EVENT_BOOT"
  /\ \/ /\ pc' = "app"
        /\ last_version' = VersionOf(mem[boot_id])
        /\ \E s \in Slots : /\ NewestFirmware(Versions(mem), TRUE, s)
                            /\ app_version' = VersionOf(mem[s])
     \/ /\ "open" \in Faults
        /\ pc' = "halted"
        /\ UNCHANGED <<app_version, last_version>>
  /\ UNCHANGED <<swapVars, first_boot, id_newest_bootable, version_bootable,
                 idx, boot_id, resets, downloads>>

BootStep ==
  \/ GetNewestFirmware \/ Bootstrap \/ InvalidateSlot \/ StoreBootloaderCtx
  \/ GetNewestNonBootable \/ ValidateNonBootable \/ Upgrade \/ SwapStep
  \/ UpgradeCopyStop \/ ValidateBootable \/ Boot

----------------------------------------------------------------------------
(* The application and the power supply. *)

\* Statics of the agent after a reset.
Restart ==
  /\ pc' = "init"
  /\ event' = "EVENT_INIT"
  /\ src' = 1 /\ dst' = 1 /\ spc' = "idle"
  /\ size' = 0 /\ offset' = 0 /\ full' = 0 /\ erased' = FALSE
  /\ id_newest_bootable' = 1 /\ version_bootable' = 0
  /\ idx' = 1
  /\ boot_id' = 1
  /\ app_version' = 0

\* The update agent found image i newer than app_version and its manifest
\* genuine, so it erases the oldest of all slots and programs the image.  An
\* image outside Signed is one whose manifest is genuine on the wire and is
\* changed by the agent before it is stored.
StartDownload(i, s) ==
  /\ pc = "app"
  /\ downloads < MaxDownloads
  /\ Version[i] > app_version
  /\ OldestFirmware(Versions(mem), FALSE, s)
  /\ downloads' = downloads + 1
  /\ UNCHANGED <<first_boot, last_version, resets>>

\* The whole image arrived; the agent reboots the device if it verifies.
DownloadComplete(i, s) ==
  /\ StartDownload(i, s)
  /\ mem' = [mem EXCEPT ![s] = Stored(i, Size[i])]
  /\ IF i \in Signed THEN Restart
     ELSE UNCHANGED <<src, dst, spc, size, offset, full, erased, pc, event,
                      id_newest_bootable, version_bootable, idx, boot_id,
                      app_version>>

\* The download stops after n blocks, or while the pages are being erased.
DownloadInterrupted(i, s) ==
  /\ Interruptions
  /\ StartDownload(i, s)
  /\ \/ \E n \in 0 .. Size[i] - 1 : mem' = [mem EXCEPT ![s] = Stored(i, n)]
     \/ \E n \in Blocks : /\ IsPageStart(n)
                         /\ mem' = [mem EXCEPT ![s] = ErasedUpTo(@, n)]
  /\ UNCHANGED <<src, dst, spc, size, offset, full, erased, pc, event,
                 id_newest_bootable, version_bootable, idx, boot_id,
                 app_version>>

Download ==
  \E i \in Images, s \in Slots : DownloadComplete(i, s) \/ DownloadInterrupted(i, s)

\* Power is lost and comes back, at any point.
Reset ==
  /\ pc # "init"
  /\ resets < MaxResets
  /\ pc = "swap" => ResetInSwap
  /\ resets' = resets + 1
  /\ Restart
  /\ UNCHANGED <<mem, first_boot, last_version, downloads>>

Next == BootStep \/ Download \/ Reset

Spec == Init /\ [][Next]_vars /\ WF_vars(BootStep)

----------------------------------------------------------------------------
\* The bootloader hands over only to a slot that verify_object accepts at that
\* moment, although after an upgrade it does not verify what swap_slots wrote,
\* and although power may have been lost at any point of any earlier run.
BootValid == pc = "boot" => VerifyObject(mem[boot_id])

\* Bootstrap happens before the first application runs and never again: from
\* the first boot on, no run of the bootloader invalidates a slot, even if
\* power is lost or a store fails while the slots are invalidated.
BootstrapOnce == last_version # 0 => ~first_boot /\ pc # "first_boot"

\* The version that the bootloader starts never decreases, over any sequence
\* of upgrades, torn downloads, failures and power losses.
NoDowngrade == [][last_version' >= last_version]_vars

\* After bootstrap only the firmware that was chosen for booting carries a
\* version: whatever else the factory left in the slots can not be upgraded to.
BootstrapWipesOthers ==
  pc = "get_newest" /\ last_version = 0 =>
    \A s \in Slots \ {id_newest_bootable} : ~VerifyObject(mem[s])

\* A complete and genuine download is started, or a newer one: it takes a
\* reboot, a selection, a verification and a swap to get there.
UpdateApplied ==
  \A i \in Signed :
    (pc = "init" /\ \E s \in Slots : Holds(mem[s], i) /\ NewestFirmware(Versions(mem), FALSE, s) /\ ~first_boot)
      ~> (pc = "app" /\ last_version >= Version[i])

\* The device never stops: as long as downloads are complete and genuine and no
\* flash access fails, every run of the bootloader starts an image, even if
\* power is lost at any point outside of swap_slots, bootstrap included.
AlwaysBoots == pc # "halted"

----------------------------------------------------------------------------
(* What the comments lead a reader to expect. *)

\* The slot with the running image is not overwritten by a download.
RunningImageKept == pc = "app" => VerifyObject(mem[boot_id])

----------------------------------------------------------------------------
(* The inductive invariant behind BootValid. *)

\* From (1) to (4.2), version_bootable is the highest bootable version.
BootableKnown ==
  pc \in {"bootstrap", "first_boot", "get_newest", "validate_non_bootable", "upgrade"} =>
    /\ version_bootable = VersionOf(mem[id_newest_bootable])
    /\ \A t \in Bootable : VersionOf(mem[t]) <= version_bootable

\* The candidate is newer than every bootable firmware, so it is not one of
\* them, and it is upgraded to only after it has been verified.
CandidateVerified ==
  /\ pc \in {"validate_non_bootable", "upgrade"} =>
       version_bootable < VersionOf(mem[src])
  /\ pc = "upgrade" => VerifyObject(mem[src])

\* While swap_slots runs, the verified image is complete in the three objects.
ImageInTransit ==
  pc = "swap" =>
    /\ SwapInv
    /\ \E i \in Signed : /\ Size[i] <= size
                         /\ \A b \in 0 .. Size[i] - 1 : SourceBlock(b) = <<i, b>>

\* The bootloader starts nothing that it has not verified, for the reason that
\* it verifies the candidate and that swap_slots moves it as a whole.
BootInv ==
  /\ TypeOK
  /\ pc # "swap" => spc = "idle"
  /\ BootableKnown
  /\ CandidateVerified
  /\ ImageInTransit
  /\ BootValid
=============================================================================
