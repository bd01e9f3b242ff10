-------------------------- MODULE OrderedFirmware --------------------------
(***************************************************************************)
(* get_ordered_firmware: the loop over memory_slots[] that finds the       *)
(* newest or the oldest firmware, one turn per step, for any versions in   *)
(* the manifests.                                                          *)
(***************************************************************************)
EXTENDS Flash

VARIABLES
  ver,       \* the version that the manifest of each slot shows
  newest, prefer_bootable,        \* the parameters
  i, first, bootable,             \* the locals
  id, version,                    \* the results
  ret        \* "running", then PULL_SUCCESS or GET_NEWEST_ERROR

vars == <<ver, newest, prefer_bootable, i, first, bootable, id, version, ret>>

TypeOK ==
  /\ ver \in [Slots -> 0 .. MaxVersion]
  /\ newest \in BOOLEAN /\ prefer_bootable \in BOOLEAN
  /\ i \in 1 .. NSlots + 1
  /\ first \in BOOLEAN /\ bootable \in BOOLEAN
  /\ id \in Slots /\ version \in 0 .. MaxVersion
  /\ ret \in {"running", "PULL_SUCCESS", "GET_NEWEST_ERROR"}

\* bootable and the results hold whatever the caller's memory held.
Init ==
  /\ ver \in [Slots -> 0 .. MaxVersion]
  /\ newest \in BOOLEAN /\ prefer_bootable \in BOOLEAN
  /\ i = 1
  /\ first = TRUE /\ bootable \in BOOLEAN
  /\ id \in Slots /\ version \in 0 .. MaxVersion
  /\ ret = "running"

\* A mutant of Replaces: a slot with the same version replaces the first one.
ReplacesEqual(s) ==
  \/ first
  \/ /\ ~(prefer_bootable /\ bootable /\ s \notin Bootable)
     /\ \/ newest /\ ver[s] >= version
        \/ ~newest /\ ver[s] <= version

\* The condition under which the slot becomes the best one so far.
Replaces(s) ==
  \/ first
  \/ /\ ~(prefer_bootable /\ bootable /\ s \notin Bootable)
     /\ \/ newest /\ ver[s] > version
        \/ ~newest /\ ver[s] < version

\* A mutant of Visit: the version is kept in a signed type.
VisitSigned ==
  /\ ret = "running"
  /\ i <= NSlots
  /\ version' = IF ver[i] = MaxVersion THEN -1 ELSE ver[i]
  /\ i' = i + 1
  /\ UNCHANGED <<ver, newest, prefer_bootable, first, bootable, id, ret>>

\* One turn of the loop, for a slot whose manifest can be read.
Visit ==
  /\ ret = "running"
  /\ i <= NSlots
  /\ IF Replaces(i)
       THEN /\ version' = ver[i]
            /\ id' = i
            /\ bootable' = (i \in Bootable)
            /\ first' = FALSE
       ELSE UNCHANGED <<version, id, bootable, first>>
  /\ i' = i + 1
  /\ UNCHANGED <<ver, newest, prefer_bootable, ret>>

\* The slot can not be opened or its manifest not be read.
VisitFails ==
  /\ ret = "running"
  /\ i <= NSlots
  /\ ret' = "GET_NEWEST_ERROR"
  /\ UNCHANGED <<ver, newest, prefer_bootable, i, first, bootable, id, version>>

Return ==
  /\ ret = "running"
  /\ i > NSlots
  /\ ret' = "PULL_SUCCESS"
  /\ UNCHANGED <<ver, newest, prefer_bootable, i, first, bootable, id, version>>

Next == Visit \/ VisitFails \/ Return

Spec == Init /\ [][Next]_vars

----------------------------------------------------------------------------
\* The loop computes the relation of Flash: the highest (lowest) version of
\* the candidates, the first slot among equals, and the version of that slot.
\* With prefer_bootable a bootable slot is never displaced by another one,
\* which is right only because the first slot of the table is bootable.
ScanCorrect ==
  ret = "PULL_SUCCESS" =>
    /\ newest => NewestFirmware(ver, prefer_bootable, id)
    /\ ~newest => OldestFirmware(ver, prefer_bootable, id)
    /\ version = ver[id]
=============================================================================
