----------------------- MODULE OrderedFirmwareProofs -----------------------
(***************************************************************************)
(* get_ordered_firmware is correct for every slot table that starts with a *)
(* bootable slot and for every content of the manifests.                   *)
(***************************************************************************)
EXTENDS OrderedFirmware, TLAPS

\* The candidates among the slots that the loop has left behind.
Visited == {s \in Candidates(prefer_bootable) : s < i}

\* The loop invariant: the best of the visited candidates is recorded, and
\* with prefer_bootable it is a bootable one from the first turn on.
LoopInv ==
  /\ first <=> i = 1
  /\ ~first =>
       /\ id \in Visited
       /\ version = ver[id]
       /\ bootable <=> id \in Bootable
       /\ newest => \A t \in Visited :
                      ver[t] < ver[id] \/ (ver[t] = ver[id] /\ id <= t)
       /\ ~newest => \A t \in Visited :
                       ver[id] < ver[t] \/ (ver[t] = ver[id] /\ id <= t)
  /\ ret = "PULL_SUCCESS" => i > NSlots

LEMMA CandidatesAre ==
  ASSUME NEW p
  PROVE  \A s : s \in Candidates(p) <=> s \in Slots /\ (p => s \in Bootable)
BY LayoutAssumption DEF Candidates

LEMMA VisitedAre ==
  \A s : s \in Visited <=> s \in Slots /\ (prefer_bootable => s \in Bootable) /\ s < i
BY CandidatesAre DEF Visited

\* The variables of the loop keep their types whatever the slots hold.
THEOREM TypeCorrect == Spec => []TypeOK
<1>1. Init => TypeOK
  BY LayoutAssumption DEF Init, TypeOK
<1>2. TypeOK /\ [Next]_vars => TypeOK'
  <2> SUFFICES ASSUME TypeOK, [Next]_vars PROVE TypeOK'
    OBVIOUS
  <2>1. CASE Visit
    <3>1. bootable' \in BOOLEAN /\ first' \in BOOLEAN
      <4>1. CASE Replaces(i)
        <5>1. bootable' = (i \in Bootable) /\ first' = FALSE
          BY <2>1, <4>1, Zenon DEF Visit
        <5>2. (i \in Bootable) \in BOOLEAN
          OBVIOUS
        <5> QED BY <5>1, <5>2
      <4>2. CASE ~Replaces(i)
        BY <2>1, <4>2 DEF Visit, TypeOK
      <4> QED BY <4>1, <4>2
    <3>2. id' \in Slots /\ version' \in 0 .. MaxVersion /\ i' \in 1 .. NSlots + 1
      BY <2>1, LayoutAssumption DEF Visit, TypeOK, Slots
    <3> QED BY <2>1, <3>1, <3>2 DEF Visit, TypeOK
  <2>2. CASE VisitFails
    BY <2>2 DEF VisitFails, TypeOK
  <2>3. CASE Return
    BY <2>3 DEF Return, TypeOK
  <2>4. CASE UNCHANGED vars
    BY <2>4 DEF vars, TypeOK
  <2> QED BY <2>1, <2>2, <2>3, <2>4 DEF Next
<1> QED BY <1>1, <1>2, PTL DEF Spec

LEMMA VisitKeepsLoopInv ==
  ASSUME TypeOK, LoopInv, Visit
  PROVE  LoopInv'
<1>1. i \in 1 .. NSlots /\ i' = i + 1 /\ ret' = ret /\ ret = "running"
      /\ ver' = ver /\ newest' = newest /\ prefer_bootable' = prefer_bootable
  BY LayoutAssumption DEF Visit, TypeOK
<1>v. \A s : s \in Visited' <=>
          s \in Slots /\ (prefer_bootable => s \in Bootable) /\ s < i + 1
  BY <1>1, CandidatesAre DEF Visited
<1>t. \A s \in Slots : s \in Int /\ ver[s] \in Int
  BY LayoutAssumption, ImagesAssumption DEF TypeOK, Slots
<1>2. CASE first
  <2>1. i = 1 /\ version' = ver[1] /\ id' = 1 /\ ~first'
    BY <1>1, <1>2 DEF Visit, Replaces, LoopInv
  <2>0. bootable' <=> id' \in Bootable
    BY <1>2, Zenon DEF Visit, Replaces
  <2>2. \A s : s \in Visited' <=> s = 1
    BY <2>1, <1>v, BootableFirst, LayoutAssumption DEF Slots
  <2> QED BY <2>0, <2>1, <2>2, <1>1, <1>t, LayoutAssumption DEF LoopInv, Slots
<1>3. CASE ~first /\ Replaces(i)
  <2>1. version' = ver[i] /\ id' = i /\ ~first'
    BY <1>3, <1>1 DEF Visit
  <2>0. bootable' <=> id' \in Bootable
    BY <1>3, Zenon DEF Visit
  <2>2. i \in Slots /\ (prefer_bootable => i \in Bootable)
    BY <1>1, <1>3, VisitedAre DEF Replaces, LoopInv, Slots
  <2>3. \A s : s \in Visited' <=> s \in Visited \/ s = i
    BY <1>1, <1>v, <1>t, <2>2, VisitedAre DEF Slots
  <2>4. \A t \in Visited : t \in Slots /\ t < i
    BY VisitedAre
  <2>5. version = ver[id] /\ id \in Slots
    BY <1>3, VisitedAre DEF LoopInv
  <2>6. newest => \A t \in Visited' : ver[t] < ver[i] \/ (ver[t] = ver[i] /\ i <= t)
    BY <1>3, <1>t, <2>2, <2>3, <2>4, <2>5 DEF LoopInv, Replaces
  <2>7. ~newest => \A t \in Visited' : ver[i] < ver[t] \/ (ver[t] = ver[i] /\ i <= t)
    BY <1>3, <1>t, <2>2, <2>3, <2>4, <2>5 DEF LoopInv, Replaces
  <2> QED BY <2>0, <2>1, <2>3, <2>6, <2>7, <1>1 DEF LoopInv
<1>4. CASE ~first /\ ~Replaces(i)
  <2>1. UNCHANGED <<version, id, bootable, first>>
    BY <1>4 DEF Visit
  <2>2. \A s : s \in Visited' => s \in Visited \/ s = i
    BY <1>1, <1>v, <1>t, VisitedAre DEF Slots
  <2>3. id \in Visited' /\ id \in Slots /\ id < i /\ version = ver[id]
    BY <1>1, <1>4, <1>v, <1>t, VisitedAre DEF LoopInv
  <2>4. i \in Visited' => \/ newest /\ ver[i] <= ver[id]
                          \/ ~newest /\ ver[i] >= ver[id]
    BY <1>1, <1>4, <1>t, <1>v, <2>3 DEF LoopInv, Replaces
  <2>5. newest => \A t \in Visited' : ver[t] < ver[id] \/ (ver[t] = ver[id] /\ id <= t)
    BY <1>1, <1>4, <1>t, <2>2, <2>3, <2>4, <1>v DEF LoopInv
  <2>6. ~newest => \A t \in Visited' : ver[id] < ver[t] \/ (ver[t] = ver[id] /\ id <= t)
    BY <1>1, <1>4, <1>t, <2>2, <2>3, <2>4, <1>v DEF LoopInv
  <2> QED BY <2>1, <2>3, <2>5, <2>6, <1>1, <1>4 DEF LoopInv
<1> QED BY <1>2, <1>3, <1>4

\* When get_ordered_firmware returns PULL_SUCCESS, id and version are those of
\* the newest (oldest) candidate, for every table of slots.
THEOREM ScanIsCorrect == Spec => []ScanCorrect
<1>1. Init => LoopInv
  BY LayoutAssumption DEF Init, LoopInv
<1>2. TypeOK /\ LoopInv /\ [Next]_vars => LoopInv'
  <2> SUFFICES ASSUME TypeOK, LoopInv, [Next]_vars PROVE LoopInv'
    OBVIOUS
  <2>1. CASE Visit
    BY <2>1, VisitKeepsLoopInv
  <2>2. CASE VisitFails
    BY <2>2 DEF VisitFails, LoopInv, Visited, Candidates
  <2>3. CASE Return
    BY <2>3 DEF Return, LoopInv, Visited, Candidates
  <2>4. CASE UNCHANGED vars
    BY <2>4 DEF vars, LoopInv, Visited, Candidates
  <2> QED BY <2>1, <2>2, <2>3, <2>4 DEF Next
<1>3. TypeOK /\ LoopInv => ScanCorrect
  <2> SUFFICES ASSUME TypeOK, LoopInv, ret = "PULL_SUCCESS"
               PROVE  /\ newest => NewestFirmware(ver, prefer_bootable, id)
                      /\ ~newest => OldestFirmware(ver, prefer_bootable, id)
                      /\ version = ver[id]
    BY DEF ScanCorrect
  <2>1. i > NSlots /\ ~first
    BY LayoutAssumption DEF LoopInv, TypeOK
  <2>2. \A s : s \in Visited <=> s \in Candidates(prefer_bootable)
    BY <2>1, VisitedAre, CandidatesAre, LayoutAssumption DEF Slots, TypeOK
  <2> QED BY <2>1, <2>2 DEF LoopInv, NewestFirmware, OldestFirmware
<1> QED BY <1>1, <1>2, <1>3, TypeCorrect, PTL DEF Spec
=============================================================================
