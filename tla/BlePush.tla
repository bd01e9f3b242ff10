------------------------------ MODULE BlePush ------------------------------
(***************************************************************************)
(* The push transport: the GATT service with the state machine behind it.  *)
(* A gateway writes versions and data and reads the receiver message, in   *)
(* any order, because nothing in the service keeps it to the protocol.     *)
(***************************************************************************)
EXTENDS UpdateFsm

vars == fsmVars

\* What a gateway may have in hand: a part of some image.
Chunks ==
  UNION {{SubSeq(Image(i), a, b) : a, b \in 1 .. Length[i]} : i \in Images}

DataMessages == {DataMsg(d) : d \in {c \in Chunks : Len(c) \in 1 .. MaxChunk}}

Messages ==
  {VersionMsg(v) : v \in {Version[i] : i \in Images} \cup {RunningVersion}}
    \cup DataMessages

\* libpull_gatt_init
Init ==
  /\ FsmInit
  /\ obj = [u \in Units |-> Blank]

\* gatt_write_version: refused unless the machine is idle.
WriteVersion ==
  /\ state = "STATE_IDLE"
  /\ \E msg \in Messages : Fsm(msg)

\* gatt_read_receiver_msg: the first read takes the machine to the manifest,
\* a later one changes nothing.
ReadReceiverMsg ==
  /\ state = "STATE_START_UPDATE"
  /\ StartUpdate(MsgUnits)

\* gatt_write_image: the machine gets the data whatever its state.
WriteImage == \E msg \in Messages : Fsm(msg)

Next == WriteVersion \/ ReadReceiverMsg \/ WriteImage

Spec == Init /\ [][Next]_vars
=============================================================================
