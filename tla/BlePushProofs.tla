--------------------------- MODULE BlePushProofs ---------------------------
(***************************************************************************)
(* The push transport keeps the invariant of the state machine, whatever a *)
(* gateway writes and reads and in whatever order.                         *)
(***************************************************************************)
EXTENDS BlePush, UpdateFsmProofs

LEMMA MessagesAreDeliverable ==
  ASSUME NEW msg \in Messages
  PROVE  Deliverable(msg)
<1>1. CASE msg \in DataMessages
  <2>1. PICK c \in Chunks : msg = DataMsg(c) /\ Len(c) \in 1 .. MaxChunk
    BY <1>1 DEF DataMessages
  <2>2. PICK i \in Images :
          \E a, b \in 1 .. Length[i] : c = SubSeq(Image(i), a, b)
    BY DEF Chunks
  <2>3. Image(i) \in Seq(Cells) /\ Len(Image(i)) = Length[i] /\ Length[i] \in Nat
    BY ImageIsData, FsmAssumption
  <2>4. c \in Seq(Cells)
    BY <2>2, <2>3
  <2> QED BY <2>1, <2>4 DEF Deliverable, DataMsg
<1>2. CASE msg \notin DataMessages
  <2>1. PICK v : msg = VersionMsg(v)
    BY <1>2 DEF Messages
  <2>2. msg.data = <<Junk>> /\ Junk \in Cells
    BY <2>1 DEF VersionMsg, Cells
  <2>3. <<Junk>> \in Seq(Cells) /\ Len(<<Junk>>) = 1
    BY <2>2
  <2>4. 1 \in 1 .. MaxChunk
    BY FsmAssumption
  <2> QED BY <2>2, <2>3, <2>4 DEF Deliverable
<1> QED BY <1>1, <1>2

LEMMA InitHolds ==
  ASSUME Init
  PROVE  FsmInv
<1>1. obj \in [Units -> Cells]
  BY DEF Init, Cells
<1> QED BY <1>1, FsmInitHolds DEF Init

LEMMA NextKeeps ==
  ASSUME FsmInv, [Next]_vars
  PROVE  FsmInv'
<1>1. CASE WriteVersion
  <2>1. PICK msg \in Messages : Fsm(msg)
    BY <1>1 DEF WriteVersion
  <2> QED BY <2>1, MessagesAreDeliverable, FsmKeeps
<1>2. CASE ReadReceiverMsg
  BY <1>2, StartUpdateKeeps DEF ReadReceiverMsg
<1>3. CASE WriteImage
  <2>1. PICK msg \in Messages : Fsm(msg)
    BY <1>3 DEF WriteImage
  <2> QED BY <2>1, MessagesAreDeliverable, FsmKeeps
<1>4. CASE UNCHANGED vars
  BY <1>4, FsmStutters DEF vars
<1> QED BY <1>1, <1>2, <1>3, <1>4 DEF Next

\* The invariant of the state machine holds behind the GATT service: fsm,
\* buffer and writer agree on where they are, for every image and every order
\* of writes and reads, whatever fails.
THEOREM PushInvariant == Spec => []FsmInv
BY InitHolds, NextKeeps, PTL DEF Spec

\* When the machine is in STATE_REBOOT, the slot holds a complete and genuine
\* image that is newer than the running one.
THEOREM PushRebootVerified == Spec => []RebootVerified
<1>1. FsmInv => RebootVerified
  BY DEF FsmInv
<1> QED BY <1>1, PushInvariant, PTL
=============================================================================
