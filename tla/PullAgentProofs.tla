-------------------------- MODULE PullAgentProofs --------------------------
(***************************************************************************)
(* The pull agent keeps the invariant of the state machine, whatever the   *)
(* network does, and returns EVENT_APPLY only for an untouched slot or a   *)
(* verified image.                                                         *)
(***************************************************************************)
EXTENDS PullAgent, UpdateFsmProofs

AgentInv == FsmInv /\ AgentTypeOK /\ NetTypeOK

LEMMA BagAddDomain ==
  ASSUME NEW bag, NEW m
  PROVE  BagToSet(BagAdd(bag, m)) = BagToSet(bag) \cup {m}
BY DEF BagToSet, BagAdd

LEMMA BagRemoveDomain ==
  ASSUME NEW bag, NEW m
  PROVE  BagToSet(BagRemove(bag, m)) \subseteq BagToSet(bag)
BY DEF BagToSet, BagRemove

----------------------------------------------------------------------------
(* What fsm gets is deliverable. *)

LEMMA DataDeliverable ==
  ASSUME NEW d \in Seq(Cells), Len(d) \in 1 .. MaxChunk
  PROVE  Deliverable(DataMsg(d))
BY DEF Deliverable, DataMsg

LEMMA ReceiverMsgDeliverable ==
  Deliverable(DataMsg([u \in 1 .. MsgUnits |-> Junk]))
<1> DEFINE d == [u \in 1 .. MsgUnits |-> Junk]
<1>1. MsgUnits \in Nat \ {0} /\ MaxChunk \in Nat /\ MsgUnits <= MaxChunk
  BY FsmAssumption, NetAssumption
<1>2. d \in Seq(Cells) /\ Len(d) = MsgUnits
  BY <1>1 DEF Cells
<1>3. Len(d) \in 1 .. MaxChunk
  BY <1>1, <1>2
<1> QED BY <1>2, <1>3, DataDeliverable

LEMMA PayloadDeliverable ==
  ASSUME NEW resp, WellFormed(resp), resp.kind # "error"
  PROVE  Deliverable(Payload(resp))
<1>1. CASE resp.kind = "version"
  <2>1. Payload(resp).data = <<Junk>> /\ Junk \in Cells
    BY <1>1 DEF Payload, VersionMsg, Cells
  <2>2. <<Junk>> \in Seq(Cells) /\ Len(<<Junk>>) = 1 /\ 1 \in 1 .. MaxChunk
    BY <2>1, FsmAssumption
  <2> QED BY <2>1, <2>2 DEF Deliverable
<1>2. CASE resp.kind = "block"
  <2>1. Payload(resp).data = resp.data
    BY <1>2 DEF Payload, DataMsg
  <2> QED BY <1>2, <2>1 DEF Deliverable, WellFormed
<1> QED BY <1>1, <1>2 DEF WellFormed

LEMMA BlockWellFormed ==
  ASSUME NEW num \in Nat, NEW off \in Nat
  PROVE  WellFormed(Block(num, off))
<1> DEFINE first == off + num * MaxChunk + 1
           last == off + (num + 1) * MaxChunk
           end == Length[Offered]
           stop == IF last < end THEN last ELSE end
           data == SubSeq(Image(Offered), first, stop)
<1>1. MaxChunk \in Nat \ {0} /\ end \in Nat /\ Offered \in Images
  BY FsmAssumption, NetAssumption
<1>2. num * MaxChunk \in Nat /\ (num + 1) * MaxChunk = num * MaxChunk + MaxChunk
  BY <1>1
<1>3. first \in Nat /\ last \in Nat /\ last = first + MaxChunk - 1 /\ first >= 1
  BY <1>1, <1>2
<1>4. Image(Offered) \in Seq(Cells) /\ Len(Image(Offered)) = end
  BY <1>1, ImageIsData
<1>5. CASE first > end
  <2>1. Block(num, off) = ErrorResponse
    BY <1>5 DEF Block
  <2> QED BY <2>1 DEF WellFormed, ErrorResponse
<1>6. CASE ~(first > end)
  <2>1. Block(num, off) = [kind |-> "block", num |-> num, more |-> last < end, data |-> data]
    BY <1>6 DEF Block
  <2> HIDE DEF first, last, end
  <2>2. stop \in Nat /\ first <= stop /\ stop <= end /\ stop <= last
    BY <1>1, <1>3, <1>6
  <2> HIDE DEF stop
  <2>3. data \in Seq(Cells) /\ Len(data) = stop - first + 1
    BY <1>3, <1>4, <2>2
  <2>4. Len(data) \in 1 .. MaxChunk
    BY <1>1, <1>3, <2>2, <2>3
  <2> HIDE DEF data
  <2> QED BY <2>1, <2>3, <2>4 DEF WellFormed
<1> QED BY <1>5, <1>6

----------------------------------------------------------------------------
(* Every step keeps the invariant. *)

LEMMA DeliveredWellFormed ==
  ASSUME NetTypeOK, NEW resp, Delivered(resp)
  PROVE  WellFormed(resp)
BY DEF NetTypeOK, Delivered, BagIn

\* A response leads to a call of fsm, or leaves the machine as it is.
LEMMA DeliverCalls ==
  ASSUME NetTypeOK, NEW resp, HandlerLibcoap(resp) \/ UdpReceive(resp)
  PROVE  \/ UNCHANGED fsmVars
         \/ Deliverable(Payload(resp)) /\ Fsm(Payload(resp))
<1>1. WellFormed(resp)
  BY DeliveredWellFormed DEF HandlerLibcoap, UdpReceive
<1>2. CASE CallbackData(Payload(resp)) /\ resp.kind # "error"
  BY <1>1, <1>2, PayloadDeliverable DEF CallbackData
<1>3. CASE CallbackError \/ CallbackNothing
  BY <1>3, Zenon DEF CallbackError, CallbackNothing
<1> QED BY <1>2, <1>3 DEF HandlerLibcoap, UdpReceive

LEMMA FsmInvKept ==
  ASSUME FsmInv, NetTypeOK, Next
  PROVE  FsmInv'
<1>1. CASE UNCHANGED fsmVars
  BY <1>1, FsmStutters
<1>2. CASE GetMsg
  BY <1>2, ReceiverMsgDeliverable, FsmKeeps DEF GetMsg
<1>3. CASE Deliver
  <2>1. PICK resp : HandlerLibcoap(resp) \/ UdpReceive(resp)
    BY <1>3 DEF Deliver
  <2> QED BY <1>1, <2>1, DeliverCalls, FsmKeeps
<1>4. CASE AgentInit
  BY <1>1, <1>4, Zenon DEF AgentInit
<1>5. CASE Subscribe \/ Receive
  BY <1>1, <1>5, Zenon DEF Subscribe, Receive, Request
<1>6. CASE SubscribeReturned \/ ReceiveReturned
  BY <1>1, <1>6, Zenon DEF SubscribeReturned, ReceiveReturned, LoopReturns
<1>7. CASE Respond \/ RespondError
  BY <1>1, <1>7, Zenon DEF Respond, RespondError, Answered
<1>8. CASE Lose
  BY <1>1, <1>8, Zenon DEF Lose
<1> QED BY <1>2, <1>3, <1>4, <1>5, <1>6, <1>7, <1>8 DEF Next, Agent

LEMMA NetTypeKept ==
  ASSUME FsmInv, AgentTypeOK, NetTypeOK, Next
  PROVE  NetTypeOK'
<1> DEFINE Reqs == BagToSet(requests') \subseteq Requests
           Resps == \A resp \in BagToSet(responses') : WellFormed(resp)
           Counts == /\ losses' \in 0 .. MaxLosses
                     /\ delays' \in 0 .. MaxDelays
                     /\ errors' \in 0 .. MaxErrors
<1>1. /\ BagToSet(requests) \subseteq Requests
      /\ \A resp \in BagToSet(responses) : WellFormed(resp)
      /\ losses \in 0 .. MaxLosses /\ delays \in 0 .. MaxDelays /\ errors \in 0 .. MaxErrors
      /\ MaxLosses \in Nat /\ MaxDelays \in Nat /\ MaxErrors \in Nat
  BY NetAssumption DEF NetTypeOK
<1>2. SUFFICES Reqs /\ Resps /\ Counts
  BY DEF NetTypeOK, WellFormed
<1>3. CASE AgentInit \/ GetMsg
  <2>1. UNCHANGED netVars
    BY <1>3, Zenon DEF AgentInit, GetMsg
  <2> QED BY <1>1, <2>1 DEF netVars
<1>4. ASSUME NEW resource \in {"/version", "/firmware"}, NEW off \in Nat,
             NEW blockwise, NEW next, Request(resource, off, blockwise, next)
      PROVE  Reqs /\ Resps /\ Counts
  <2> DEFINE req == [resource |-> resource, num |-> 0, offset |-> off]
  <2>1. req \in Requests
    BY DEF Requests
  <2>2. requests' = requests \/ requests' = BagAdd(requests, req)
    BY <1>4 DEF Request, ConnRequestLibcoap, ConnRequestZoap
  <2>3. UNCHANGED <<responses, losses, delays, errors>>
    BY <1>4 DEF Request
  <2> HIDE DEF req
  <2>4. Reqs
    BY <1>1, <2>1, <2>2, BagAddDomain
  <2> QED BY <1>1, <2>3, <2>4
<1>5. CASE Subscribe
  BY <1>4, <1>5 DEF Subscribe
<1>6. CASE Receive
  <2>1. processed \in Nat
    BY DEF FsmInv, FsmTypeOK
  <2> QED BY <1>4, <1>6, <2>1 DEF Receive
<1>7. CASE SubscribeReturned \/ ReceiveReturned
  <2>1. UNCHANGED <<requests, responses, losses, errors>>
    BY <1>7 DEF SubscribeReturned, ReceiveReturned, LoopReturns
  <2>2. delays' = delays \/ (delays < MaxDelays /\ delays' = delays + 1)
    BY <1>7 DEF SubscribeReturned, ReceiveReturned, LoopReturns
  <2> QED BY <1>1, <2>1, <2>2
<1>8. CASE Deliver
  <2>1. PICK resp : HandlerLibcoap(resp) \/ UdpReceive(resp)
    BY <1>8 DEF Deliver
  <2>2. Delivered(resp)
    BY <2>1 DEF HandlerLibcoap, UdpReceive
  <2>3. responses' = BagRemove(responses, resp) /\ UNCHANGED <<losses, delays, errors>>
    BY <2>2 DEF Delivered
  <2>4. \/ requests' = requests
        \/ resp.kind = "block" /\ requests' = NextBlock(resp)
    BY <2>1 DEF HandlerLibcoap, UdpReceive, More
  <2>5. resp.kind = "block" => resp.num \in Nat
    BY <2>2, DeliveredWellFormed DEF WellFormed
  <2>6. offset \in Nat
    BY DEF AgentTypeOK
  <2>7. Reqs
    <3> DEFINE req == [resource |-> "/firmware", num |-> resp.num + 1, offset |-> offset]
    <3>1. CASE requests' = requests
      BY <1>1, <3>1
    <3>2. CASE resp.kind = "block" /\ requests' = NextBlock(resp)
      <4>1. req \in Requests
        BY <2>5, <2>6, <3>2 DEF Requests
      <4>2. requests' = BagAdd(requests, req)
        BY <3>2 DEF NextBlock
      <4> QED BY <1>1, <4>1, <4>2, BagAddDomain
    <3> QED BY <2>4, <3>1, <3>2
  <2> QED BY <1>1, <2>3, <2>7, BagRemoveDomain
<1>9. ASSUME NEW req \in BagToSet(requests), NEW resp, WellFormed(resp), Answered(req, resp),
             errors' = errors \/ (errors < MaxErrors /\ errors' = errors + 1)
      PROVE  Reqs /\ Resps /\ Counts
  <2>1. /\ requests' = BagRemove(requests, req) /\ responses' = BagAdd(responses, resp)
        /\ UNCHANGED <<losses, delays>>
    BY <1>9 DEF Answered
  <2> QED BY <1>1, <1>9, <2>1, BagAddDomain, BagRemoveDomain
<1>10. CASE Respond
  <2>1. PICK req \in BagToSet(requests) :
          /\ Answered(req, IF req.resource = "/version" THEN VersionResponse
                           ELSE Block(req.num, req.offset))
          /\ UNCHANGED errors
    BY <1>10 DEF Respond
  <2>2. req.num \in Nat /\ req.offset \in Nat
    BY <1>1 DEF Requests
  <2>3. WellFormed(VersionResponse) /\ WellFormed(Block(req.num, req.offset))
    BY <2>2, BlockWellFormed DEF WellFormed, VersionResponse
  <2> QED BY <1>9, <2>1, <2>3
<1>11. CASE RespondError
  <2>1. WellFormed(ErrorResponse)
    BY DEF WellFormed, ErrorResponse
  <2> QED BY <1>9, <1>11, <2>1 DEF RespondError
<1>12. CASE Lose
  <2>1. BagToSet(requests') \subseteq BagToSet(requests)
    BY <1>12, BagRemoveDomain DEF Lose
  <2>2. BagToSet(responses') \subseteq BagToSet(responses)
    BY <1>12, BagRemoveDomain DEF Lose
  <2>3. losses < MaxLosses /\ losses' = losses + 1 /\ delays' = delays /\ errors' = errors
    BY <1>12 DEF Lose
  <2> QED BY <1>1, <2>1, <2>2, <2>3
<1> QED BY <1>3, <1>5, <1>6, <1>7, <1>8, <1>10, <1>11, <1>12 DEF Next, Agent

\* fsm always says whether it failed.
LEMMA FsmReports ==
  ASSUME FsmInv'
  PROVE  err' \in BOOLEAN
BY DEF FsmInv, FsmTypeOK

LEMMA AgentTypeKept ==
  ASSUME FsmInv, FsmInv', AgentTypeOK, Next
  PROVE  AgentTypeOK'
<1>1. /\ transport \in Transports /\ pc \in Control
      /\ loop \in BOOLEAN /\ enabled \in BOOLEAN /\ reqerr \in BOOLEAN
      /\ offset \in Nat /\ processed \in Nat /\ err' \in BOOLEAN
  BY FsmReports DEF AgentTypeOK, FsmInv, FsmTypeOK
<1>2. CASE AgentInit \/ GetMsg
  <2>1. pc' \in Control
    BY <1>2 DEF AgentInit, GetMsg, Control
  <2>2. UNCHANGED <<transport, offset, loop, enabled, reqerr>>
    BY <1>2, Zenon DEF AgentInit, GetMsg
  <2> QED BY <1>1, <2>1, <2>2, Zenon DEF AgentTypeOK
<1>3. ASSUME NEW resource, NEW off \in Nat, NEW blockwise \in BOOLEAN, NEW next \in Control,
             Request(resource, off, blockwise, next)
      PROVE  AgentTypeOK'
  <2>1. pc' \in Control
    BY <1>3 DEF Request, Control
  <2>2. offset' = off /\ transport' = transport /\ reqerr' = reqerr
    BY <1>3, Zenon DEF Request
  <2>3. PICK res :
          /\ \/ ConnRequestLibcoap([resource |-> resource, num |-> 0, offset |-> off],
                                   blockwise, res)
             \/ ConnRequestZoap([resource |-> resource, num |-> 0, offset |-> off],
                                blockwise, res)
          /\ loop' = IF res = "PULL_SUCCESS" THEN TRUE ELSE loop
    BY <1>3, Zenon DEF Request
  <2>4. enabled' = enabled \/ enabled' = blockwise
    BY <2>3, Zenon DEF ConnRequestLibcoap, ConnRequestZoap
  <2>5. loop' = TRUE \/ loop' = loop
    BY <2>3, Zenon
  <2>6. enabled' \in BOOLEAN /\ loop' \in BOOLEAN
    BY <1>1, <2>4, <2>5, Zenon
  <2> QED BY <1>1, <1>3, <2>1, <2>2, <2>6, Zenon DEF AgentTypeOK
<1>4. CASE Subscribe \/ Receive
  <2>1. {"subscribe_send", "receive_send"} \subseteq Control /\ 0 \in Nat
    BY DEF Control
  <2> QED BY <1>1, <1>3, <1>4, <2>1, Zenon DEF Subscribe, Receive
<1>5. CASE SubscribeReturned \/ ReceiveReturned
  <2>1. pc' \in Control
    BY <1>5 DEF SubscribeReturned, ReceiveReturned, Control
  <2>2. UNCHANGED <<transport, offset, loop, enabled, reqerr>>
    BY <1>5, Zenon DEF SubscribeReturned, ReceiveReturned, LoopReturns
  <2> QED BY <1>1, <2>1, <2>2, Zenon DEF AgentTypeOK
<1>6. CASE Deliver
  <2>1. PICK resp : HandlerLibcoap(resp) \/ UdpReceive(resp)
    BY <1>6 DEF Deliver
  <2>2. UNCHANGED <<transport, pc, enabled, offset>>
    BY <2>1, Zenon DEF HandlerLibcoap, UdpReceive, Delivered
  <2>3. \/ reqerr' = err' /\ loop' = (loop /\ ~err')
        \/ reqerr' = TRUE /\ loop' = loop
        \/ reqerr' = FALSE /\ loop' = FALSE
    BY <2>1, Zenon DEF HandlerLibcoap, UdpReceive, CallbackData, CallbackError, CallbackNothing
  <2>4. reqerr' \in BOOLEAN /\ loop' \in BOOLEAN
    BY <1>1, <2>3, Zenon
  <2> QED BY <1>1, <2>2, <2>4, Zenon DEF AgentTypeOK
<1>7. CASE Respond \/ RespondError \/ Lose
  <2>1. UNCHANGED agentVars
    BY <1>7, Zenon DEF Respond, RespondError, Answered, Lose
  <2> QED BY <1>1, <2>1, Zenon DEF AgentTypeOK, agentVars
<1> QED BY <1>2, <1>4, <1>5, <1>6, <1>7 DEF Next, Agent

LEMMA AgentInvInit ==
  ASSUME Init
  PROVE  AgentInv
<1>1. obj \in [Units -> Cells]
  BY DEF Init, Cells
<1>2. FsmInv
  BY <1>1, FsmInitHolds DEF Init
<1>3. AgentTypeOK
  BY DEF Init, AgentTypeOK, Control
<1>4. BagToSet(EmptyBag) = {}
  BY DEF BagToSet, EmptyBag, SetToBag
<1>5. NetTypeOK
  BY <1>4, NetAssumption DEF Init, NetTypeOK
<1> QED BY <1>2, <1>3, <1>5 DEF AgentInv

LEMMA AgentInvKept ==
  ASSUME AgentInv, [Next]_vars
  PROVE  AgentInv'
<1>1. CASE Next
  BY <1>1, FsmInvKept, NetTypeKept, AgentTypeKept DEF AgentInv
<1>2. CASE UNCHANGED vars
  <2>1. FsmInv'
    BY <1>2, FsmStutters DEF AgentInv, vars
  <2>2. UNCHANGED agentVars /\ UNCHANGED netVars
    BY <1>2 DEF vars
  <2>3. AgentTypeOK'
    BY <2>2, Zenon DEF AgentInv, AgentTypeOK, agentVars
  <2>4. NetTypeOK'
    BY <2>2 DEF AgentInv, NetTypeOK, netVars, WellFormed
  <2> QED BY <2>1, <2>3, <2>4 DEF AgentInv
<1> QED BY <1>1, <1>2

\* fsm, buffer, writer, agent and network stay consistent, for every image,
\* every transport and any number of faults, losses, delays and errors.
THEOREM AgentInvariant == Spec => []AgentInv
BY AgentInvInit, AgentInvKept, PTL DEF Spec

\* Every variable of the pull agent keeps its type; in particular every request
\* that is sent has an offset and a block number that the server can answer.
THEOREM PullTypeCorrect == Spec => []TypeOK
<1>1. AgentInv => TypeOK
  BY DEF AgentInv, TypeOK, FsmInv
<1> QED BY <1>1, AgentInvariant, PTL

\* The slot and the buffer hold what was accepted from the network, in order,
\* behind the pull agent too, where responses come late and in any order.
THEOREM PullPipelineInOrder == Spec => []PipelineInOrder
<1>1. AgentInv => PipelineInOrder
  BY DEF AgentInv, FsmInv
<1> QED BY <1>1, AgentInvariant, PTL

\* The pull agent sees STATE_REBOOT only with a complete, genuine and newer image.
THEOREM PullRebootVerified == Spec => []RebootVerified
<1>1. AgentInv => RebootVerified
  BY DEF AgentInv, FsmInv
<1> QED BY <1>1, AgentInvariant, PTL

----------------------------------------------------------------------------
(* EVENT_APPLY. *)

Untouched == obj = [u \in Units |-> Junk]

\* With libcoap an agent that has not failed has an untouched slot, or a verified
\* image, or a download that it will not leave, or an error that it will see when
\* its loop returns, before any other response is looked at.
ErrorPending == reqerr = TRUE /\ loop = FALSE /\ pc \in {"subscribe_send", "receive_send"}

SlotSafe ==
  \/ Untouched
  \/ state = "STATE_REBOOT"
  \/ state = "STATE_RECEIVE_FIRMWARE" /\ pc # "apply"
  \/ ErrorPending

ApplyInv == transport = "libcoap" /\ pc # "failed" => SlotSafe

\* A call of fsm that does not fail leaves an untouched slot alone, or goes on to
\* receive, or ends with a verified image.
LEMMA FsmSlot ==
  ASSUME NEW msg, Fsm(msg),
         Untouched \/ state \in {"STATE_REBOOT", "STATE_RECEIVE_FIRMWARE"}
  PROVE  err' = TRUE \/ Untouched' \/ state' \in {"STATE_REBOOT", "STATE_RECEIVE_FIRMWARE"}
<1>1. CASE Idle(msg) \/ StartUpdate(Len(msg.data)) \/ StaleManifest
           \/ ReceiveManifest(msg.data) \/ RejectManifest(msg.data)
  <2>1. obj' = obj /\ state \notin {"STATE_REBOOT", "STATE_RECEIVE_FIRMWARE"}
    BY <1>1 DEF Idle, StartUpdate, StaleManifest, ReceiveManifest, RejectManifest
  <2> QED BY <2>1 DEF Untouched
<1>2. CASE AcceptManifest(msg.data) \/ TooMuchFirmware(msg.data)
  <2>1. err' = TRUE \/ state' = "STATE_RECEIVE_FIRMWARE"
    BY <1>2, Zenon DEF AcceptManifest, TooMuchFirmware, FsmError
  <2> QED BY <2>1, Zenon
<1>3. CASE ReceiveFirmware(msg.data) \/ VerifyFirmware(msg.data) \/ Rebooting
  <2>1. err' = TRUE \/ state' \in {"STATE_REBOOT", "STATE_RECEIVE_FIRMWARE"}
    BY <1>3, Zenon DEF ReceiveFirmware, VerifyFirmware, Rebooting
  <2> QED BY <2>1, Zenon
<1> QED BY <1>1, <1>2, <1>3 DEF Fsm

LEMMA ApplyKept ==
  ASSUME AgentInv, ApplyInv, [Next]_vars
  PROVE  ApplyInv'
<1>1. SUFFICES ASSUME transport' = "libcoap", pc' # "failed"
               PROVE  SlotSafe'
  BY DEF ApplyInv
<1>2. ASSUME UNCHANGED <<fsmVars, transport, loop, reqerr, pc>>
      PROVE  SlotSafe'
  <2>1. state' = state /\ obj' = obj /\ transport' = transport /\ pc' = pc
    BY <1>2, Zenon DEF fsmVars
  <2>2. loop' = loop /\ reqerr' = reqerr
    BY <1>2, Zenon
  <2>3. ErrorPending => ErrorPending'
    BY <2>1, <2>2, Zenon DEF ErrorPending
  <2>4. SlotSafe
    BY <1>1, <2>1 DEF ApplyInv
  <2> QED BY <2>1, <2>3, <2>4 DEF SlotSafe, Untouched
\* Where no error is pending, a step that leaves the machine alone keeps the rest.
<1>3. ASSUME transport' = transport, state' = state, obj' = obj, pc # "failed",
             ~ErrorPending, pc' = "apply" => state # "STATE_RECEIVE_FIRMWARE"
      PROVE  SlotSafe'
  <2>1. SlotSafe
    BY <1>1, <1>3 DEF ApplyInv
  <2> QED BY <1>3, <2>1 DEF SlotSafe, Untouched
<1>4. CASE AgentInit
  <2>1. /\ transport' = transport /\ state' = state /\ obj' = obj
        /\ pc = "init" /\ pc' # "apply"
    BY <1>4 DEF AgentInit, fsmVars
  <2> QED BY <1>3, <2>1 DEF ErrorPending
<1>5. CASE Subscribe \/ Receive
  <2>1. /\ transport' = transport /\ state' = state /\ obj' = obj
        /\ pc \in {"subscribe", "receive"} /\ pc' # "apply"
    BY <1>5 DEF Subscribe, Receive, Request, fsmVars
  <2> QED BY <1>3, <2>1 DEF ErrorPending
<1>6. CASE SubscribeReturned \/ ReceiveReturned
  <2>1. /\ transport' = transport /\ state' = state /\ obj' = obj
        /\ pc \in {"subscribe_send", "receive_send"}
        /\ pc' = "apply" => state # "STATE_RECEIVE_FIRMWARE"
    BY <1>6 DEF SubscribeReturned, ReceiveReturned, LoopReturns, fsmVars
  <2>2. reqerr = TRUE => pc' = "failed"
    BY <1>6, Zenon DEF SubscribeReturned, ReceiveReturned
  <2>3. ~ErrorPending
    BY <1>1, <2>2, Zenon DEF ErrorPending
  <2> QED BY <1>3, <2>1, <2>3
<1>7. CASE GetMsg
  <2>1. /\ transport' = transport /\ pc = "get_msg"
        /\ Fsm(DataMsg([u \in 1 .. MsgUnits |-> Junk]))
    BY <1>7 DEF GetMsg
  <2>2. err' = TRUE => pc' = "failed"
    BY <1>7, Zenon DEF GetMsg
  <2>3. pc' # "apply"
    BY <1>7 DEF GetMsg
  <2>4. Untouched \/ state \in {"STATE_REBOOT", "STATE_RECEIVE_FIRMWARE"}
    BY <1>1, <2>1 DEF ApplyInv, SlotSafe, ErrorPending
  <2>5. err' = TRUE \/ Untouched' \/ state' \in {"STATE_REBOOT", "STATE_RECEIVE_FIRMWARE"}
    BY <2>1, <2>4, FsmSlot
  <2>6. ~(err' = TRUE)
    BY <1>1, <2>2, Zenon
  <2> QED BY <2>3, <2>5, <2>6 DEF SlotSafe
<1>8. CASE Deliver
  <2>1. PICK resp : HandlerLibcoap(resp) \/ UdpReceive(resp)
    BY <1>8 DEF Deliver
  <2>2. transport' = transport /\ pc' = pc
    BY <2>1, Zenon DEF HandlerLibcoap, UdpReceive, Delivered
  <2>3. HandlerLibcoap(resp)
    BY <1>1, <2>1, <2>2 DEF UdpReceive
  <2>4. pc \in {"subscribe_send", "receive_send"} /\ loop
    BY <1>1, <2>2, <2>3, Zenon DEF HandlerLibcoap, Delivered, Listening
  <2>5. ~ErrorPending
    BY <2>4, Zenon DEF ErrorPending
  <2>6. CASE CallbackData(Payload(resp))
    <3>1. Untouched \/ state \in {"STATE_REBOOT", "STATE_RECEIVE_FIRMWARE"}
      BY <1>1, <2>2, <2>5 DEF ApplyInv, SlotSafe
    <3>2. Fsm(Payload(resp))
      BY <2>6, Zenon DEF CallbackData
    <3>3. err' = TRUE \/ Untouched' \/ state' \in {"STATE_REBOOT", "STATE_RECEIVE_FIRMWARE"}
      BY <3>1, <3>2, FsmSlot
    <3>4. err' = TRUE => reqerr' = TRUE /\ loop' = FALSE
      BY <2>6, Zenon DEF CallbackData
    <3>5. err' = TRUE => ErrorPending'
      BY <2>2, <2>4, <3>4, Zenon DEF ErrorPending
    <3>6. pc' # "apply"
      BY <2>2, <2>4
    <3> QED BY <3>3, <3>5, <3>6, Zenon DEF SlotSafe
  <2>7. CASE CallbackError
    <3>1. UNCHANGED fsmVars
      BY <2>7, Zenon DEF CallbackError
    <3>2. state' = state /\ obj' = obj
      BY <3>1 DEF fsmVars
    <3> QED BY <1>1, <1>3, <2>2, <2>4, <2>5, <3>2
  <2> QED BY <2>3, <2>6, <2>7, Zenon DEF HandlerLibcoap
<1>9. CASE Respond \/ RespondError \/ Lose
  <2>1. UNCHANGED fsmVars /\ UNCHANGED agentVars
    BY <1>9, Zenon DEF Respond, RespondError, Answered, Lose
  <2> QED BY <1>2, <2>1, Zenon DEF agentVars
<1>10. CASE UNCHANGED vars
  BY <1>2, <1>10, Zenon DEF vars, agentVars
<1> QED BY <1>4, <1>5, <1>6, <1>7, <1>8, <1>9, <1>10 DEF Next, Agent

\* With libcoap EVENT_APPLY is returned only for a verified image or before the
\* slot has been touched, whatever is lost, late, reordered or fails, for every
\* image and every size of chunk, buffer and manifest.
THEOREM PullApplyHarmless == Spec => []ApplyHarmless
<1>1. Init => ApplyInv
  BY DEF Init, ApplyInv, SlotSafe, Untouched
<1>2. AgentInv /\ ApplyInv /\ [Next]_vars => ApplyInv'
  BY ApplyKept
<1>3. AgentInv /\ ApplyInv => ApplyHarmless
  BY DEF AgentInv, FsmInv, RebootVerified, ApplyInv, SlotSafe, Untouched, ErrorPending,
         ApplyHarmless
<1> QED BY <1>1, <1>2, <1>3, AgentInvariant, PTL DEF Spec

----------------------------------------------------------------------------
(* DownloadInOrder, when the loop never ends with a message on its way. *)

Quiet == requests = EmptyBag /\ responses = EmptyBag

Receiving == state \in {"STATE_RECEIVE_MANIFEST", "STATE_RECEIVE_FIRMWARE"}

\* What a message on its way is about: the version while the agent asks for it,
\* and the next missing block while the machine receives.
RequestInOrder(req) ==
  IF pc = "subscribe_send" THEN req.resource = "/version"
  ELSE /\ req.resource = "/firmware"
       /\ Receiving => req.offset = offset /\ offset + req.num * MaxChunk = processed

ResponseInOrder(resp) ==
  \/ resp = ErrorResponse
  \/ pc = "subscribe_send" /\ resp = VersionResponse
  \/ /\ pc # "subscribe_send"
     /\ \E n, off \in Nat :
          /\ resp = Block(n, off)
          /\ Receiving => off = offset /\ off + n * MaxChunk = processed

\* At most one message is on its way.
Flight ==
  \/ Quiet
  \/ /\ pc \in {"subscribe_send", "receive_send", "failed"}
     /\ \/ \E req \in Requests : /\ requests = SetToBag({req}) /\ responses = EmptyBag
                                 /\ RequestInOrder(req)
        \/ \E resp : /\ requests = EmptyBag /\ responses = SetToBag({resp})
                     /\ ResponseInOrder(resp)

\* A loop that was broken without an error leaves nothing on its way.
Stopped == state \in {"STATE_CLEAN", "STATE_IDLE"}
BrokenLoop == pc = "receive_send" /\ loop = FALSE => (reqerr = TRUE /\ Stopped) \/ Quiet

\* The machine moves on with the agent.
InStep ==
  /\ pc \in {"init", "subscribe", "subscribe_send", "get_msg"} =>
       stream = <<>> /\ state \in {"STATE_CLEAN", "STATE_IDLE", "STATE_START_UPDATE"}
  /\ pc = "get_msg" => state = "STATE_START_UPDATE"
  /\ pc \in {"init", "subscribe", "receive", "receive_send", "apply"} =>
       state # "STATE_START_UPDATE"
  /\ pc = "subscribe_send" /\ loop = FALSE => Quiet
  /\ state = "STATE_START_UPDATE" => Quiet

OrderInv == Flight /\ BrokenLoop /\ InStep /\ DownloadInOrder

LEMMA SingleBag ==
  ASSUME NEW m
  PROVE  /\ BagAdd(EmptyBag, m) = SetToBag({m})
         /\ BagRemove(SetToBag({m}), m) = EmptyBag
         /\ BagToSet(SetToBag({m})) = {m}
         /\ BagToSet(EmptyBag) = {}
         /\ SetToBag({m}) # EmptyBag
<1>1. DOMAIN EmptyBag = {} /\ DOMAIN SetToBag({m}) = {m} /\ SetToBag({m})[m] = 1
  BY DEF EmptyBag, SetToBag
<1>2. BagAdd(EmptyBag, m) = [e \in {m} |-> 1]
  <2>1. BagAdd(EmptyBag, m) = [e \in {} \cup {m} |-> IF e = m THEN 1 ELSE EmptyBag[e]]
    BY <1>1 DEF BagAdd
  <2> QED BY <2>1
<1>3. BagRemove(SetToBag({m}), m) = [e \in {} |-> 1]
  <2>1. BagRemove(SetToBag({m}), m) = [e \in {m} \ {m} |-> SetToBag({m})[e]]
    BY <1>1 DEF BagRemove
  <2> QED BY <2>1
<1> QED BY <1>1, <1>2, <1>3 DEF EmptyBag, SetToBag, BagToSet

\* Data that continues the stream is accepted behind it, or ends the download.
LEMMA DataInOrder ==
  ASSUME FsmInv, DownloadInOrder, state # "STATE_START_UPDATE",
         NEW data \in Seq(Cells), Fsm(DataMsg(data)),
         Receiving => \A k \in 1 .. Len(data) : data[k] = <<Offered, processed + k>>
  PROVE  /\ DownloadInOrder' /\ state' # "STATE_START_UPDATE"
         /\ Receiving' => Receiving /\ processed' = processed + Len(data)
<1> DEFINE msg == DataMsg(data)
<1>1. msg.data = data /\ msg.version = NoVersion
  BY DEF DataMsg
<1> HIDE DEF msg
<1>2. CASE state' = "STATE_CLEAN" \/ state' = "STATE_IDLE"
  BY <1>2 DEF DownloadInOrder, Receiving
<1>3. CASE Receiving /\ stream' = stream \o data /\ processed' = processed + Len(data)
           /\ state' # "STATE_START_UPDATE"
  <2>1. stream \in Seq(Cells) /\ processed = Len(stream)
    BY DEF FsmInv, FsmTypeOK
  <2>2. \A u \in 1 .. Len(stream) : stream[u] = <<Offered, u>>
    BY <1>3 DEF DownloadInOrder, Receiving
  <2>3. \A k \in 1 .. Len(data) : data[k] = <<Offered, Len(stream) + k>>
    BY <1>3, <2>1
  <2>4. \A u \in 1 .. Len(stream \o data) : (stream \o data)[u] = <<Offered, u>>
    <3> SUFFICES ASSUME NEW u \in 1 .. Len(stream \o data)
                 PROVE  (stream \o data)[u] = <<Offered, u>>
      OBVIOUS
    <3>1. Len(stream) \in Nat /\ Len(data) \in Nat /\ Len(stream \o data) = Len(stream) + Len(data)
      BY <2>1
    <3>2. CASE u <= Len(stream)
      BY <2>1, <2>2, <3>1, <3>2
    <3>3. CASE u > Len(stream)
      <4>1. (stream \o data)[u] = data[u - Len(stream)] /\ u - Len(stream) \in 1 .. Len(data)
        BY <2>1, <3>1, <3>3
      <4>2. Len(stream) + (u - Len(stream)) = u
        BY <3>1
      <4> QED BY <2>3, <4>1, <4>2
    <3> QED BY <3>1, <3>2, <3>3
  <2> QED BY <1>3, <2>4 DEF DownloadInOrder, Receiving
<1>4. CASE Idle(msg)
  <2>1. state' = "STATE_CLEAN"
    BY <1>1, <1>4 DEF Idle, FsmError
  <2> QED BY <1>2, <2>1
<1>5. CASE StartUpdate(Len(msg.data))
  BY <1>5 DEF StartUpdate
<1>6. CASE StaleManifest \/ RejectManifest(msg.data) \/ TooMuchFirmware(msg.data)
  BY <1>2, <1>6 DEF StaleManifest, RejectManifest, TooMuchFirmware, FsmError
<1>7. CASE ReceiveManifest(msg.data)
  BY <1>1, <1>3, <1>7 DEF ReceiveManifest, Receiving
<1>8. CASE AcceptManifest(msg.data)
  <2>1. state' = "STATE_CLEAN" \/ (/\ state = "STATE_RECEIVE_MANIFEST" 
                                   /\ state' = "STATE_RECEIVE_FIRMWARE"
                                   /\ stream' = stream \o msg.data
                                   /\ processed' = processed + Len(msg.data))
    BY <1>8 DEF AcceptManifest, FsmError
  <2> QED BY <1>1, <1>2, <1>3, <2>1 DEF Receiving
<1>9. CASE ReceiveFirmware(msg.data)
  BY <1>1, <1>3, <1>9 DEF ReceiveFirmware, Receiving
<1>10. CASE VerifyFirmware(msg.data)
  BY <1>1, <1>3, <1>10 DEF VerifyFirmware, Receiving
<1>11. CASE Rebooting
  BY <1>11 DEF Rebooting, DownloadInOrder, Receiving
<1> QED BY <1>4, <1>5, <1>6, <1>7, <1>8, <1>9, <1>10, <1>11 DEF Fsm, msg

\* An error stops the machine, and data does not start it again.
LEMMA DataStops ==
  ASSUME state # "STATE_START_UPDATE", NEW data, Fsm(DataMsg(data))
  PROVE  (err' = TRUE => Stopped') /\ (Stopped => err' = TRUE) /\ err' \in BOOLEAN
<1>1. DataMsg(data).version = NoVersion
  BY DEF DataMsg
<1>2. CASE Stopped
  <2>1. Idle(DataMsg(data))
    BY <1>2 DEF Fsm, Stopped, StartUpdate, StaleManifest, ReceiveManifest, RejectManifest,
                AcceptManifest, TooMuchFirmware, ReceiveFirmware, VerifyFirmware, Rebooting
  <2>2. FsmError
    BY <1>1, <2>1 DEF Idle
  <2> QED BY <2>2 DEF FsmError, Stopped
<1>3. CASE ~Stopped
  BY <1>3 DEF Fsm, FsmError, Stopped, Idle, StartUpdate, StaleManifest, ReceiveManifest,
              RejectManifest, AcceptManifest, TooMuchFirmware, ReceiveFirmware, VerifyFirmware,
              Rebooting
<1> QED BY <1>2, <1>3

LEMMA BlockInOrder ==
  ASSUME NEW num \in Nat, NEW off \in Nat, Block(num, off).kind = "block"
  PROVE  /\ Block(num, off).num = num
         /\ Block(num, off).data \in Seq(Cells)
         /\ \A k \in 1 .. Len(Block(num, off).data) :
              Block(num, off).data[k] = <<Offered, off + num * MaxChunk + k>>
         /\ Block(num, off).more => Len(Block(num, off).data) = MaxChunk
<1> DEFINE first == off + num * MaxChunk + 1
           last == off + (num + 1) * MaxChunk
           end == Length[Offered]
           stop == IF last < end THEN last ELSE end
           data == SubSeq(Image(Offered), first, stop)
<1>1. MaxChunk \in Nat \ {0} /\ end \in Nat /\ Offered \in Images
  BY FsmAssumption, NetAssumption
<1>2. num * MaxChunk \in Nat /\ (num + 1) * MaxChunk = num * MaxChunk + MaxChunk
  BY <1>1
<1>3. first \in Nat /\ last \in Nat /\ last = first + MaxChunk - 1 /\ first >= 1
  BY <1>1, <1>2
<1>4. Image(Offered) \in Seq(Cells) /\ Len(Image(Offered)) = end
      /\ \A u \in 1 .. end : Image(Offered)[u] = <<Offered, u>>
  BY <1>1, ImageIsData DEF Image
<1>5. ~(first > end)
  BY DEF Block, ErrorResponse
<1>6. Block(num, off) = [kind |-> "block", num |-> num, more |-> last < end, data |-> data]
  BY <1>5 DEF Block
<1>7. off + num * MaxChunk = first - 1
  BY <1>2
<1> HIDE DEF first, last, end
<1>8. stop \in Nat /\ first <= stop /\ stop <= end
  BY <1>1, <1>3, <1>5
<1>9. last < end => stop = last
  OBVIOUS
<1> HIDE DEF stop
<1>10. /\ data \in Seq(Cells) /\ Len(data) = stop - first + 1
       /\ \A k \in 1 .. Len(data) : data[k] = Image(Offered)[first + k - 1]
  BY <1>3, <1>4, <1>8
<1>11. \A k \in 1 .. Len(data) : data[k] = <<Offered, first - 1 + k>>
  <2> SUFFICES ASSUME NEW k \in 1 .. Len(data)
               PROVE  data[k] = <<Offered, first - 1 + k>>
    OBVIOUS
  <2>1. first + k - 1 \in 1 .. end /\ first + k - 1 = first - 1 + k
    BY <1>1, <1>3, <1>8, <1>10
  <2> QED BY <1>4, <1>10, <2>1
<1>12. last < end => Len(data) = MaxChunk
  BY <1>1, <1>3, <1>8, <1>9, <1>10
<1> HIDE DEF data
<1>13. Block(num, off).num = num /\ Block(num, off).data = data
  BY <1>6
<1>14. Block(num, off).more = (last < end)
  BY <1>6
<1>15. Block(num, off).more => Len(data) = MaxChunk
  BY <1>12, <1>14, Zenon
<1>16. \A k \in 1 .. Len(data) : data[k] = <<Offered, off + num * MaxChunk + k>>
  BY <1>7, <1>11
<1>17. Block(num, off).more => Len(Block(num, off).data) = MaxChunk
  BY <1>13, <1>15, Zenon
<1> QED BY <1>10, <1>13, <1>16, <1>17, Zenon

LEMMA OrderInit == Init => OrderInv
BY DEF Init, FsmInit, OrderInv, Flight, Quiet, BrokenLoop, InStep, DownloadInOrder

\* With nothing on its way, only the machine and the control matter.
LEMMA QuietOrder ==
  ASSUME Quiet', DownloadInOrder',
         pc' \in {"init", "subscribe", "subscribe_send", "get_msg"} =>
           stream' = <<>> /\ state' \in {"STATE_CLEAN", "STATE_IDLE", "STATE_START_UPDATE"},
         pc' = "get_msg" => state' = "STATE_START_UPDATE",
         pc' \in {"init", "subscribe", "receive", "receive_send", "apply"} =>
           state' # "STATE_START_UPDATE"
  PROVE  OrderInv'
BY DEF OrderInv, Flight, BrokenLoop, InStep

LEMMA FsmUnchanged ==
  ASSUME UNCHANGED fsmVars
  PROVE  /\ state' = state /\ stream' = stream /\ processed' = processed
         /\ DownloadInOrder => DownloadInOrder'
<1>1. state' = state /\ stream' = stream /\ processed' = processed
  BY DEF fsmVars
<1> QED BY <1>1 DEF DownloadInOrder

LEMMA RequestOrder ==
  ASSUME Quiet, OrderInv, NEW resource, NEW off \in Nat, NEW blockwise, NEW next,
         Request(resource, off, blockwise, next),
         \/ next = "subscribe_send" /\ resource = "/version" /\ pc = "subscribe"
         \/ next = "receive_send" /\ resource = "/firmware" /\ pc = "receive" /\ off = processed
  PROVE  OrderInv'
<1> DEFINE req == [resource |-> resource, num |-> 0, offset |-> off]
<1>1. UNCHANGED fsmVars /\ responses' = responses /\ offset' = off
  BY Zenon DEF Request
<1>2. \/ pc' = "failed" /\ requests' = requests
      \/ pc' = next /\ requests' = BagAdd(requests, req)
  BY DEF Request, ConnRequestLibcoap, ConnRequestZoap
<1>3. pc' = "failed" \/ loop' = TRUE
  BY Zenon DEF Request
<1>4. req \in Requests /\ req.resource = resource /\ req.num = 0 /\ req.offset = off
  BY DEF Requests
<1> HIDE DEF req
<1>5. DownloadInOrder' /\ state' = state /\ stream' = stream /\ processed' = processed
  BY <1>1, FsmUnchanged DEF OrderInv
<1>6. CASE pc' = "failed" /\ requests' = requests
  <2>1. Quiet'
    BY <1>1, <1>6 DEF Quiet
  <2> QED BY <1>5, <1>6, <2>1, QuietOrder
<1>7. CASE pc' = next /\ requests' = BagAdd(requests, req)
  <2>1. requests' = SetToBag({req}) /\ responses' = EmptyBag
    BY <1>1, <1>7, SingleBag DEF Quiet
  <2>2. MaxChunk \in Nat /\ off + 0 * MaxChunk = off
    BY FsmAssumption
  <2>3. RequestInOrder(req)'
    BY <1>1, <1>4, <1>5, <1>7, <2>2 DEF RequestInOrder
  <2>4. Flight'
    BY <1>4, <1>7, <2>1, <2>3 DEF Flight
  <2>5. ~(loop' = FALSE)
    BY <1>3, <1>7, Zenon
  <2>6. state # "STATE_START_UPDATE" /\ (next = "subscribe_send" =>
          stream = <<>> /\ state \in {"STATE_CLEAN", "STATE_IDLE", "STATE_START_UPDATE"})
    BY DEF OrderInv, InStep
  <2> QED BY <1>5, <1>7, <2>4, <2>5, <2>6 DEF OrderInv, BrokenLoop, InStep
<1> QED BY <1>2, <1>6, <1>7

\* The loop returns with an error, or with nothing on its way.
LEMMA ReturnsQuiet ==
  ASSUME MaxDelays = 0, AgentInv, OrderInv, LoopReturns,
         pc \in {"subscribe_send", "receive_send"}
  PROVE  Quiet \/ (pc = "receive_send" /\ reqerr = TRUE)
<1>1. delays = 0 /\ loop \in BOOLEAN
  BY DEF AgentInv, NetTypeOK, AgentTypeOK
<1>2. loop = FALSE \/ Quiet
  <2>1. ~loop \/ (requests = EmptyBag /\ responses = EmptyBag) \/ delays < MaxDelays
    BY Zenon DEF LoopReturns
  <2>2. ~(delays < MaxDelays)
    BY <1>1
  <2> QED BY <1>1, <2>1, <2>2, Zenon DEF Quiet
<1> QED BY <1>2 DEF OrderInv, BrokenLoop, InStep

LEMMA ReturnOrder ==
  ASSUME MaxDelays = 0, AgentInv, OrderInv, SubscribeReturned \/ ReceiveReturned
  PROVE  OrderInv'
<1>1. LoopReturns /\ pc \in {"subscribe_send", "receive_send"}
  BY DEF SubscribeReturned, ReceiveReturned
<1>2. UNCHANGED fsmVars /\ UNCHANGED <<requests, responses, offset>>
  BY <1>1, Zenon DEF LoopReturns
<1>3. DownloadInOrder' /\ state' = state /\ stream' = stream /\ processed' = processed
  BY <1>2, FsmUnchanged DEF OrderInv
<1>4. CASE Quiet
  <2>1. Quiet'
    BY <1>2, <1>4 DEF Quiet
  <2>2. \/ pc = "subscribe_send" /\ pc' \in {"failed", "subscribe", "get_msg"}
           /\ (pc' = "subscribe" => state # "STATE_START_UPDATE")
           /\ (pc' = "get_msg" => state = "STATE_START_UPDATE")
        \/ pc = "receive_send" /\ pc' \in {"failed", "receive", "apply"}
    BY DEF SubscribeReturned, ReceiveReturned
  <2> QED BY <1>3, <2>1, <2>2, QuietOrder DEF OrderInv, InStep
<1>5. CASE pc = "receive_send" /\ reqerr = TRUE
  <2>1. pc' = "failed"
    BY <1>5, Zenon DEF SubscribeReturned, ReceiveReturned
  <2>2. Flight'
    BY <1>2, <1>3, <1>5, <2>1 DEF OrderInv, Flight, Quiet, RequestInOrder, ResponseInOrder, Receiving
  <2> QED BY <1>3, <1>5, <2>1, <2>2 DEF OrderInv, BrokenLoop, InStep
<1> QED BY <1>1, <1>4, <1>5, ReturnsQuiet

LEMMA GetMsgOrder ==
  ASSUME OrderInv, GetMsg
  PROVE  OrderInv'
<1> DEFINE msg == DataMsg([u \in 1 .. MsgUnits |-> Junk])
<1>1. /\ pc = "get_msg" /\ state = "STATE_START_UPDATE" /\ stream = <<>> /\ Quiet
      /\ Fsm(msg) /\ UNCHANGED netVars
  BY DEF GetMsg, OrderInv, InStep
<1>2. Quiet'
  BY <1>1 DEF Quiet, netVars
<1> HIDE DEF msg
<1>3. StartUpdate(Len(msg.data))
  BY <1>1 DEF Fsm, Idle, StaleManifest, ReceiveManifest, RejectManifest, AcceptManifest,
              TooMuchFirmware, ReceiveFirmware, VerifyFirmware, Rebooting
<1>4. stream' = <<>> /\ state' \in {"STATE_RECEIVE_MANIFEST", "STATE_CLEAN"}
  BY <1>1, <1>3 DEF StartUpdate, FsmError
<1>5. pc' \in {"failed", "receive"}
  BY DEF GetMsg
<1>6. DownloadInOrder'
  BY <1>4 DEF DownloadInOrder
<1> QED BY <1>2, <1>4, <1>5, <1>6, QuietOrder

\* The response that is delivered was the only message.
LEMMA OnlyResponse ==
  ASSUME OrderInv, NEW resp, Delivered(resp)
  PROVE  /\ requests = EmptyBag /\ responses = SetToBag({resp}) /\ responses' = EmptyBag
         /\ ResponseInOrder(resp)
         /\ pc \in {"subscribe_send", "receive_send", "failed"} /\ pc' = pc /\ offset' = offset
         /\ state # "STATE_START_UPDATE"
<1>1. resp \in BagToSet(responses) /\ responses' = BagRemove(responses, resp)
      /\ pc' = pc /\ offset' = offset
  BY DEF Delivered, BagIn
<1>2. responses # EmptyBag
  BY <1>1, SingleBag
<1>3. PICK r : requests = EmptyBag /\ responses = SetToBag({r}) /\ ResponseInOrder(r)
  BY <1>2 DEF OrderInv, Flight, Quiet
<1>4. r = resp
  <2>1. BagToSet(SetToBag({r})) = {r}
    BY SingleBag
  <2> QED BY <1>1, <1>3, <2>1
<1> QED BY <1>1, <1>2, <1>3, <1>4, SingleBag DEF OrderInv, Flight, InStep, Quiet

LEMMA VersionOrder ==
  ASSUME OrderInv, state # "STATE_START_UPDATE", pc = "subscribe_send",
         NEW v, Fsm(VersionMsg(v))
  PROVE  /\ stream' = <<>> /\ state' \in {"STATE_CLEAN", "STATE_IDLE", "STATE_START_UPDATE"}
<1>1. stream = <<>> /\ state \in {"STATE_CLEAN", "STATE_IDLE"}
  BY DEF OrderInv, InStep
<1>2. Idle(VersionMsg(v))
  BY <1>1 DEF Fsm, StartUpdate, StaleManifest, ReceiveManifest, RejectManifest, AcceptManifest,
              TooMuchFirmware, ReceiveFirmware, VerifyFirmware, Rebooting
<1> QED BY <1>1, <1>2 DEF Idle, FsmError

LEMMA DeliverOrder ==
  ASSUME AgentInv, OrderInv, NEW resp, HandlerLibcoap(resp) \/ UdpReceive(resp)
  PROVE  OrderInv'
<1>1. Delivered(resp)
  BY DEF HandlerLibcoap, UdpReceive
<1>2. /\ requests = EmptyBag /\ responses' = EmptyBag /\ ResponseInOrder(resp)
      /\ pc \in {"subscribe_send", "receive_send", "failed"} /\ pc' = pc /\ offset' = offset
      /\ state # "STATE_START_UPDATE"
  BY <1>1, OnlyResponse
\* What the handlers do, whichever it is.
<1>3. \/ UNCHANGED fsmVars /\ requests' = requests
      \/ /\ CallbackData(Payload(resp)) /\ resp.kind # "error"
         /\ requests' = requests \/ (More(resp) /\ requests' = NextBlock(resp))
  <2>1. CASE HandlerLibcoap(resp)
    BY <2>1, Zenon DEF HandlerLibcoap, CallbackError
  <2>2. CASE UdpReceive(resp)
    <3>1. CASE /\ resp.kind # "error" /\ CallbackData(Payload(resp))
               /\ requests' \in {requests} \cup (IF More(resp) THEN {NextBlock(resp)} ELSE {})
      <4>1. requests' = requests \/ (More(resp) /\ requests' = NextBlock(resp))
        BY <3>1, Zenon
      <4> QED BY <3>1, <4>1, Zenon
    <3>2. CASE (CallbackError \/ CallbackNothing) /\ requests' = requests
      BY <3>2, Zenon DEF CallbackError, CallbackNothing
    <3> QED BY <2>2, <3>1, <3>2, Zenon DEF UdpReceive
  <2> QED BY <2>1, <2>2
<1>4. CASE UNCHANGED fsmVars /\ requests' = requests
  <2>1. Quiet'
    BY <1>2, <1>4 DEF Quiet
  <2>2. DownloadInOrder' /\ state' = state /\ stream' = stream
    BY <1>4, FsmUnchanged DEF OrderInv
  <2> QED BY <1>2, <2>1, <2>2, QuietOrder DEF OrderInv, InStep
<1>5. ASSUME CallbackData(Payload(resp)), resp.kind # "error",
             requests' = requests \/ (More(resp) /\ requests' = NextBlock(resp))
      PROVE  OrderInv'
  <2>1. Fsm(Payload(resp))
    BY <1>5, Zenon DEF CallbackData
  <2>2. CASE pc = "subscribe_send" /\ resp = VersionResponse
    <3>1. resp.kind = "version" /\ Payload(resp) = VersionMsg(Version[Offered])
      BY <2>2 DEF VersionResponse, Payload
    <3>2. ~More(resp)
      BY <3>1, Zenon DEF More
    <3>3. requests' = requests
      BY <1>5, <3>2, Zenon
    <3>4. Quiet'
      BY <1>2, <3>3 DEF Quiet
    <3>5. stream' = <<>> /\ state' \in {"STATE_CLEAN", "STATE_IDLE", "STATE_START_UPDATE"}
      BY <1>2, <2>1, <2>2, <3>1, VersionOrder
    <3>6. DownloadInOrder'
      BY <3>5 DEF DownloadInOrder
    <3> QED BY <1>2, <2>2, <3>4, <3>5, <3>6, QuietOrder
  <2>3. CASE pc # "subscribe_send"
    <3>1. PICK n \in Nat, off \in Nat :
            /\ resp = Block(n, off)
            /\ Receiving => off = offset /\ off + n * MaxChunk = processed
      BY <1>2, <1>5, <2>3 DEF ResponseInOrder, ErrorResponse
    <3>2. resp.kind = "block"
      BY <1>5, <3>1, BlockWellFormed, <1>1, DeliveredWellFormed, <2>3, <1>2
         DEF WellFormed, Block, ErrorResponse
    <3>3. /\ resp.num = n /\ resp.data \in Seq(Cells)
          /\ \A k \in 1 .. Len(resp.data) : resp.data[k] = <<Offered, off + n * MaxChunk + k>>
      BY <3>1, <3>2, BlockInOrder
    <3>4. resp.more => Len(resp.data) = MaxChunk
      BY <3>1, <3>2, BlockInOrder, Zenon
    <3>5. Payload(resp) = DataMsg(resp.data)
      BY <3>2 DEF Payload
    <3>6. Receiving => \A k \in 1 .. Len(resp.data) : resp.data[k] = <<Offered, processed + k>>
      BY <3>1, <3>3
    <3>7. /\ DownloadInOrder' /\ state' # "STATE_START_UPDATE"
          /\ Receiving' => Receiving /\ processed' = processed + Len(resp.data)
      BY <1>2, <2>1, <3>3, <3>5, <3>6, DataInOrder DEF AgentInv, OrderInv
    <3>8. pc \in {"receive_send", "failed"}
      BY <1>2, <2>3
    <3>9. CASE requests' = requests
      <4>1. Quiet'
        BY <1>2, <3>9 DEF Quiet
      <4> QED BY <1>2, <3>7, <3>8, <4>1, QuietOrder
    <3>10. CASE More(resp) /\ requests' = NextBlock(resp)
      <4>0. PICK req : req = [resource |-> "/firmware", num |-> resp.num + 1, offset |-> offset]
        OBVIOUS
      <4>1. offset \in Nat /\ MaxChunk \in Nat /\ processed \in Nat
        BY FsmAssumption DEF AgentInv, AgentTypeOK, FsmInv, FsmTypeOK
      <4>2. /\ req \in Requests /\ req.resource = "/firmware" /\ req.num = n + 1
            /\ req.offset = offset
        BY <3>3, <4>0, <4>1 DEF Requests
      <4>3. requests' = BagAdd(EmptyBag, req)
        BY <1>2, <3>10, <4>0 DEF NextBlock
      <4>4. requests' = SetToBag({req})
        BY <4>3, SingleBag
      <4>5. Len(resp.data) = MaxChunk
        BY <3>4, <3>10, Zenon DEF More
      <4>6. Receiving' => offset + (n + 1) * MaxChunk = processed'
        <5> SUFFICES ASSUME Receiving' PROVE offset + (n + 1) * MaxChunk = processed'
          OBVIOUS
        <5>1. offset + n * MaxChunk = processed /\ processed' = processed + MaxChunk
          BY <3>1, <3>7, <4>5
        <5>2. n * MaxChunk \in Nat /\ (n + 1) * MaxChunk = n * MaxChunk + MaxChunk
          BY <4>1
        <5> QED BY <4>1, <5>1, <5>2
      <4>7. RequestInOrder(req)'
        BY <1>2, <2>3, <4>2, <4>6 DEF RequestInOrder
      <4>8. Flight'
        BY <1>2, <3>8, <4>2, <4>4, <4>7 DEF Flight
      <4>9. (err' = TRUE => Stopped') /\ (Stopped => err' = TRUE) /\ err' \in BOOLEAN
        BY <1>2, <2>1, <3>5, DataStops
      <4>10. ~Quiet
        BY <1>1, SingleBag DEF Delivered, BagIn, Quiet
      <4>11. pc = "receive_send" /\ loop' = FALSE => reqerr' = TRUE /\ Stopped'
        <5>1. pc = "receive_send" /\ loop = FALSE => Stopped
          BY <4>10 DEF OrderInv, BrokenLoop
        <5>2. loop \in BOOLEAN /\ err' \in BOOLEAN
          BY <4>9 DEF AgentInv, AgentTypeOK
        <5>3. reqerr' = err' /\ loop' = (loop /\ ~err')
          BY <1>5, Zenon DEF CallbackData
        <5>4. loop' = FALSE => loop = FALSE \/ err' = TRUE
          BY <5>2, <5>3, Zenon
        <5> QED BY <4>9, <5>1, <5>3, <5>4, Zenon
      <4> QED BY <1>2, <3>7, <3>8, <4>8, <4>11 DEF OrderInv, BrokenLoop, InStep
    <3> QED BY <1>5, <3>9, <3>10
  <2> QED BY <1>2, <1>5, <2>2, <2>3 DEF ResponseInOrder, ErrorResponse
<1> QED BY <1>3, <1>4, <1>5

LEMMA AnswerOrder ==
  ASSUME AgentInv, OrderInv, Respond \/ RespondError
  PROVE  OrderInv'
<1>0. PICK req \in BagToSet(requests) :
        \E resp : /\ Answered(req, resp)
                  /\ \/ resp = ErrorResponse
                     \/ resp = IF req.resource = "/version" THEN VersionResponse
                               ELSE Block(req.num, req.offset)
  BY DEF Respond, RespondError
<1>1. PICK resp : /\ Answered(req, resp)
                  /\ \/ resp = ErrorResponse
                     \/ resp = IF req.resource = "/version" THEN VersionResponse
                               ELSE Block(req.num, req.offset)
  BY <1>0
<1>2. /\ requests' = BagRemove(requests, req) /\ responses' = BagAdd(responses, resp)
      /\ UNCHANGED fsmVars /\ UNCHANGED agentVars
  BY <1>1, Zenon DEF Answered
<1>3. requests # EmptyBag
  BY SingleBag
<1>4. PICK r \in Requests : /\ requests = SetToBag({r}) /\ responses = EmptyBag
                            /\ RequestInOrder(r)
                            /\ pc \in {"subscribe_send", "receive_send", "failed"}
  BY <1>3 DEF OrderInv, Flight, Quiet
<1>5. r = req
  <2>1. BagToSet(SetToBag({r})) = {r}
    BY SingleBag
  <2> QED BY <1>4, <2>1
<1>6. requests' = EmptyBag /\ responses' = SetToBag({resp})
  BY <1>2, <1>4, <1>5, SingleBag
<1>7. pc' = pc /\ offset' = offset /\ loop' = loop /\ reqerr' = reqerr
  BY <1>2, Zenon DEF agentVars
<1>8. DownloadInOrder' /\ state' = state /\ stream' = stream /\ processed' = processed
  BY <1>2, FsmUnchanged DEF OrderInv
<1>9. ResponseInOrder(resp)'
  <2>1. req.num \in Nat /\ req.offset \in Nat
    BY <1>4, <1>5 DEF Requests
  <2>2. CASE resp = ErrorResponse
    BY <2>2 DEF ResponseInOrder
  <2>3. CASE resp # ErrorResponse /\ pc = "subscribe_send"
    BY <1>1, <1>4, <1>5, <1>7, <2>3 DEF ResponseInOrder, RequestInOrder
  <2>4. CASE resp # ErrorResponse /\ pc # "subscribe_send"
    <3>1. resp = Block(req.num, req.offset)
      BY <1>1, <1>4, <1>5, <2>4 DEF RequestInOrder
    <3>2. Receiving' => req.offset = offset' /\ req.offset + req.num * MaxChunk = processed'
      BY <1>4, <1>5, <1>7, <1>8, <2>4 DEF RequestInOrder, Receiving
    <3> QED BY <1>7, <2>1, <2>4, <3>1, <3>2 DEF ResponseInOrder
  <2> QED BY <2>2, <2>3, <2>4
<1>10. Flight'
  BY <1>4, <1>6, <1>7, <1>9 DEF Flight
<1>11. ~Quiet
  BY <1>3 DEF Quiet
<1>12. BrokenLoop'
  BY <1>7, <1>8, <1>11, Zenon DEF OrderInv, BrokenLoop, Stopped
<1>13. ~(pc' = "subscribe_send" /\ loop' = FALSE) /\ state' # "STATE_START_UPDATE"
  BY <1>7, <1>8, <1>11, Zenon DEF OrderInv, InStep
<1>14. InStep'
  BY <1>7, <1>8, <1>13, Zenon DEF OrderInv, InStep
<1> QED BY <1>8, <1>10, <1>12, <1>14 DEF OrderInv

LEMMA OrderKept ==
  ASSUME MaxDelays = 0, AgentInv, OrderInv, [Next]_vars
  PROVE  OrderInv'
<1>1. CASE AgentInit
  <2>1. UNCHANGED fsmVars /\ UNCHANGED netVars /\ pc = "init" /\ pc' \in {"subscribe", "failed"}
    BY <1>1 DEF AgentInit
  <2>2. Quiet'
    BY <2>1 DEF OrderInv, Flight, Quiet, netVars
  <2> QED BY <2>1, <2>2, QuietOrder, FsmUnchanged DEF OrderInv, InStep
<1>2. CASE Subscribe
  <2>1. Quiet /\ pc = "subscribe" /\ Request("/version", 0, FALSE, "subscribe_send")
    BY <1>2 DEF Subscribe, OrderInv, Flight
  <2> QED BY <2>1, RequestOrder
<1>3. CASE Receive
  <2>1. /\ Quiet /\ pc = "receive" /\ processed \in Nat
        /\ Request("/firmware", processed, TRUE, "receive_send")
    BY <1>3 DEF Receive, OrderInv, Flight, AgentInv, FsmInv, FsmTypeOK
  <2> QED BY <2>1, RequestOrder
<1>4. CASE SubscribeReturned \/ ReceiveReturned
  BY <1>4, ReturnOrder
<1>5. CASE GetMsg
  BY <1>5, GetMsgOrder
<1>6. CASE Deliver
  BY <1>6, DeliverOrder DEF Deliver
<1>7. CASE Respond \/ RespondError
  BY <1>7, AnswerOrder
<1>8. CASE Lose
  <2>1. UNCHANGED fsmVars /\ UNCHANGED agentVars
    BY <1>8, Zenon DEF Lose
  <2>2. pc' = pc
    BY <2>1 DEF agentVars
  <2>3. Quiet'
    <3>1. \/ \E req \in BagToSet(requests) :
               requests' = BagRemove(requests, req) /\ responses' = responses
          \/ \E resp \in BagToSet(responses) :
               responses' = BagRemove(responses, resp) /\ requests' = requests
      BY <1>8 DEF Lose
    <3>2. CASE \E req \in BagToSet(requests) :
                 requests' = BagRemove(requests, req) /\ responses' = responses
      <4>1. PICK req \in BagToSet(requests) : requests' = BagRemove(requests, req)
        BY <3>2
      <4>2. requests # EmptyBag
        BY <4>1, SingleBag
      <4>3. PICK r : requests = SetToBag({r}) /\ responses = EmptyBag
        BY <4>2 DEF OrderInv, Flight, Quiet
      <4>4. BagToSet(SetToBag({r})) = {r} /\ BagRemove(SetToBag({r}), r) = EmptyBag
        BY SingleBag
      <4> QED BY <3>2, <4>1, <4>3, <4>4 DEF Quiet
    <3>3. CASE \E resp \in BagToSet(responses) :
                 responses' = BagRemove(responses, resp) /\ requests' = requests
      <4>1. PICK resp \in BagToSet(responses) : responses' = BagRemove(responses, resp)
        BY <3>3
      <4>2. responses # EmptyBag
        BY <4>1, SingleBag
      <4>3. PICK r : responses = SetToBag({r}) /\ requests = EmptyBag
        BY <4>2 DEF OrderInv, Flight, Quiet
      <4>4. BagToSet(SetToBag({r})) = {r} /\ BagRemove(SetToBag({r}), r) = EmptyBag
        BY SingleBag
      <4> QED BY <3>3, <4>1, <4>3, <4>4 DEF Quiet
    <3> QED BY <3>1, <3>2, <3>3
  <2> QED BY <2>1, <2>2, <2>3, QuietOrder, FsmUnchanged DEF OrderInv, InStep
<1>9. CASE UNCHANGED vars
  <2>1. UNCHANGED fsmVars /\ UNCHANGED agentVars /\ UNCHANGED netVars
    BY <1>9 DEF vars
  <2>2. /\ pc' = pc /\ offset' = offset /\ loop' = loop /\ reqerr' = reqerr
        /\ requests' = requests /\ responses' = responses
    BY <2>1, Zenon DEF agentVars, netVars
  <2>3. DownloadInOrder' /\ state' = state /\ stream' = stream /\ processed' = processed
    BY <2>1, FsmUnchanged DEF OrderInv
  <2>4. Flight'
    BY <2>2, <2>3 DEF OrderInv, Flight, Quiet, RequestInOrder, ResponseInOrder, Receiving
  <2>5. BrokenLoop'
    BY <2>2, <2>3, Zenon DEF OrderInv, BrokenLoop, Quiet, Stopped
  <2>6. InStep'
    BY <2>2, <2>3, Zenon DEF OrderInv, InStep, Quiet
  <2> QED BY <2>3, <2>4, <2>5, <2>6 DEF OrderInv
<1> QED BY <1>1, <1>2, <1>3, <1>4, <1>5, <1>6, <1>7, <1>8, <1>9 DEF Next, Agent

\* As long as no loop ends with a message on its way, the machine accepts the
\* offered image from its start, without repetition or gap: for both transports,
\* any length of image, any number of losses and errors, whatever fails.
THEOREM PullDownloadInOrder ==
  ASSUME MaxDelays = 0
  PROVE  Spec => []DownloadInOrder
<1>1. AgentInv /\ OrderInv /\ [Next]_vars => OrderInv'
  BY OrderKept
<1>2. OrderInv => DownloadInOrder
  BY DEF OrderInv
<1> QED BY <1>1, <1>2, OrderInit, AgentInvariant, PTL DEF Spec
=============================================================================
