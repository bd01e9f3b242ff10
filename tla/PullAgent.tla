----------------------------- MODULE PullAgent -----------------------------
(***************************************************************************)
(* The pull transport: the update agent without coroutines, request_cb and *)
(* the connection, libcoap on a PC and zoap on Zephyr, composed with the   *)
(* state machine, with a network that delays, reorders and loses messages, *)
(* and with the testing server.                                            *)
(*                                                                         *)
(* The network is two bags.  A message is lost for good only if libcoap    *)
(* gave up its retransmissions (zoap has none); one that is retransmitted  *)
(* is a message that stays in the network while the agent's loop ends on   *)
(* its timeout.                                                            *)
(***************************************************************************)
EXTENDS UpdateFsm, Bags, BagsExt

CONSTANTS
  Transports, \* the connections the agent may be built with
  Offered,    \* the image that the server offers
  NetFaults,  \* the operations that may fail: "init", "send", "recv"
  MaxLosses,  \* bound on the messages that are lost
  MaxDelays,  \* bound on the timeouts while messages are still on their way
  MaxErrors   \* bound on the error responses

ASSUME NetAssumption ==
  /\ Transports \subseteq {"libcoap", "zoap"}
  /\ Offered \in Images
  /\ MsgUnits <= MaxChunk
  /\ MaxLosses \in Nat /\ MaxDelays \in Nat /\ MaxErrors \in Nat

\* resource_firmware signs diff_version = msg->version for the device that asks:
\* only a device of version 0 is sent what the machine takes for a full image.
ASSUME ServerAssumption == Offered \in Full <=> RunningVersion = 0

VARIABLES
  transport,  \* the connection of this build
  pc,         \* control of update_agent
  loop,       \* conn->loop
  enabled,    \* bctx.enabled: responses may be parts of a blockwise transfer
  offset,     \* msg.offset, also read through bctx.data
  reqerr,     \* reqc.err
  requests,
  responses,
  losses,
  delays,
  errors

netVars == <<requests, responses, losses, delays, errors>>
agentVars == <<transport, pc, loop, enabled, offset, reqerr>>
vars == <<fsmVars, agentVars, netVars>>

Requests ==
  [resource : {"/version", "/firmware"}, num : Nat, offset : Nat]

VersionResponse == [kind |-> "version"]
ErrorResponse == [kind |-> "error"]

\* A response, and what it carries if it is a block.
WellFormed(resp) ==
  /\ resp.kind \in {"version", "error", "block"}
  /\ resp.kind = "block" =>
       resp.num \in Nat /\ resp.data \in Seq(Cells) /\ Len(resp.data) \in 1 .. MaxChunk

Control ==
  {"init", "subscribe", "subscribe_send", "get_msg", "receive", "receive_send",
   "apply", "failed"}

AgentTypeOK ==
  /\ transport \in Transports
  /\ pc \in Control
  /\ loop \in BOOLEAN /\ enabled \in BOOLEAN /\ reqerr \in BOOLEAN
  /\ offset \in Nat

NetTypeOK ==
  /\ BagToSet(requests) \subseteq Requests
  /\ \A resp \in BagToSet(responses) : WellFormed(resp)
  /\ losses \in 0 .. MaxLosses /\ delays \in 0 .. MaxDelays /\ errors \in 0 .. MaxErrors

TypeOK == FsmTypeOK /\ AgentTypeOK /\ NetTypeOK

\* The slot still holds what an earlier download left there.
Init ==
  /\ FsmInit
  /\ obj = [u \in Units |-> Junk]
  /\ transport \in Transports
  /\ pc = "init"
  /\ loop = FALSE /\ enabled = FALSE /\ offset = 0 /\ reqerr = FALSE
  /\ requests = EmptyBag /\ responses = EmptyBag
  /\ losses = 0 /\ delays = 0 /\ errors = 0

----------------------------------------------------------------------------
(* update_agent. *)

\* What a call that may fail returns.
Returns(op, failures) ==
  {"PULL_SUCCESS"} \cup (IF op \in NetFaults THEN failures ELSE {})

\* conn_init of libcoap: the context, the credentials, the address and the session.
ConnInitLibcoap ==
  Returns("init", {"CONNECTION_INIT_ERROR", "INVALID_CONN_DATA_ERROR", "RESOLVER_ERROR"})

\* conn_init of zoap: the addresses, the context and the socket.
ConnInitZoap == Returns("init", {"CONNECTION_INIT_ERROR"})

\* (1) to (3): conn_init, fsm_init and conn_on_data; each failure ends the agent.
AgentInit ==
  /\ pc = "init"
  /\ \E res \in IF transport = "libcoap" THEN ConnInitLibcoap ELSE ConnInitZoap :
       pc' = IF res = "PULL_SUCCESS" THEN "subscribe" ELSE "failed"
  /\ UNCHANGED <<fsmVars, transport, loop, enabled, offset, reqerr, netVars>>

\* conn_request of libcoap: a failure comes before or after the block context is
\* filled.
ConnRequestLibcoap(req, blockwise, res) ==
  /\ transport = "libcoap"
  /\ res \in Returns("send", {"REQUEST_ERROR", "INVALID_DATA_ERROR", "SEND_ERROR"})
  /\ enabled' \in IF res = "REQUEST_ERROR" THEN {enabled} ELSE {blockwise}
  /\ requests' = IF res = "PULL_SUCCESS" THEN BagAdd(requests, req) ELSE requests

\* conn_request of zoap, where all failures look the same.
ConnRequestZoap(req, blockwise, res) ==
  /\ transport = "zoap"
  /\ res \in Returns("send", {"REQUEST_ERROR"})
  /\ enabled' \in IF res = "REQUEST_ERROR" THEN {enabled, blockwise} ELSE {blockwise}
  /\ requests' = IF res = "PULL_SUCCESS" THEN BagAdd(requests, req) ELSE requests

\* conn_request followed by PULL_SEND, which enters the loop of the transport.
Request(resource, off, blockwise, next) ==
  LET req == [resource |-> resource, num |-> 0, offset |-> off]
  IN /\ offset' = off
     /\ \E res \in {"PULL_SUCCESS", "REQUEST_ERROR", "INVALID_DATA_ERROR", "SEND_ERROR"} :
          /\ ConnRequestLibcoap(req, blockwise, res) \/ ConnRequestZoap(req, blockwise, res)
          /\ loop' = IF res = "PULL_SUCCESS" THEN TRUE ELSE loop
          /\ pc' = IF res = "PULL_SUCCESS" THEN next ELSE "failed"
     /\ UNCHANGED <<fsmVars, transport, reqerr, responses, losses, delays, errors>>

\* (4) The version is requested.
Subscribe ==
  /\ pc = "subscribe"
  /\ Request("/version", 0, FALSE, "subscribe_send")

\* A mutant of LoopReturns: no timeout ends the loop.
LoopWithoutTimeout ==
  /\ ~loop
  /\ UNCHANGED <<fsmVars, transport, loop, enabled, offset, reqerr, netVars>>

\* loop returns: the callback broke it, or nothing came within TIMEOUT, be it
\* that nothing is on its way or that it takes longer.
LoopReturns ==
  /\ \/ ~loop /\ UNCHANGED delays
     \/ loop /\ requests = EmptyBag /\ responses = EmptyBag /\ UNCHANGED delays
     \/ /\ loop /\ (requests # EmptyBag \/ responses # EmptyBag)
        /\ delays < MaxDelays
        /\ delays' = delays + 1
  /\ UNCHANGED <<fsmVars, transport, loop, enabled, offset, reqerr, requests, responses,
                 losses, errors>>

SubscribeReturned ==
  /\ pc = "subscribe_send"
  /\ LoopReturns
  /\ pc' = IF reqerr THEN "failed"
           ELSE IF state # "STATE_START_UPDATE" THEN "subscribe" ELSE "get_msg"

\* (5) The state machine fills the receiver message; if a late response has moved
\* the machine on (zoap), it takes the message for data.
GetMsg ==
  /\ pc = "get_msg"
  /\ Fsm(DataMsg([u \in 1 .. MsgUnits |-> Junk]))
  /\ pc' = IF err' THEN "failed" ELSE "receive"
  /\ UNCHANGED <<transport, loop, enabled, offset, reqerr, netVars>>

\* Mutants of Receive: update_receiver_msg is not called, and its offset leaves
\* out the manifest.
ReceiveFromStart ==
  /\ pc = "receive"
  /\ Request("/firmware", 0, TRUE, "receive_send")

ReceiveWithoutManifest ==
  /\ pc = "receive"
  /\ Request("/firmware", processed - ManifestUnits, TRUE, "receive_send")

\* (6) The firmware is requested, from the first unit not yet processed on.
Receive ==
  /\ pc = "receive"
  /\ Request("/firmware", processed, TRUE, "receive_send")

\* Mutants of ReceiveReturned: the error of the callback is not looked at, and
\* the request is not repeated.
ReceiveIgnoresError ==
  /\ pc = "receive_send"
  /\ LoopReturns
  /\ pc' = IF state = "STATE_RECEIVE_FIRMWARE" THEN "receive" ELSE "apply"

ReceiveOnce ==
  /\ pc = "receive_send"
  /\ LoopReturns
  /\ pc' = IF reqerr THEN "failed" ELSE "apply"

\* The end of the loop of (6), conn_end and EVENT_APPLY included: the state of
\* the machine decides only what is logged.
ReceiveReturned ==
  /\ pc = "receive_send"
  /\ LoopReturns
  /\ pc' = IF reqerr THEN "failed"
           ELSE IF state = "STATE_RECEIVE_FIRMWARE" THEN "receive" ELSE "apply"

Agent ==
  AgentInit \/ Subscribe \/ SubscribeReturned \/ GetMsg \/ Receive \/ ReceiveReturned

----------------------------------------------------------------------------
(* handler_libcoap, udp_receive and request_cb. *)

\* libcoap calls its handler from the loop only.  The callback of zoap stays
\* registered from the first loop to conn_end, which a failed agent never calls.
Listening ==
  \/ transport = "libcoap" /\ pc \in {"subscribe_send", "receive_send"} /\ loop
  \/ transport = "zoap" /\ pc \notin {"init", "apply"}

Delivered(resp) ==
  /\ Listening
  /\ BagIn(resp, responses)
  /\ responses' = BagRemove(responses, resp)
  /\ UNCHANGED <<transport, pc, enabled, offset, losses, delays, errors>>

\* request_cb with an error: it is noted, and the loop goes on.
CallbackError ==
  /\ reqerr' = TRUE
  /\ UNCHANGED <<fsmVars, loop>>

\* request_cb with data: an error of the state machine breaks the loop.
CallbackData(msg) ==
  /\ Fsm(msg)
  /\ reqerr' = err'
  /\ loop' = (loop /\ ~err')

\* request_cb without data and without an error.
CallbackNothing ==
  /\ reqerr' = FALSE
  /\ loop' = FALSE
  /\ UNCHANGED fsmVars

NextBlock(resp) ==
  BagAdd(requests, [resource |-> "/firmware", num |-> resp.num + 1, offset |-> offset])

\* What the payload of a response is for the state machine.
Payload(resp) ==
  IF resp.kind = "version" THEN VersionMsg(Version[Offered]) ELSE DataMsg(resp.data)

More(resp) == resp.kind = "block" /\ enabled /\ resp.more

\* handler_libcoap: a reset, an error code, no payload, or a block that is not
\* expected is an error.  Nothing else says which request a response answers.
\* The next block is requested, with the current receiver message, before the
\* state machine gets this one.
HandlerLibcoap(resp) ==
  /\ transport = "libcoap"
  /\ Delivered(resp)
  /\ \/ /\ resp.kind = "version" \/ (resp.kind = "block" /\ enabled)
        /\ CallbackData(Payload(resp))
        /\ requests' = IF More(resp) THEN NextBlock(resp) ELSE requests
     \/ /\ \/ resp.kind = "error"
           \/ resp.kind = "block" /\ ~enabled
           \/ More(resp) /\ "send" \in NetFaults
        /\ CallbackError
        /\ UNCHANGED requests

\* udp_receive: the code of the response is not looked at, and whatever has a
\* payload is data.  Whether there are more blocks is read from a block context
\* that was never initialised, so that more blocks may go unnoticed.  A response
\* without payload is an error or, if only its length is 0, breaks the loop.
UdpReceive(resp) ==
  /\ transport = "zoap"
  /\ Delivered(resp)
  /\ \/ /\ resp.kind # "error"
        /\ CallbackData(Payload(resp))
        /\ requests' \in {requests} \cup (IF More(resp) THEN {NextBlock(resp)} ELSE {})
     \/ /\ \/ resp.kind = "error"
           \/ "recv" \in NetFaults
           \/ More(resp) /\ "send" \in NetFaults
        /\ CallbackError
        /\ UNCHANGED requests
     \/ /\ resp.kind = "error"
        /\ CallbackNothing
        /\ UNCHANGED requests

Deliver ==
  \E resp \in BagToSet(responses) : HandlerLibcoap(resp) \/ UdpReceive(resp)

----------------------------------------------------------------------------
(* The testing server, and the network. *)

\* resource_firmware: block num of the file from its unit offset + 1 on.
Block(num, off) ==
  LET first == off + num * MaxChunk + 1
      last == off + (num + 1) * MaxChunk
      end == Length[Offered]
  IN IF first > end THEN ErrorResponse
     ELSE [kind |-> "block", num |-> num, more |-> last < end,
           data |-> SubSeq(Image(Offered), first, IF last < end THEN last ELSE end)]

Answered(req, resp) ==
  /\ requests' = BagRemove(requests, req)
  /\ responses' = BagAdd(responses, resp)
  /\ UNCHANGED <<fsmVars, agentVars, losses, delays>>

Respond ==
  \E req \in BagToSet(requests) :
    /\ Answered(req, IF req.resource = "/version" THEN VersionResponse
                     ELSE Block(req.num, req.offset))
    /\ UNCHANGED errors

RespondError ==
  /\ errors < MaxErrors
  /\ errors' = errors + 1
  /\ \E req \in BagToSet(requests) : Answered(req, ErrorResponse)

Lose ==
  /\ losses < MaxLosses
  /\ losses' = losses + 1
  /\ \/ \E req \in BagToSet(requests) :
          requests' = BagRemove(requests, req) /\ UNCHANGED responses
     \/ \E resp \in BagToSet(responses) :
          responses' = BagRemove(responses, resp) /\ UNCHANGED requests
  /\ UNCHANGED <<fsmVars, agentVars, delays, errors>>

Next == Agent \/ Deliver \/ Respond \/ RespondError \/ Lose

\* The agent runs, and what is in the network arrives unless it is lost.
Spec ==
  Init /\ [][Next]_vars /\ WF_vars(Agent) /\ WF_vars(Deliver) /\ WF_vars(Respond)

----------------------------------------------------------------------------
\* With libcoap, EVENT_APPLY without a verified image comes only before the slot
\* has been touched: the reboot that follows finds the slots as they were.  (The
\* callback of zoap runs after an error as well, and a later response without an
\* error makes the agent forget it.)
ApplyHarmless ==
  transport = "libcoap" /\ pc = "apply" =>
    \/ \E i \in Signed : Holds(obj, i) /\ Version[i] > version
    \/ obj = [u \in Units |-> Junk]

\* As long as the loop ends only when nothing is on its way, the data that the
\* machine accepts is the offered image from its start, without a repetition
\* or a gap, over any number of lost messages and repeated requests.
DownloadInOrder ==
  state \in {"STATE_RECEIVE_MANIFEST", "STATE_RECEIVE_FIRMWARE", "STATE_REBOOT"} =>
    \A u \in 1 .. Len(stream) : stream[u] = <<Offered, u>>

\* A download that has begun is completed: a lost message costs a timeout and a
\* new request from the first missing unit on.
ResumeCompletes == state = "STATE_RECEIVE_FIRMWARE" ~> state = "STATE_REBOOT"

\* The agent returns, when an update is offered.
AgentEnds == <>(pc \in {"apply", "failed"})

\* A genuine and newer image that was received as it was sent is verified: with
\* no fault, the update from 0x0001 to 0x0002 that the tutorial walks through
\* succeeds.
GenuineDownloadVerified == stream = Image(Offered) => state = "STATE_REBOOT"
=============================================================================
