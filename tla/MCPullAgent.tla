---------------------------- MODULE MCPullAgent ----------------------------
(* One genuine image, newer than the running one.                           *)
EXTENDS PullAgent

MCVersion == <<2>>
MCLength == <<8>>
LongLength == <<11>>
MCSigned == {1}
MCFull == {1}
NoneFull == {}
NoFaults == {}
AllFsmFaults == {"rng", "open", "write", "read"}
AllNetFaults == {"init", "send", "recv"}
BothTransports == {"libcoap", "zoap"}
=============================================================================
