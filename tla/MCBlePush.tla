----------------------------- MODULE MCBlePush -----------------------------
(* One genuine full image, one genuine image that is sent as a difference,  *)
(* and one whose manifest does not verify.                                  *)
EXTENDS BlePush

MCVersion == <<2, 3, 4>>
MCLength == <<4, 5, 4>>
MCSigned == {1, 2}
MCFull == {1, 3}
AllFaults == {"rng", "open", "write", "read"}
=============================================================================
