---------------------------- MODULE MCSwapSlots ----------------------------
(* Small instances of SwapSlots: three images of different sizes. *)
EXTENDS SwapSlots

MCVersion == <<1, 2, 3>>
MCSize == <<5, 3, 6>>
MCSigned == {1, 2}
MCBootable == {1}
MCNoFaults == {}
MCReportedFaults == {"to_swap"}
=============================================================================
