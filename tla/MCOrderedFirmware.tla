------------------------- MODULE MCOrderedFirmware -------------------------
(* Four slots, bootable and non-bootable ones mixed, every version tuple. *)
EXTENDS OrderedFirmware

MCVersion == <<1>>
MCSize == <<1>>
MCSigned == {1}
MCBootable == {1, 3}
=============================================================================
