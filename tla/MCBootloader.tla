--------------------------- MODULE MCBootloader ---------------------------
(***************************************************************************)
(* Instances of Bootloader.  Images 1 to 3 verify when they are complete,  *)
(* image 4 stands for one whose stored manifest does not, except where all *)
(* images are genuine.  The flash layout has one bootable slot, the POSIX  *)
(* layout two.                                                             *)
(***************************************************************************)
EXTENDS Bootloader

MCVersion == <<1, 2, 3, 3>>
MCSize == <<3, 4, 2, 3>>
MCSigned == {1, 2, 3}
AllSigned == 1 .. 4
FlashBootable == {1}
PosixBootable == {1, 2}
NoFaults == {}
ReportedFaults == {"open", "invalidate", "ctx", "verify", "to_swap"}
LostFaults == {"to_obj2"}
=============================================================================
