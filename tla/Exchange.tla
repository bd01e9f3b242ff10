------------------------------ MODULE Exchange ------------------------------
(***************************************************************************)
(* What swap_slots promises: the contents of two objects change places, in *)
(* one step, or not at all.                                                *)
(***************************************************************************)
VARIABLES first, second, done

Init == done = FALSE

Swap ==
  /\ ~done
  /\ first' = second
  /\ second' = first
  /\ done' = TRUE

Spec == Init /\ [][Swap]_<<first, second, done>>
=============================================================================
