--------------------------- MODULE MCInterruptPath ---------------------------
(***************************************************************************)
(* One source of each kind: a polled one that survives a manual reset, one  *)
(* of the serial interface, one line of the ASIC with one event.  The guest *)
(* programs the polled source above or level with the others, and masks     *)
(* nothing or level 1.                                                      *)
(***************************************************************************)
EXTENDS InterruptPath, TLC

MCLineLevel == 5 :> 1
MCGuestLevels == {1 :> 1 @@ 4 :> 1, 1 :> 2 @@ 4 :> 1}
MCGuestSr == {[blocked |-> FALSE, imask |-> 0], [blocked |-> FALSE, imask |-> 1]}

=============================================================================
