---------------------------- MODULE MCFastTimer -----------------------------
(***************************************************************************)
(* Timers longer than the longest slice, between, and shorter than the     *)
(* shortest slice, as the one of run_away in fdu.c is.                     *)
(***************************************************************************)
EXTENDS FastTimer, TLC

CONSTANTS alive, stepper, die

Intervals == (alive :> 3) @@ (stepper :> 5) @@ (die :> 1)

=============================================================================
