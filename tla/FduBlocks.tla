----------------------------- MODULE FduBlocks -----------------------------
(***************************************************************************)
(* The power-on reset of one string, from src/fdu_fpga/fdu.v: what the     *)
(* registers por and por_count are given at a rising clock edge.  The      *)
(* module has no variables: the FDU with its two strings (module Fdu) and  *)
(* a single string with its board (module Stroke) are built from it.       *)
(***************************************************************************)
EXTENDS Integers

CONSTANT
  POR_TERMINAL_COUNT   \* length of a power-on reset in edges (fdu.v: 12500000)

ASSUME PorAssumption == POR_TERMINAL_COUNT \in Nat

-----------------------------------------------------------------------------
(***************************************************************************)
(* Mutated forms, used to confirm that the properties notice a mistake.    *)
(***************************************************************************)
\* A falling health does not start a power-on reset.
PorNewNever(p, c, now, before) == p /\ c < POR_TERMINAL_COUNT

\* The power-on reset ends when health comes back.
PorNewUntilHealthy(p, c, now, before) ==
  (~now /\ before) \/ (p /\ ~now /\ c < POR_TERMINAL_COUNT)

\* The counter is not cleared between two power-on resets.
PorCountNewKept(p, c) == IF p THEN c + 1 ELSE c

\* The counter does not run.
PorCountNewStuck(p, c) == IF p THEN c ELSE 0

-----------------------------------------------------------------------------
\* por: set by a falling health, dropped at the terminal count.
PorNew(p, c, now, before) == (~now /\ before) \/ (p /\ c < POR_TERMINAL_COUNT)

PorCountNew(p, c) == IF p THEN c + 1 ELSE 0

=============================================================================
