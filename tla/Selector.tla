------------------------------ MODULE Selector ------------------------------
(***************************************************************************)
(* What the rest of the system may rely on about the failure detection     *)
(* unit, whatever its timing.  Its selection may be divided: the prime     *)
(* lines alternate between the holders the selection is divided among.     *)
(* But a holder is dropped only once its board is held in reset, a single  *)
(* holder has no other put beside it before that, and a board is let out   *)
(* of reset only when it is no holder.  Module Fdu implements this         *)
(* specification; module Redundancy puts the controllers on top of it.     *)
(***************************************************************************)
CONSTANTS
  Strings,     \* the redundant controllers
  NO_PRIME     \* the prime lines name nobody

ASSUME NoPrimeAssumption == NO_PRIME \notin Strings

VARIABLES
  prime,       \* whom the prime lines name
  held,        \* everybody the selection holds, NO_PRIME being one of them
  por          \* per string: the board is held in reset

Holders == Strings \cup {NO_PRIME}

InitSelector ==
  prime = NO_PRIME /\ held = {NO_PRIME} /\ por = [s \in Strings |-> FALSE]

\* The next values of the lines, with the promises as conjuncts.
Select(p, h, r) ==
  /\ prime' = p /\ held' = h /\ por' = r
  /\ p \in h
  /\ \A s \in Strings :
       /\ s \in held /\ s \notin h => por[s]
       /\ held = {s} /\ h # {s} => por[s]
       /\ por[s] /\ ~r[s] => s \notin held /\ s \notin h

\* The reset button of the FDU lets go of everything.
ButtonReset ==
  prime' = NO_PRIME /\ held' = {NO_PRIME} /\ por' = [s \in Strings |-> FALSE]

NextSelector ==
  \/ \E p \in Holders, h \in SUBSET Holders, r \in [Strings -> BOOLEAN] : Select(p, h, r)
  \/ ButtonReset

SpecSelector == InitSelector /\ [][NextSelector]_<<prime, held, por>>

=============================================================================
