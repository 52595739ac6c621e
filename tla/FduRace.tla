------------------------------ MODULE FduRace ------------------------------
(***************************************************************************)
(* What the race on next_state of src/fdu_fpga/fdu.v does to a failover    *)
(* when the strings' healths change at adjacent clock edges.  Failovers    *)
(* are followed by a history variable.                                     *)
(***************************************************************************)
EXTENDS FduMonitor

VARIABLE
  turn     \* "A" since the selection was settled on A, "B" since A has been out
           \* for Settle edges and B prime, "none" otherwise or when B fails

raceVars == <<allvars, turn>>

InitRace == InitH /\ turn = "none"

Follow ==
  turn' = IF turn = "B" THEN IF health_int'["B"] THEN "B" ELSE "none"
          ELSE IF prime = "A" /\ state = "A" /\ next_state = "A" THEN "A"
          ELSE IF turn = "A" /\ prime = "B" /\ ~health_int["A"] /\ age["A"] >= Settle THEN "B"
          ELSE turn

\* It takes no glitches: every verdict of a watchdog lasts for Settle edges.
Lasting == \A s \in Strings : health_int'[s] # health_int[s] => age[s] >= Settle

NextRace == (ClockH /\ Lasting /\ Follow) \/ (Reset /\ ObserveReset /\ turn' = "none")

SpecRace == InitRace /\ [][NextRace]_raceVars

\* fdu_1.v: "Verify only prime[1] can assert after prime[0] fails, still during
\* timeout period".  B took over from an A that was out for long enough and has
\* been healthy ever since: prime[0] is not asserted again.
OnlyPrime1 == turn = "B" /\ ~to_reached => prime # "A"

=============================================================================
