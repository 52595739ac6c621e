------------------------------- MODULE Wdt --------------------------------
(***************************************************************************)
(* One watchdog of the FDU: src/fdu_fpga/wdt.v, register for register.     *)
(* A step is a rising edge of the clock, or an edge of the reset line.     *)
(*                                                                         *)
(* The source assigns next_state with a blocking assignment inside a       *)
(* clocked block while two other clocked blocks (state and clear) read it  *)
(* at the same edge, so which value they read is a race.  Synthesis turns  *)
(* next_state into a flip-flop and the readers see the value from before   *)
(* the edge ("old"); a simulator that runs the next_state block first lets *)
(* them see the value of this very edge ("new").  A build settles the race *)
(* once and for all, so it is a constant, and runs consider both values.   *)
(***************************************************************************)
EXTENDS WdtBlocks

CONSTANTS
  ReadOrder,   \* outcome of the race on next_state: "old" or "new"
  MinHold,     \* edges a sample stays on the pins at least (1: no promise)
  Inputs       \* samples the pins may carry

ASSUME OrderAssumption == ReadOrder \in {"old", "new"}
ASSUME HoldAssumption == MinHold \in Nat \ {0}
ASSUME InputsAssumption == Inputs \subseteq Samples /\ ZERO \in Inputs

VARIABLES
  reset,       \* the asynchronous reset line
  settled,     \* a clock edge has passed since the reset line last rose
  fdu_d1,      \* the registered sample of the three pins
  held,        \* edges fdu_d1 has had its value, counted up to MinHold
  next_state, state, count, clear, health

inputs == <<fdu_d1, held>>
regs   == <<state, count, clear, health>>
vars   == <<reset, settled, fdu_d1, held, next_state, state, count, clear, health>>

TypeOK ==
  /\ reset \in BOOLEAN /\ settled \in BOOLEAN
  /\ fdu_d1 \in Samples /\ held \in 1..MinHold
  /\ next_state \in WdtStates /\ state \in WdtStates
  /\ count \in 0..TIMEOUT /\ clear \in BOOLEAN /\ health \in BOOLEAN

\* Values the asynchronous reset forces, and configuration loads at power-up.
ResetValues ==
  /\ state = IDLE /\ count = 0 /\ clear = FALSE /\ health = FALSE

\* next_state and fdu_d1 have no reset: configuration leaves them at zero.
Init ==
  /\ reset \in BOOLEAN /\ settled = ~reset
  /\ fdu_d1 = 0 /\ held = 1 /\ next_state = ZERO
  /\ ResetValues

-----------------------------------------------------------------------------
\* The pins are sampled into fdu_d1; a sample that has not been there for
\* MinHold edges cannot be replaced by another one.
Sample(in) ==
  /\ in = fdu_d1 \/ held = MinHold
  /\ fdu_d1' = in
  /\ held' = IF in # fdu_d1 THEN 1 ELSE IF held < MinHold THEN held + 1 ELSE held

\* The value of next_state the other blocks see at this edge.
Read(ns) == IF ReadOrder = "old" THEN next_state ELSE ns

\* A rising edge of clk with reset low.
Clock ==
  \E in \in Inputs :
    LET ns == NextStateNew(count, state, fdu_d1) IN
      /\ ~reset
      /\ Sample(in)
      /\ next_state' = ns
      /\ state' = StateNew(count, Read(ns))
      /\ clear' = ClearNew(count, state, Read(ns))
      /\ count' = CountNew(count, clear)
      /\ health' = HealthNew(count, state, health)
      /\ UNCHANGED <<reset, settled>>

\* A rising edge of clk with reset high: only next_state and fdu_d1 move.
ClockInReset ==
  \E in \in Inputs :
    /\ reset
    /\ Sample(in)
    /\ next_state' = NextStateNew(count, state, fdu_d1)
    /\ settled' = TRUE
    /\ UNCHANGED <<reset, state, count, clear, health>>

\* The reset line rises, asynchronously to the clock.
AssertReset ==
  /\ ~reset
  /\ reset' = TRUE /\ settled' = FALSE
  /\ state' = IDLE /\ count' = 0 /\ clear' = FALSE /\ health' = FALSE
  /\ UNCHANGED <<fdu_d1, held, next_state>>

\* The reset line falls.  It is a push button: it stays high for at least
\* one clock period.
ReleaseReset ==
  /\ reset /\ settled
  /\ reset' = FALSE
  /\ UNCHANGED <<settled, fdu_d1, held, next_state, state, count, clear, health>>

Next == Clock \/ ClockInReset \/ AssertReset \/ ReleaseReset

Spec == Init /\ [][Next]_vars

=============================================================================
