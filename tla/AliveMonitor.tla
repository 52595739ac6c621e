---------------------------- MODULE AliveMonitor ----------------------------
(***************************************************************************)
(* What the test equipment (BTE) makes of the lines it watches:            *)
(* src/bte_source_code/PRIME_ALIVE_MONITOR.v, with an ALIVE_FSM.v per      *)
(* controller.  PRIME counts when it has been high for STABLE samples,     *)
(* ALIVE when it keeps changing.  Sample is one edge of the clock; the     *)
(* stages of the pipes that only delay a line are left out.                *)
(***************************************************************************)
EXTENDS Integers

CONSTANTS
  Controllers,
  STABLE,            \* samples of PRIME that must be high (pipe[7:3]: 5)
  TIMEOUT            \* the count without an edge that ends ALIVE (2000)

ASSUME AliveAssumption == {STABLE, TIMEOUT} \subseteq Nat /\ STABLE > 1 /\ TIMEOUT > 0

VARIABLES
  prime_ones,        \* per controller: how long PRIME has been high, up to STABLE
  alive_state,       \* per controller, ALIVE_FSM: curr_state,
  stored_alive,      \*   the level seen last,
  alive_counter,     \*   and the time since it changed
  curr_state,        \* the status of all lines,
  state_change,      \* and whether it has just changed
  level, held, quiet \* history: PRIME as sampled last, the samples since it
                     \* changed, and the samples since ALIVE changed

fsm == <<prime_ones, alive_state, stored_alive, alive_counter>>
monitor == <<fsm, curr_state, state_change>>
lines == <<level, held, quiet>>

Bit == {0, 1}
Status == [prime : Bit, alive : Bit]
States == [Controllers -> Status]

\* Samples after which a steady line has made its way into the log.
PrimeSettled(prime) == IF prime = 1 THEN STABLE + 2 ELSE 3
AliveSettled == TIMEOUT + 3

UpTo(n, bound) == IF n < bound THEN n + 1 ELSE bound

AllQuiet == [c \in Controllers |-> [prime |-> 0, alive |-> 0]]

MonitorTypeOK ==
  /\ prime_ones \in [Controllers -> 0..STABLE]
  /\ alive_state \in [Controllers -> {"IDLE", "LOW", "HIGH"}]
  /\ stored_alive \in [Controllers -> Bit]
  /\ alive_counter \in [Controllers -> 0..(TIMEOUT + 1)]
  /\ curr_state \in States /\ state_change \in BOOLEAN
  /\ level \in [Controllers -> Bit] /\ held \in [Controllers -> 1..PrimeSettled(1)]
  /\ quiet \in [Controllers -> 0..AliveSettled]

MonitorInit ==
  /\ prime_ones = [c \in Controllers |-> 0]
  /\ alive_state = [c \in Controllers |-> "IDLE"]
  /\ stored_alive = [c \in Controllers |-> 0]
  /\ alive_counter = [c \in Controllers |-> 0]
  /\ curr_state = AllQuiet /\ state_change = FALSE
  /\ level = [c \in Controllers |-> 0]
  /\ held = [c \in Controllers |-> PrimeSettled(0)]
  /\ quiet = [c \in Controllers |-> AliveSettled]

-----------------------------------------------------------------------------
(***************************************************************************)
(* Mutated forms, used to confirm that the properties notice a mistake.    *)
(***************************************************************************)
\* The counter of an idle line is not cleared.
CounterNextIdle(c, alive) == IF stored_alive[c] # alive THEN 0 ELSE alive_counter[c] + 1

\* A low sample of PRIME is ignored.
OnesNextKept(c, prime) == IF prime = 1 THEN UpTo(prime_ones[c], STABLE) ELSE prime_ones[c]

\* PRIME counts as soon as it is high.
next_stateUnfiltered ==
  [c \in Controllers |->
     [prime |-> IF prime_ones[c] > 0 THEN 1 ELSE 0,
      alive |-> IF alive_state[c] # "IDLE" THEN 1 ELSE 0]]

-----------------------------------------------------------------------------
\* ALIVE_FSM: any edge leads to the state of the new level, a timeout to IDLE.
FsmNext(c, alive) ==
  IF stored_alive[c] # alive THEN IF alive = 1 THEN "HIGH" ELSE "LOW"
  ELSE IF alive_counter[c] = TIMEOUT THEN "IDLE" ELSE alive_state[c]

CounterNext(c, alive) ==
  IF alive_state[c] = "IDLE" \/ stored_alive[c] # alive THEN 0 ELSE alive_counter[c] + 1

\* PRIME_ALIVE_MONITOR: how long PRIME has been high, and the status of the
\* lines, as it is between two edges.
OnesNext(c, prime) == IF prime = 1 THEN UpTo(prime_ones[c], STABLE) ELSE 0

next_state ==
  [c \in Controllers |->
     [prime |-> IF prime_ones[c] = STABLE THEN 1 ELSE 0,
      alive |-> IF alive_state[c] # "IDLE" THEN 1 ELSE 0]]

Sample(PRIME, ALIVE) ==
  /\ prime_ones' = [c \in Controllers |-> OnesNext(c, PRIME[c])]
  /\ alive_state' = [c \in Controllers |-> FsmNext(c, ALIVE[c])]
  /\ alive_counter' = [c \in Controllers |-> CounterNext(c, ALIVE[c])]
  /\ stored_alive' = ALIVE
  /\ curr_state' = next_state
  /\ state_change' = (curr_state # next_state)
  /\ level' = PRIME
  /\ held' = [c \in Controllers |->
                IF PRIME[c] = level[c] THEN UpTo(held[c], PrimeSettled(PRIME[c])) ELSE 1]
  /\ quiet' = [c \in Controllers |->
                 IF ALIVE[c] = stored_alive[c] THEN UpTo(quiet[c], AliveSettled) ELSE 0]

=============================================================================
