---------------------------- MODULE FduMonitor -----------------------------
(***************************************************************************)
(* The FDU of module Fdu with history variables, and the promises it makes *)
(* to the two strings.                                                     *)
(***************************************************************************)
EXTENDS Fdu

VARIABLES
  age,     \* edges since each input of the selection last changed, up to MaxAge
  hadA,    \* A has been prime since the last reset of the FDU
  heir     \* B with A before it: "ready" since both were healthy, "took" since A
           \* failed for good; "no" otherwise, or when B itself fails

\* What the selection depends on: the watchdogs' verdicts and the power-up delay.
Events == Strings \cup {"to_reached"}
Level(e) == IF e = "to_reached" THEN to_reached ELSE health_int[e]

\* Edges from a change of health_int to its last effect on the prime lines:
\* health, next_state, state, prime.
Settle == 4

\* Longer ages are not told apart.
MaxAge == Settle

Healthy(s, n) == health_int[s] /\ age[s] >= n

history == <<age, hadA, heir>>
allvars == <<vars, history>>

HistoryTypeOK ==
  age \in [Events -> 0..MaxAge] /\ hadA \in BOOLEAN /\ heir \in {"no", "ready", "took"}

InitH == Init /\ age = [e \in Events |-> MaxAge] /\ hadA = FALSE /\ heir = "no"

ObserveClock ==
  /\ age' = [e \in Events |-> IF Level(e)' # Level(e) THEN 0
                              ELSE IF age[e] < MaxAge THEN age[e] + 1 ELSE age[e]]
  /\ hadA' = (hadA \/ prime' = "A")
  /\ heir' = IF ~health_int'["B"] THEN "no"
             ELSE IF heir = "no" /\ Healthy("A", Settle) /\ Healthy("B", 1) THEN "ready"
             ELSE IF heir = "ready" /\ ~health_int["A"] /\ age["A"] >= Settle THEN "took"
             ELSE heir

ObserveReset == age' = [e \in Events |-> MaxAge] /\ hadA' = FALSE /\ heir' = "no"

ClockH == Clock /\ ObserveClock
NextH == ClockH \/ (Reset /\ ObserveReset)

SpecH == InitH /\ [][NextH]_allvars

-----------------------------------------------------------------------------
\* Only the reset button takes to_count back to 0.
ResetPressed == to_count' = 0

Steady == \A e \in Events : age[e] = Settle

\* A dead string is not left in charge: the prime lines name a string only if
\* its watchdog was healthy at most 3 edges ago (health, next_state and prime
\* of fdu.v, whichever way the race on next_state goes).
PrimeIsHealthy == prime # NO_PRIME => health_int[prime] \/ age[prime] <= 3

\* fdu.v: "String B cannot become PRIME in first 5 second unless String A loses
\* PRIME": before the delay is over, B is prime only where A has been.
StringBWaits == prime = "B" /\ ~to_reached => hadA

\* The motor is not left alone: somebody is prime once A has been healthy for
\* Settle edges, or B has and the power-up delay is over, even while the other
\* string keeps failing and coming back.
SomebodyInCharge ==
  \/ Healthy("A", Settle)
  \/ Healthy("B", Settle) /\ to_reached /\ age["to_reached"] >= Settle
  => prime # NO_PRIME

\* The race on next_state divides the selection in two that take turns on the
\* prime lines.  Settle edges after the last event the two agree, or else they
\* are divided between two healthy strings, or, before the power-up delay is
\* over, between a healthy B and nobody: there is no other way to stay divided,
\* and it takes a failure, or the end of the delay, to end it.
Divided(s, t) == {state, next_state} = {s, t} /\ prime = next_state
SelectionSettles ==
  Steady => \/ prime = state /\ state = next_state
            \/ Divided("A", "B") /\ health_int["A"] /\ health_int["B"]
            \/ Divided("B", NO_PRIME) /\ health_int["B"] /\ ~health_int["A"] /\ ~to_reached

\* What fdu_1.v expects under "Verify only prime[1] can assert after prime[0]
\* fails, still during timeout period": prime is 10 once A, having been healthy
\* together with B, has lost its health, and it stays so when A comes back.
FailoverToB == heir = "took" => prime = "B" /\ state = "B" /\ next_state = "B"

\* The FDU keeps the promises of module Selector: a string leaves the three
\* registers of the selection only when por of fdu.v already holds its board in
\* reset, so that no controller is deposed without being stopped; once they
\* agree on a string, no other comes up before that; and a board is released
\* only when none of them holds it.
Sel == INSTANCE Selector WITH Strings <- Strings, NO_PRIME <- NO_PRIME,
                               prime <- prime, por <- por,
                               held <- {prime, state, next_state}
ImplementsSelector == Sel!SpecSelector

\* A board starts afresh: when its power-on reset is released it is neither
\* prime nor considered healthy, so it has to be stroked again to be used.
FreshStart ==
  [][\A s \in Strings : por[s] /\ ~por'[s] /\ ~ResetPressed => ~health_int[s] /\ prime # s]_allvars

-----------------------------------------------------------------------------
(***************************************************************************)
(* The inductive invariant behind the theorems of FduProofs: how stale the *)
(* health behind each register of the selection can be, who entitles B,    *)
(* and how far a power-on reset can be when health is still up.            *)
(***************************************************************************)
Fresh(s, n) == health_int[s] \/ age[s] <= n

Trail ==
  \A s \in Strings :
    /\ health[s] => Fresh(s, 0)
    /\ next_state = s => Fresh(s, 1)
    /\ state = s => Fresh(s, 2)
    /\ prime = s => Fresh(s, 3)

Entitled ==
  (next_state = "B" \/ state = "B" \/ prime = "B") /\ ~to_reached => hadA

Drained ==
  \A s \in Strings :
    por[s] => /\ por_count[s] <= POR_TERMINAL_COUNT
              /\ health_int[s] => por_count[s] <= Drain + 1
              /\ health[s] => por_count[s] <= Drain + 2

\* While a string is out, its age keeps up with its power-on reset.
Aged ==
  \A s \in Strings :
    por[s] /\ ~health_int[s] => age[s] = MaxAge \/ age[s] >= por_count[s] - (Drain + 2)

\* Somebody has been fit to be prime for n edges.
Ready(n) ==
  \/ Healthy("A", n)
  \/ Healthy("B", n) /\ to_reached /\ age["to_reached"] >= n

Charged ==
  /\ \A s \in Strings : Healthy(s, 1) => health[s]
  /\ Ready(2) => next_state # NO_PRIME
  /\ Ready(3) => state # NO_PRIME
  /\ Ready(4) => prime # NO_PRIME

FduInv == TypeOK /\ HistoryTypeOK /\ Trail /\ Entitled /\ Drained /\ Aged /\ Charged

-----------------------------------------------------------------------------
(***************************************************************************)
(* How the divided selection stays within bounds.                          *)
(***************************************************************************)
\* A string that is named is healthy, or its power-on reset is well under way
\* and far from its end; a string that is about to be left is in reset.  The
\* register next_state is what the decision behind prime has come to.
HealthyOrHeld(s, n) == health[s] \/ (por[s] /\ por_count[s] <= Drain + n)

Held ==
  /\ ReadOrder = "new" => state = next_state
  /\ \A s \in Strings :
       /\ next_state = s => HealthyOrHeld(s, 3)
       /\ state = s => HealthyOrHeld(s, 4)
       /\ prime = s => HealthyOrHeld(s, 5)
       /\ prime = s /\ next_state # s => por[s]

\* The selection has seen nothing new for n edges.
Calm(n) == (\A s \in Strings : age[s] >= n) /\ age["to_reached"] >= n - 1

\* A decision that is not changed any more.
Final(st) == NextPrime(st, health, to_reached) = st

\* One register after the other holds a final decision.
Calmed ==
  /\ \A s \in Strings : age[s] >= 1 => health[s] = health_int[s]
  /\ Calm(2) => Final(next_state) /\ next_state = NextPrime(prime, health, to_reached)
  /\ Calm(3) => Final(state)
  /\ Calm(4) => Final(prime)

\* How far B has come after A has failed.
HeirKept ==
  /\ heir # "no" => health_int["B"] /\ health["B"] /\ state # NO_PRIME /\ next_state # NO_PRIME
  /\ heir = "ready" /\ ~health_int["A"] =>
       /\ age["A"] >= 2 => next_state = "B"
       /\ age["A"] >= 3 => state = "B"
       /\ age["A"] >= 4 => prime = "B"
  /\ heir = "took" => prime = "B" /\ state = "B" /\ next_state = "B"

ChainsInv == Held /\ Calmed /\ HeirKept

=============================================================================
