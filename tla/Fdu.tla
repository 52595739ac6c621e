-------------------------------- MODULE Fdu --------------------------------
(***************************************************************************)
(* The failure detection unit's decisions, from src/fdu_fpga/fdu.v: which  *)
(* of the two strings is prime, when a failed string is power-on reset,    *)
(* and the power-up delay that favours string A.  A step is a rising clock *)
(* edge, or a press of the reset button.  The watchdogs are modelled by    *)
(* what they report, health_int; module Wdt models how they come to it.    *)
(*                                                                         *)
(* As in wdt.v, next_state is assigned with a blocking assignment in a     *)
(* clocked block and read by another one: ReadOrder is the outcome of that *)
(* race, "old" on the synthesised FPGA.                                    *)
(***************************************************************************)
EXTENDS FduBlocks

CONSTANTS
  TIMEOUT,             \* edges before B may be the first prime (fdu.v: 125000000)
  ReadOrder,           \* outcome of the race on next_state: "old" or "new"
  Drain                \* edges after which the watchdog of a board in reset has timed out

ASSUME TimeoutAssumption == TIMEOUT \in Nat
ASSUME OrderAssumption == ReadOrder \in {"old", "new"}
\* wdt.v: health outlives the last stroke by at most its TIMEOUT of 6500000 and
\* 3 edges (WdtProofs), so Drain is about 6500010 against 12500000.
ASSUME DrainAssumption == Drain \in Nat /\ Drain + 5 < POR_TERMINAL_COUNT

Strings == {"A", "B"}
NO_PRIME == "none"
Holders == Strings \cup {NO_PRIME}

VARIABLES
  health_int,   \* per string: the watchdog's verdict
  health,       \* per string: health_int one edge ago (registers health and health_d1)
  por,          \* per string: power-on reset asserted
  por_count,    \* per string: edges por has been asserted
  state,        \* PRIME_A, PRIME_B, NO_PRIME as "A", "B", "none"
  next_state,
  prime,        \* the prime lines: 01, 10, 00 as "A", "B", "none"
  to_count, to_reached

vars == <<health_int, health, por, por_count, state, next_state, prime,
          to_count, to_reached>>

TypeOK ==
  /\ health_int \in [Strings -> BOOLEAN] /\ health \in [Strings -> BOOLEAN]
  /\ por \in [Strings -> BOOLEAN] /\ por_count \in [Strings -> 0..(POR_TERMINAL_COUNT + 1)]
  /\ state \in Holders /\ next_state \in Holders /\ prime \in Holders
  /\ to_count \in 0..(TIMEOUT + 1) /\ to_reached \in BOOLEAN

AllStrings(x) == [s \in Strings |-> x]

\* Power-up, and the registers after the reset button was held for an edge.
Init ==
  /\ health_int = AllStrings(FALSE) /\ health = AllStrings(FALSE)
  /\ por = AllStrings(FALSE) /\ por_count = AllStrings(0)
  /\ state = NO_PRIME /\ next_state = NO_PRIME /\ prime = NO_PRIME
  /\ to_count = 0 /\ to_reached = FALSE

-----------------------------------------------------------------------------
(***************************************************************************)
(* Mutated forms, used to confirm that the properties notice a mistake.    *)
(***************************************************************************)
\* String B does not wait for the power-up delay.
NextPrimeEager(st, h, to) ==
  IF st = "B" /\ h["B"] THEN "B"
  ELSE IF h["A"] THEN "A" ELSE IF h["B"] THEN "B" ELSE NO_PRIME

\* A failing A hands over to B only after the power-up delay.
NextPrimeLate(st, h, to) ==
  IF st = "B" /\ h["B"] THEN "B"
  ELSE IF h["A"] THEN "A" ELSE IF h["B"] /\ to THEN "B" ELSE NO_PRIME

\* Prime is kept when both strings fail.
NextPrimeSticky(st, h, to) ==
  IF st # NO_PRIME /\ (h[st] \/ h = AllStrings(FALSE)) THEN st
  ELSE IF h["A"] THEN "A" ELSE IF h["B"] /\ (st # NO_PRIME \/ to) THEN "B" ELSE NO_PRIME

\* The other string's health is looked at first.
NextPrimeYield(st, h, to) ==
  IF st = "A" THEN IF h["B"] THEN "B" ELSE IF h["A"] THEN "A" ELSE NO_PRIME
  ELSE IF h["A"] THEN "A" ELSE IF h["B"] /\ (st = "B" \/ to) THEN "B" ELSE NO_PRIME

\* A failing B gives prime up before A may have it.
NextPrimeViaNone(st, h, to) ==
  IF st = "B" THEN IF h["B"] THEN "B" ELSE NO_PRIME
  ELSE IF h["A"] THEN "A" ELSE IF h["B"] /\ (st = "A" \/ to) THEN "B" ELSE NO_PRIME

-----------------------------------------------------------------------------
\* The selection: who is prime next, from the present holder, the registered
\* health and the power-up delay.  Whoever is prime stays so while healthy.
NextPrime(st, h, to) ==
  IF st = "B"
  THEN IF h["B"] THEN "B" ELSE IF h["A"] THEN "A" ELSE NO_PRIME
  ELSE IF h["A"] THEN "A"
       ELSE IF h["B"] /\ (st = "A" \/ to) THEN "B" ELSE NO_PRIME

Read(ns) == IF ReadOrder = "old" THEN next_state ELSE ns

\* The watchdogs report what they like, whenever they like: the strings are
\* independent.  Only, a board held in reset does not stroke its watchdog.
WatchdogsReport(h) == \A s \in Strings : h[s] => ~por[s] \/ por_count[s] <= Drain

\* A rising edge of clk; h is what the watchdogs report after it.
Clock ==
  \E h \in [Strings -> BOOLEAN] :
    LET ns == NextPrime(state, health, to_reached) IN
      /\ WatchdogsReport(h)
      /\ health_int' = h
      /\ health' = health_int
      /\ por' = [s \in Strings |->
                   PorNew(por[s], por_count[s], health_int[s], health[s])]
      /\ por_count' = [s \in Strings |-> PorCountNew(por[s], por_count[s])]
      /\ next_state' = ns
      /\ state' = Read(ns)
      /\ prime' = state
      /\ to_count' = IF to_count <= TIMEOUT THEN to_count + 1 ELSE to_count
      /\ to_reached' = (to_reached \/ to_count > TIMEOUT)

\* The reset button: pressed, held over at least one clock edge, released.
Reset ==
  /\ health_int' = AllStrings(FALSE) /\ health' = AllStrings(FALSE)
  /\ por' = AllStrings(FALSE) /\ por_count' = AllStrings(0)
  /\ state' = NO_PRIME /\ next_state' = NO_PRIME /\ prime' = NO_PRIME
  /\ to_count' = 0 /\ to_reached' = FALSE

Next == Clock \/ Reset

Spec == Init /\ [][Next]_vars

=============================================================================
