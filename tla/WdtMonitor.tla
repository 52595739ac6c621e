----------------------------- MODULE WdtMonitor ----------------------------
(***************************************************************************)
(* The watchdog of module Wdt with history variables that remember what    *)
(* its pins did, and the contract of the watchdog stated over them: what   *)
(* health promises about the strokes, and what the strokes may count on.   *)
(***************************************************************************)
EXTENDS Wdt

VARIABLES
  matched,   \* codes of a stroke cycle seen in order up to now, 000 being the first
  age,       \* edges since the eighth code of a cycle arrived, up to MaxAge
  upset,     \* edges since the last reset or out-of-order sample, up to 2
  zeros,     \* edges at which the running watchdog saw this cycle's 000, up to 2
  since,     \* edges since the last cycle it saw whole, reset or timeout, up to TIMEOUT
  late       \* the last cycle was completed when since was about to run out

\* Ages at which health must be gone are not told apart.
MaxAge == TIMEOUT + 4

\* state machines that take turns: with a flip-flop next_state there are two of
\* them, and each has to see the 000 that starts a cycle.
Turns == IF ReadOrder = "old" THEN 2 ELSE 1

history == <<matched, age, upset, zeros, since, late>>
allvars == <<vars, history>>

HistoryTypeOK ==
  /\ matched \in 0..8 /\ age \in 0..MaxAge /\ upset \in 0..2
  /\ zeros \in -1..2 /\ since \in 0..TIMEOUT /\ late \in BOOLEAN

-----------------------------------------------------------------------------
InOrder(m, d) == (m > 0 /\ d = Gray[m - 1]) \/ d = Gray[IF m = 8 THEN 0 ELSE m]

Matched(m, d) ==
  IF m > 0 /\ d = Gray[m - 1] THEN m
  ELSE IF m \in 1..7 /\ d = Gray[m] THEN m + 1
  ELSE IF d = Gray[ZERO] THEN 1 ELSE 0

Bump(n, bound) == IF n < bound THEN n + 1 ELSE n

HistoryInit ==
  /\ matched = 1 /\ age = MaxAge /\ upset = 0 /\ zeros = 0
  /\ since = 0 /\ late = FALSE

Completed == matched' = 8 /\ matched # 8
Whole == Completed /\ zeros >= Turns

\* At a clock edge the new sample is fdu_d1', the one acted upon is fdu_d1.
\* A 000 that came out of order is used up by the error it causes.
Observe ==
  /\ matched' = Matched(matched, fdu_d1')
  /\ age' = IF Completed THEN 0 ELSE Bump(age, MaxAge)
  /\ upset' = IF reset \/ ~InOrder(matched, fdu_d1') THEN 0 ELSE Bump(upset, 2)
  /\ zeros' = IF reset \/ count = TIMEOUT THEN 0
              ELSE IF fdu_d1 # Gray[ZERO] THEN zeros
              ELSE IF held > 1 THEN Bump(zeros, 2)
              ELSE IF upset = 0 THEN -1 ELSE 1
  /\ since' = IF reset \/ count = TIMEOUT \/ Whole THEN 0 ELSE Bump(since, TIMEOUT)
  /\ late' = IF Completed THEN since >= TIMEOUT - 3 ELSE late

InitH == Init /\ HistoryInit

NextH ==
  \/ Clock /\ Observe
  \/ ClockInReset /\ Observe
  \/ AssertReset /\ upset' = 0 /\ zeros' = 0 /\ since' = 0
                 /\ UNCHANGED <<matched, age, late>>
  \/ ReleaseReset /\ UNCHANGED history

SpecH == InitH /\ [][NextH]_allvars

-----------------------------------------------------------------------------
\* Health is never older than a stroke cycle: while wdt.v reports HEALTHY, all
\* eight codes arrived in order and the last of them at most TIMEOUT + 3 edges
\* ago, whatever else the pins, the timeout and the reset did meanwhile.
HealthNeedsStroke == health => age <= TIMEOUT + 3

\* A complete cycle pays off: three edges after the eighth code of a cycle that
\* the watchdog saw whole (its 000 for Turns edges, no timeout since) health is
\* up, and stays up while that code is held.
StrokeRaisesHealth == matched = 8 /\ zeros >= Turns /\ age >= 3 => health

\* No false alarm: health falls only for a reset, for a code out of order, in a
\* cycle whose beginning a timeout has torn, or for a cycle that is overdue or
\* came in the last moment.
NoFalseAlarm ==
  [][health /\ ~health' => \/ reset' \/ upset < 2 \/ zeros < Turns
                          \/ since = TIMEOUT \/ (late /\ age <= 2)]_allvars

-----------------------------------------------------------------------------
(***************************************************************************)
(* The inductive invariant behind HealthNeedsStroke when next_state is a   *)
(* flip-flop ("old") and samples last two edges.  state and next_state are *)
(* then two state machines that take turns, each looking at every other    *)
(* sample; Tracking says that both nevertheless follow the same history.   *)
(***************************************************************************)
Tracking ==
  /\ matched > 0 => fdu_d1 = Gray[matched - 1]
  /\ fdu_d1 = Gray[ZERO] => matched = 1
  /\ state \in 0..7 => matched = Matched(state + 1, fdu_d1)
  /\ next_state \in 0..7 => /\ matched = Matched(next_state + 1, fdu_d1)
                            /\ held > 1 => matched = next_state + 1
  /\ held = 1 /\ state \in 0..7 /\ next_state \in 0..7 => state = next_state

\* The end of the cycle is noticed at once or not at all.
Prompt ==
  matched = 8 => (age > 0 => next_state # SIX) /\ (age > 1 => state # SIX)

\* The counter runs at most three edges behind age as long as health depends on it.
Clocked ==
  /\ clear => age <= 2 \/ (~health /\ state = ERROR /\ next_state = IDLE)
  /\ health \/ state = SEVEN \/ (next_state = SEVEN /\ ~reset) =>
       age <= count + 3 \/ (clear /\ age <= 2)

InReset ==
  reset => /\ ResetValues
           /\ settled => next_state \in {ZERO, IDLE}

WdtInv == TypeOK /\ HistoryTypeOK /\ Tracking /\ Prompt /\ Clocked /\ InReset

\* At an edge that sees 000, both machines have seen it as often as zeros says;
\* one that is amid a cycle needs an edge more, for the error.
Begun ==
  fdu_d1 = Gray[ZERO] /\ ~reset =>
    /\ held > 1 => /\ next_state \notin 1..6
                   /\ zeros >= 0 => state \notin 1..6
                   /\ zeros >= 1 => next_state = ZERO
                   /\ zeros = 2 => state = ZERO
    /\ held = 1 /\ upset > 0 => state \notin 1..6 /\ next_state \notin 1..6

\* From then on both are in the cycle.
Engaged ==
  /\ matched = 0 => upset = 0
  /\ reset => zeros = 0
  /\ zeros = 2 /\ matched > 0 /\ (matched > 1 \/ held > 1 \/ upset > 1) =>
       state \in 0..7 /\ next_state \in 0..7

\* The eighth code of a cycle is new for two edges.
Fresh ==
  /\ age = 0 => held = 1
  /\ age <= 1 => matched = 8
  /\ age = 2 => matched \in {0, 1, 8}

\* On its way to the counter: the edges from the eighth code to the clearing.
Clearing ==
  /\ age = since /\ age <= 2
  /\ age = 0 => state = SIX /\ next_state = SIX
  /\ age = 1 => state = SIX /\ next_state = SEVEN
  /\ age = 2 => clear
  /\ late \/ count <= TIMEOUT - 3 + age

\* The counter is not ahead of since, but for the delay in clearing it.
OnTime ==
  \/ count <= since
  \/ Clearing
  \/ count = TIMEOUT /\ clear /\ ~health

ContractInv == WdtInv /\ Begun /\ Engaged /\ Fresh /\ StrokeRaisesHealth /\ OnTime

=============================================================================
