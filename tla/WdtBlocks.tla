----------------------------- MODULE WdtBlocks -----------------------------
(***************************************************************************)
(* The combinational content of src/fdu_fpga/wdt.v, one operator per       *)
(* always-block of the Verilog module: what each register is given at a    *)
(* rising clock edge, from the register values before that edge.           *)
(*                                                                         *)
(* The module has no variables, so that a single watchdog (module Wdt) and *)
(* the pair of watchdogs inside the FDU can both be built from it.         *)
(***************************************************************************)
EXTENDS Integers

CONSTANT
  TIMEOUT      \* clock edges a full stroke cycle may take (wdt.v: 6500000)

ASSUME TimeoutAssumption == TIMEOUT \in Nat \ {0}
\* The counter register has 24 bits: a larger TIMEOUT would never be reached.
ASSUME WidthAssumption == TIMEOUT < 2^24

(***************************************************************************)
(* State encoding of the source.  ZERO..SEVEN are the numbers 0..7.        *)
(***************************************************************************)
ZERO  == 0
SIX   == 6
SEVEN == 7
IDLE  == 14
ERROR == 15

WdtStates == 0..7 \cup {IDLE, ERROR}

\* The three watchdog pins as a number, and the undriven pins (3'bzzz), which
\* compare equal to no code.
Codes   == 0..7
FLOAT   == 8
Samples == Codes \cup {FLOAT}

\* The code a state expects to see: the reflected Gray code 000, 001, 011,
\* 010, 110, 111, 101, 100 that the case statement spells out state by state.
Gray == [k \in 0..7 |-> <<0, 1, 3, 2, 6, 7, 5, 4>>[k + 1]]

Succ(s) == IF s = SEVEN THEN ZERO ELSE s + 1

-----------------------------------------------------------------------------
(***************************************************************************)
(* Mutated forms of the operators below, used to confirm that the          *)
(* properties notice a plausible mistake at that place.                    *)
(***************************************************************************)
\* The last code of the cycle is not checked: SIX is left on any new code.
FsmStepSkip(s, d) ==
  IF s \in 0..7
  THEN IF d = Gray[s] THEN s
       ELSE IF d = Gray[Succ(s)] \/ s = SIX THEN Succ(s) ELSE ERROR
  ELSE IF d = Gray[ZERO] THEN ZERO ELSE IDLE

\* ERROR and IDLE do not look at the pins: a cycle is never started again.
FsmStepDead(s, d) ==
  IF s \in 0..7
  THEN IF d = Gray[s] THEN s
       ELSE IF d = Gray[Succ(s)] THEN Succ(s) ELSE ERROR
  ELSE IDLE

\* Reaching the end of the cycle does not clear the counter.
ClearNewNever(c, s, ns) == c >= TIMEOUT

\* The counter has no ceiling.
CountNewUnbounded(c, clr) == IF clr THEN 0 ELSE c + 1

-----------------------------------------------------------------------------
\* The case statement: the successor of state s when the sampled code is d.
FsmStep(s, d) ==
  IF s \in 0..7
  THEN IF d = Gray[s] THEN s
       ELSE IF d = Gray[Succ(s)] THEN Succ(s) ELSE ERROR
  ELSE IF d = Gray[ZERO] THEN ZERO ELSE IDLE

NextStateNew(c, s, d) == IF c = TIMEOUT THEN IDLE ELSE FsmStep(s, d)

StateNew(c, ns) == IF c >= TIMEOUT THEN ERROR ELSE ns

CountNew(c, clr) == IF clr THEN 0 ELSE IF c < TIMEOUT THEN c + 1 ELSE c

ClearNew(c, s, ns) == (ns = SEVEN /\ s = SIX) \/ c >= TIMEOUT

HealthNew(c, s, h) ==
  /\ c < TIMEOUT
  /\ s = SEVEN \/ (h /\ s \notin {IDLE, ERROR})

=============================================================================
