----------------------------- MODULE Redundancy -----------------------------
(***************************************************************************)
(* The controllers of src/firmware/libraries/fdu/fdu.c under the failure   *)
(* detection unit: each board polls its prime line, shows its life on the  *)
(* alive pin from a timer interrupt and takes error modes from the test    *)
(* equipment, while the FDU of module Selector elects and resets boards.   *)
(* A board held in reset runs nothing, its outputs are at any level, and   *)
(* it boots with fresh variables.                                          *)
(***************************************************************************)
EXTENDS Selector, ErrorModes

VARIABLES
  up,           \* per board: booted, its outputs under control
  ISPRIME,      \* per board: the prime line as last polled
  fdu_mode,     \* per board: the error mode
  aliveValue,   \* per board: what the alive interrupt toggles
  alivePin,     \* per board: digital output 3
  stale         \* per board, history: 2 from a press of the FDU's reset button to
                \* the next poll, 1 from there to the next alive interrupt, else 0

vars == <<prime, held, por, up, ISPRIME, fdu_mode, aliveValue, alivePin, stale>>

TypeOK ==
  /\ prime \in Holders /\ held \subseteq Holders
  /\ por \in [Strings -> BOOLEAN] /\ up \in [Strings -> BOOLEAN]
  /\ ISPRIME \in [Strings -> BOOLEAN] /\ fdu_mode \in [Strings -> Modes]
  /\ aliveValue \in [Strings -> BOOLEAN] /\ alivePin \in [Strings -> BOOLEAN]
  /\ stale \in [Strings -> 0..2]

Init ==
  /\ InitSelector
  /\ up = [s \in Strings |-> FALSE]
  /\ ISPRIME = [s \in Strings |-> FALSE] /\ fdu_mode = [s \in Strings |-> 0]
  /\ aliveValue = [s \in Strings |-> FALSE] /\ alivePin \in [Strings -> BOOLEAN]
  /\ stale = [s \in Strings |-> 0]

-----------------------------------------------------------------------------
(***************************************************************************)
(* Mutated forms, used to confirm that the properties notice a mistake.    *)
(***************************************************************************)
\* A board once prime goes on believing it.
PolledKept(s) == ISPRIME[s] \/ prime = s

\* The alive pin follows the interrupt, prime or not.
AliveLevelAlways(s) == ~aliveValue[s]

-----------------------------------------------------------------------------
\* Tasks and interrupts of a board run once it has booted, unless the run_away
\* interrupt handler has the processor for itself.
Running(s) == up[s] /\ fdu_mode[s] # RUNAWAY

\* x is kept by the boards that are not reset by r, the others boot with v.
Booted(x, r, v) == [s \in Strings |-> IF r[s] THEN v ELSE x[s]]

\* The FDU changes its lines; a board whose reset is asserted loses its state,
\* and its outputs are left at any level.
FduActs ==
  \E p \in Holders, h \in SUBSET Holders, r \in [Strings -> BOOLEAN] :
    /\ Select(p, h, r)
    /\ up' = Booted(up, r, FALSE)
    /\ ISPRIME' = Booted(ISPRIME, r, FALSE)
    /\ fdu_mode' = Booted(fdu_mode, r, 0)
    /\ aliveValue' = Booted(aliveValue, r, FALSE)
    /\ \E level \in [Strings -> BOOLEAN] :
         alivePin' = [s \in Strings |-> IF r[s] THEN level[s] ELSE alivePin[s]]
    /\ stale' = Booted(stale, r, 0)

\* A board that is not in reset boots: main() turns its outputs off.
Boot(s) ==
  /\ ~por[s] /\ ~up[s]
  /\ up' = [up EXCEPT ![s] = TRUE]
  /\ alivePin' = [alivePin EXCEPT ![s] = FALSE]
  /\ UNCHANGED <<prime, held, por, ISPRIME, fdu_mode, aliveValue, stale>>

\* The FDU's reset button: the FDU forgets, the boards run on.
PressButton ==
  /\ ButtonReset
  /\ stale' = [s \in Strings |-> 2]
  /\ UNCHANGED <<up, ISPRIME, fdu_mode, aliveValue, alivePin>>

Polled(s) == prime = s

\* stroke_wdt: the poll at the head of its loop.
StrokePoll(s) ==
  /\ Running(s)
  /\ ISPRIME' = [ISPRIME EXCEPT ![s] = Polled(s)]
  /\ stale' = [stale EXCEPT ![s] = IF @ = 2 THEN 1 ELSE @]
  /\ UNCHANGED <<prime, held, por, up, fdu_mode, aliveValue, alivePin>>

AliveLevel(s) == ISPRIME[s] /\ ~aliveValue[s]

\* aliveIRQCallback, every 100 us.
AliveIRQ(s) ==
  /\ Running(s)
  /\ aliveValue' = [aliveValue EXCEPT ![s] = ~@]
  /\ alivePin' = [alivePin EXCEPT ![s] = AliveLevel(s)]
  /\ stale' = [stale EXCEPT ![s] = IF @ = 1 THEN 0 ELSE @]
  /\ UNCHANGED <<prime, held, por, up, ISPRIME, fdu_mode>>

\* error_injector: a code on inputs 4..7 other than 0 sets the error mode, and
\* an undefined code clears it.
ErrorInjector(s) ==
  \E err \in ErrorCodes :
    /\ Running(s)
    /\ fdu_mode' = [fdu_mode EXCEPT ![s] = Injected(err)]
    /\ UNCHANGED <<prime, held, por, up, ISPRIME, aliveValue, alivePin, stale>>

Next ==
  \/ FduActs
  \/ PressButton
  \/ \E s \in Strings : Boot(s) \/ StrokePoll(s) \/ AliveIRQ(s) \/ ErrorInjector(s)

Spec == Init /\ [][Next]_vars

-----------------------------------------------------------------------------
\* One master: isPrime() of fdu.c holds on two boards at a time only while the
\* selection of the FDU is divided between these two, or if one of them has not
\* polled since the FDU's reset button was pressed, however the polls lag behind
\* elections, resets and reboots.  isPrime() is what lets sendDataMessage of
\* make.c put motor commands on the network.
OneMaster ==
  \A s, t \in Strings :
    ISPRIME[s] /\ ISPRIME[t] => s = t \/ 2 \in {stale[s], stale[t]} \/ {s, t} \subseteq held

\* One life sign: the alive pins of two boards that have booted are high at a
\* time only while the selection is divided between them, or in the aftermath of
\* the reset button.
OneAlive ==
  \A s, t \in Strings :
    up[s] /\ up[t] /\ alivePin[s] /\ alivePin[t] =>
      s = t \/ stale[s] > 0 \/ stale[t] > 0 \/ {s, t} \subseteq held

-----------------------------------------------------------------------------
\* Why: a board believes of itself no more than that the selection holds it, as
\* soon as it has polled since the button; and its pin shows no more than that.
Belief ==
  \A s \in Strings :
    /\ ISPRIME[s] /\ stale[s] # 2 => s \in held
    /\ up[s] /\ alivePin[s] /\ stale[s] = 0 => s \in held
    /\ por[s] => ~up[s]
    /\ ~up[s] => ~ISPRIME[s]
    /\ prime \in held

RedundancyInv == TypeOK /\ Belief

=============================================================================
