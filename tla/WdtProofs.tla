----------------------------- MODULE WdtProofs -----------------------------
(***************************************************************************)
(* Proofs about the watchdog, for every TIMEOUT, every input alphabet and  *)
(* every order of resets, timeouts and codes; and, in the last part, about *)
(* the watchdog with the board that strokes it.                            *)
(***************************************************************************)
EXTENDS WdtMonitor, Stroke, TLAPS

\* The table of codes, spelt out for the provers.
LEMMA GrayTable ==
  /\ Gray[0] = 0 /\ Gray[1] = 1 /\ Gray[2] = 3 /\ Gray[3] = 2
  /\ Gray[4] = 6 /\ Gray[5] = 7 /\ Gray[6] = 5 /\ Gray[7] = 4
BY DEF Gray

\* The state machine of wdt.v stays inside its ten states.
LEMMA FsmStepType ==
  ASSUME NEW s \in WdtStates, NEW d \in Samples
  PROVE  FsmStep(s, d) \in WdtStates
BY DEF FsmStep, WdtStates, Succ, ZERO, SEVEN, IDLE, ERROR

\* The history of the pins stays inside its range.
LEMMA MatchedType ==
  ASSUME NEW m \in 0..8, NEW d \in Samples
  PROVE  Matched(m, d) \in 0..8
BY DEF Matched, ZERO

\* A state machine that follows the history keeps following it: from state k,
\* after k + 1 codes in order, a step into state j means j + 1 codes in order.
LEMMA StepFollows ==
  ASSUME NEW k \in 0..7, NEW d \in Samples, FsmStep(k, d) \in 0..7
  PROVE  Matched(k + 1, d) = FsmStep(k, d) + 1
<1>1. CASE k = 0 BY <1>1, GrayTable DEF FsmStep, Matched, Succ, ZERO, SEVEN, ERROR, Samples, Codes, FLOAT
<1>2. CASE k = 1 BY <1>2, GrayTable DEF FsmStep, Matched, Succ, ZERO, SEVEN, ERROR, Samples, Codes, FLOAT
<1>3. CASE k = 2 BY <1>3, GrayTable DEF FsmStep, Matched, Succ, ZERO, SEVEN, ERROR, Samples, Codes, FLOAT
<1>4. CASE k = 3 BY <1>4, GrayTable DEF FsmStep, Matched, Succ, ZERO, SEVEN, ERROR, Samples, Codes, FLOAT
<1>5. CASE k = 4 BY <1>5, GrayTable DEF FsmStep, Matched, Succ, ZERO, SEVEN, ERROR, Samples, Codes, FLOAT
<1>6. CASE k = 5 BY <1>6, GrayTable DEF FsmStep, Matched, Succ, ZERO, SEVEN, ERROR, Samples, Codes, FLOAT
<1>7. CASE k = 6 BY <1>7, GrayTable DEF FsmStep, Matched, Succ, ZERO, SEVEN, ERROR, Samples, Codes, FLOAT
<1>8. CASE k = 7 BY <1>8, GrayTable DEF FsmStep, Matched, Succ, ZERO, SEVEN, ERROR, Samples, Codes, FLOAT
<1> QED BY <1>1, <1>2, <1>3, <1>4, <1>5, <1>6, <1>7, <1>8

\* Two states that call for the same history are the same state.
LEMMA SuccInjective ==
  ASSUME NEW a \in 0..7, NEW b \in 0..7, a + 1 = b + 1
  PROVE  a = b
OBVIOUS

\* Only the first state is entered from outside the cycle.
LEMMA StepFromOutside ==
  ASSUME NEW s \in {IDLE, ERROR}, NEW d \in Samples
  PROVE  FsmStep(s, d) = IF d = 0 THEN ZERO ELSE IDLE
BY GrayTable DEF FsmStep, IDLE, ERROR, ZERO

\* Seeing the same code again changes nothing in the history.
LEMMA MatchedAgain ==
  ASSUME NEW m \in 0..8, NEW d \in Samples
  PROVE  Matched(Matched(m, d), d) = Matched(m, d)
BY GrayTable DEF Matched, ZERO, Samples, Codes, FLOAT

\* After any history, 000 counts as the first code, and any other code that is
\* counted is the one its position in the cycle calls for.
LEMMA MatchedCode ==
  ASSUME NEW m \in 0..8, NEW d \in Samples
  PROVE  /\ Matched(m, d) > 0 => d = Gray[Matched(m, d) - 1]
         /\ d = 0 => Matched(m, d) = 1
BY GrayTable DEF Matched, ZERO, Samples, Codes, FLOAT

-----------------------------------------------------------------------------
\* One edge, reset edge or stutter keeps every register of wdt.v in its range.
LEMMA TypeStep == TypeOK /\ [Next]_vars => TypeOK'
<1> SUFFICES ASSUME TypeOK, [Next]_vars PROVE TypeOK'
  OBVIOUS
<1> USE TimeoutAssumption, HoldAssumption, InputsAssumption DEF TypeOK
<1>1. FsmStep(state, fdu_d1) \in WdtStates
  BY FsmStepType
<1>2. IDLE \in WdtStates /\ ERROR \in WdtStates
  BY DEF WdtStates
<1>3. NextStateNew(count, state, fdu_d1) \in WdtStates
  BY <1>1, <1>2 DEF NextStateNew
<1>4. ASSUME NEW in \in Inputs, Sample(in) PROVE fdu_d1' \in Samples /\ held' \in 1..MinHold
  BY <1>4 DEF Sample
<1>5. CASE Clock
  <2>1. PICK in \in Inputs : Clock!(in)
    BY <1>5 DEF Clock
  <2>2. next_state' \in WdtStates /\ state' \in WdtStates
    BY <2>1, <1>2, <1>3 DEF StateNew, Read
  <2>3. count' \in 0..TIMEOUT
    BY <2>1 DEF CountNew
  <2>4. clear' \in BOOLEAN /\ health' \in BOOLEAN
    BY <2>1 DEF ClearNew, HealthNew
  <2> QED BY <2>1, <2>2, <2>3, <2>4, <1>4
<1>6. CASE ClockInReset
  BY <1>6, <1>3, <1>4 DEF ClockInReset
<1>7. CASE AssertReset
  <2>1. 0 \in 0..TIMEOUT
    OBVIOUS
  <2> QED BY <2>1, <1>7, <1>2, Zenon DEF AssertReset
<1>8. CASE ReleaseReset
  BY <1>8 DEF ReleaseReset
<1>9. CASE UNCHANGED vars
  BY <1>9 DEF vars
<1> QED BY <1>5, <1>6, <1>7, <1>8, <1>9 DEF Next

LEMMA TypeInit == Init => TypeOK
<1>1. /\ 0 \in 0..TIMEOUT /\ 1 \in 1..MinHold /\ 0 \in Samples
      /\ ZERO \in WdtStates /\ IDLE \in WdtStates
  BY TimeoutAssumption, HoldAssumption DEF WdtStates, Samples, Codes, ZERO
<1> QED BY <1>1, Zenon DEF Init, ResetValues, TypeOK

\* Type correctness of the watchdog: the registers of wdt.v never leave their
\* ranges, for either outcome of the race on next_state and any pin activity.
THEOREM WdtTypeCorrect == Spec => []TypeOK
BY TypeInit, TypeStep, PTL DEF Spec

-----------------------------------------------------------------------------
(***************************************************************************)
(* HealthNeedsStroke for the synthesised watchdog: next_state is a         *)
(* flip-flop and the pins hold a code for at least two edges.              *)
(***************************************************************************)
\* The history variables stay in their ranges.
LEMMA HistoryTypeStep ==
  ASSUME TypeOK, HistoryTypeOK, [NextH]_allvars
  PROVE  HistoryTypeOK'
<1> USE TimeoutAssumption, HoldAssumption, InputsAssumption
    DEF TypeOK, HistoryTypeOK, MaxAge
<1>1. ASSUME NEW in \in Inputs, Sample(in), Observe
      PROVE  HistoryTypeOK'
  <2>1. fdu_d1' \in Samples
    BY <1>1 DEF Sample
  <2>2. matched' \in 0..8
    BY <1>1, <2>1, MatchedType DEF Observe
  <2>3. age' \in 0..MaxAge /\ upset' \in 0..2 /\ since' \in 0..TIMEOUT
    BY <1>1 DEF Observe, Bump
  <2>4. zeros' \in -1..2
    BY <1>1 DEF Observe, Bump
  <2>5. late' \in BOOLEAN
    <3>1. (since >= TIMEOUT - 3) \in BOOLEAN
      OBVIOUS
    <3> QED BY <1>1, <3>1, Zenon DEF Observe
  <2> QED BY <2>2, <2>3, <2>4, <2>5
<1>2. CASE Clock /\ Observe
  BY <1>1, <1>2 DEF Clock
<1>3. CASE ClockInReset /\ Observe
  BY <1>1, <1>3 DEF ClockInReset
<1>4. CASE AssertReset /\ upset' = 0 /\ zeros' = 0 /\ since' = 0
           /\ UNCHANGED <<matched, age, late>>
  <2>1. 0 \in 0..2 /\ 0 \in -1..2 /\ 0 \in 0..TIMEOUT
    OBVIOUS
  <2> QED BY <2>1, <1>4, Zenon
<1>5. CASE UNCHANGED history
  BY <1>5 DEF history
<1> QED BY <1>2, <1>3, <1>4, <1>5 DEF NextH, allvars

\* A sample that is replaced was there for two edges; one that is kept leaves
\* the history as it was.
LEMMA SampleFacts ==
  ASSUME TypeOK, HistoryTypeOK, Tracking, MinHold >= 2,
         NEW in \in Inputs, Sample(in), matched' = Matched(matched, fdu_d1')
  PROVE  /\ held = 1 => fdu_d1' = fdu_d1
         /\ held' > 1 => fdu_d1' = fdu_d1
         /\ fdu_d1' = fdu_d1 => matched' = matched
         /\ fdu_d1' \in Samples
<1> USE HoldAssumption, InputsAssumption DEF TypeOK, HistoryTypeOK
<1>1. /\ held = 1 => fdu_d1' = fdu_d1
      /\ held' > 1 => fdu_d1' = fdu_d1
      /\ fdu_d1' \in Samples
  BY DEF Sample
<1>2. Matched(matched, fdu_d1) = matched
  BY DEF Matched, Tracking
<1> QED BY <1>1, <1>2

\* Whatever state the next-state block of wdt.v enters at an edge, it is the
\* one the history up to that edge calls for.
LEMMA NextStateFollows ==
  ASSUME TypeOK, HistoryTypeOK, Tracking,
         next_state' = NextStateNew(count, state, fdu_d1), next_state' \in 0..7
  PROVE  next_state' = FsmStep(state, fdu_d1) /\ matched = next_state' + 1
<1> USE DEF TypeOK, HistoryTypeOK
<1>1. next_state' = FsmStep(state, fdu_d1)
  BY DEF NextStateNew, IDLE
<1>2. CASE state \in 0..7
  BY <1>1, <1>2, StepFollows DEF Tracking
<1>3. CASE state \in {IDLE, ERROR}
  <2>1. fdu_d1 = 0 /\ next_state' = 0
    BY <1>1, <1>3, StepFromOutside DEF ZERO, IDLE
  <2> QED BY <1>1, <2>1, GrayTable DEF Tracking, ZERO
<1> QED BY <1>1, <1>2, <1>3 DEF WdtStates

\* An edge with reset low.
LEMMA ClockKeepsInv ==
  ASSUME ReadOrder = "old", MinHold >= 2, WdtInv, TypeOK', HistoryTypeOK', Clock, Observe
  PROVE  WdtInv'
<1> USE TimeoutAssumption, HoldAssumption, InputsAssumption
<1>1. PICK in \in Inputs : Clock!(in)
  BY DEF Clock
<1>2. TypeOK /\ HistoryTypeOK /\ Tracking /\ Prompt /\ Clocked /\ ~reset /\ ~reset'
  BY <1>1 DEF WdtInv
<1>3. /\ held = 1 => fdu_d1' = fdu_d1
      /\ held' > 1 => fdu_d1' = fdu_d1
      /\ fdu_d1' = fdu_d1 => matched' = matched
      /\ fdu_d1' \in Samples
      /\ matched' = Matched(matched, fdu_d1')
  <2>1. matched' = Matched(matched, fdu_d1')
    BY DEF Observe
  <2> QED BY <1>1, <1>2, <2>1, SampleFacts
<1>4. next_state' \in 0..7 => next_state' = FsmStep(state, fdu_d1) /\ matched = next_state' + 1
  BY <1>1, <1>2, NextStateFollows
<1>5. state' = IF count >= TIMEOUT THEN ERROR ELSE next_state
  BY <1>1 DEF StateNew, Read
<1>6. state' \in 0..7 => count < TIMEOUT /\ state' = next_state
  BY <1>2, <1>5 DEF TypeOK, ERROR
<1>7. Tracking'
  <2>1. /\ matched' > 0 => fdu_d1' = Gray[matched' - 1]
        /\ fdu_d1' = Gray[ZERO] => matched' = 1
    BY <1>2, <1>3, MatchedCode, GrayTable DEF HistoryTypeOK, ZERO
  <2>2. state' \in 0..7 => matched' = Matched(state' + 1, fdu_d1')
    <3> SUFFICES ASSUME state' \in 0..7 PROVE matched' = Matched(state' + 1, fdu_d1')
      OBVIOUS
    <3>1. CASE held = 1
      BY <3>1, <1>2, <1>3, <1>6 DEF Tracking
    <3>2. CASE held > 1
      BY <3>2, <1>2, <1>3, <1>6 DEF Tracking
    <3> QED BY <3>1, <3>2, <1>2 DEF TypeOK
  <2>3. next_state' \in 0..7 => /\ matched' = Matched(next_state' + 1, fdu_d1')
                                /\ held' > 1 => matched' = next_state' + 1
    BY <1>3, <1>4
  <2>4. held' = 1 /\ state' \in 0..7 /\ next_state' \in 0..7 => state' = next_state'
    <3> SUFFICES ASSUME held' = 1, state' \in 0..7, next_state' \in 0..7
                 PROVE  state' = next_state'
      OBVIOUS
    <3>1. held > 1
      BY <1>1, <1>2 DEF Sample, TypeOK
    <3>2. next_state \in 0..7 /\ state' = next_state
      BY <1>6
    <3>3. matched = next_state + 1
      BY <3>1, <3>2, <1>2 DEF Tracking
    <3>4. matched = next_state' + 1
      BY <1>4
    <3> QED BY <3>2, <3>3, <3>4, SuccInjective, Zenon
  <2> QED BY <2>1, <2>2, <2>3, <2>4 DEF Tracking
<1>8. ASSUME matched' = 8, age' > 0
      PROVE  matched = 8 /\ age' <= age + 1 /\ fdu_d1' = 4
  BY <1>8, <1>2, <1>7, GrayTable DEF Observe, Completed, Bump, HistoryTypeOK, MaxAge, Tracking
<1>9. matched = 8 => fdu_d1 = 4
  BY <1>2, GrayTable DEF Tracking
<1>10. fdu_d1 = 4 => next_state' # SIX
  BY <1>1, <1>2, GrayTable
     DEF NextStateNew, FsmStep, TypeOK, WdtStates, Succ, SIX, SEVEN, ZERO, IDLE, ERROR
<1>11. Prompt'
  BY <1>2, <1>5, <1>8, <1>9, <1>10 DEF Prompt, SIX, ERROR, HistoryTypeOK, TypeOK
<1>12. age' <= age + 1
  BY <1>2 DEF Observe, Bump, HistoryTypeOK, MaxAge
<1>13. state = SIX /\ fdu_d1 = 4 => age <= 1
  <2> SUFFICES ASSUME state = SIX, fdu_d1 = 4 PROVE age <= 1
    OBVIOUS
  <2>1. matched = 8
    BY <1>2, GrayTable DEF Tracking, Matched, SIX, ZERO
  <2> QED BY <2>1, <1>2 DEF Prompt, HistoryTypeOK
<1>14. next_state = SEVEN /\ state = SIX => age <= 1
  <2> SUFFICES ASSUME next_state = SEVEN, state = SIX PROVE age <= 1
    OBVIOUS
  <2>1. held > 1
    BY <1>2 DEF Tracking, TypeOK, SIX, SEVEN
  <2>2. matched = 8
    BY <2>1, <1>2 DEF Tracking, SEVEN
  <2> QED BY <2>2, <1>2 DEF Prompt, HistoryTypeOK, SIX
<1>15. count >= TIMEOUT => ~health' /\ state' = ERROR /\ next_state' = IDLE
  BY <1>1, <1>2, <1>5 DEF HealthNew, NextStateNew, TypeOK
<1>16. clear' => age' <= 2 \/ (~health' /\ state' = ERROR /\ next_state' = IDLE)
  BY <1>1, <1>2, <1>12, <1>14, <1>15 DEF ClearNew, Read, HistoryTypeOK, TypeOK
<1>17. health' => count < TIMEOUT /\ (health \/ state = SEVEN) /\ state # ERROR
  <2>1. SEVEN # ERROR
    BY DEF SEVEN, ERROR
  <2> QED BY <1>1, <2>1, Zenon DEF HealthNew
<1>18. next_state' = SEVEN => state = SEVEN \/ age' <= 2
  BY <1>1, <1>2, <1>12, <1>13, GrayTable
     DEF NextStateNew, FsmStep, TypeOK, HistoryTypeOK, WdtStates, Succ, SIX, SEVEN, ZERO, IDLE, ERROR
<1>19. ASSUME health' \/ state' = SEVEN \/ next_state' = SEVEN
       PROVE  age' <= count' + 3
  <2>1. count < TIMEOUT
    BY <1>19, <1>2, <1>15 DEF SEVEN, IDLE, ERROR, TypeOK
  <2>2. count' = IF clear THEN 0 ELSE count + 1
    BY <2>1, <1>1 DEF CountNew
  <2>3. CASE age' <= 2
    BY <2>3, <1>2, <2>2 DEF TypeOK, HistoryTypeOK
  <2>4. CASE age' > 2
    <3>1. health \/ state = SEVEN \/ next_state = SEVEN
      BY <2>1, <2>4, <1>2, <1>5, <1>17, <1>18, <1>19 DEF TypeOK, HistoryTypeOK
    <3>2. clear => age <= 2
      BY <3>1, <1>2 DEF Clocked, SEVEN, ERROR, IDLE
    <3>3. ~clear => age <= count + 3
      BY <3>1, <1>2 DEF Clocked
    <3> QED BY <3>2, <3>3, <2>2, <1>12, <1>2 DEF TypeOK, HistoryTypeOK
  <2> QED BY <2>3, <2>4 DEF HistoryTypeOK
<1>20. Clocked'
  BY <1>16, <1>19 DEF Clocked
<1>21. InReset'
  BY <1>2 DEF InReset
<1> QED BY <1>7, <1>11, <1>20, <1>21 DEF WdtInv

\* An edge with reset high: the next-state block restarts from IDLE.
LEMMA ClockInResetKeepsInv ==
  ASSUME MinHold >= 2, WdtInv, TypeOK', HistoryTypeOK', ClockInReset, Observe
  PROVE  WdtInv'
<1> USE TimeoutAssumption, HoldAssumption, InputsAssumption
<1>1. PICK in \in Inputs : ClockInReset!(in)
  BY DEF ClockInReset
<1>2. /\ TypeOK /\ HistoryTypeOK /\ Tracking /\ ResetValues
      /\ reset' /\ ResetValues' /\ fdu_d1' \in Samples
      /\ matched' = Matched(matched, fdu_d1')
  BY <1>1 DEF WdtInv, InReset, ResetValues, Observe, Sample
<1>3. /\ held' > 1 => fdu_d1' = fdu_d1
      /\ fdu_d1' = fdu_d1 => matched' = matched
  BY <1>1, <1>2, SampleFacts
<1>4. next_state' = IF fdu_d1 = 0 THEN ZERO ELSE IDLE
  BY <1>1, <1>2, StepFromOutside DEF NextStateNew, ResetValues, TypeOK
<1>5. next_state' \in 0..7 => next_state' = 0 /\ matched = 1
  BY <1>2, <1>4, GrayTable DEF Tracking, ZERO, IDLE
<1>6. state' = IDLE /\ ~(state' \in 0..7)
  BY <1>2 DEF ResetValues, IDLE
<1>7. Tracking'
  <2>1. /\ matched' > 0 => fdu_d1' = Gray[matched' - 1]
        /\ fdu_d1' = Gray[ZERO] => matched' = 1
    BY <1>2, MatchedCode, GrayTable DEF HistoryTypeOK, ZERO
  <2>2. next_state' \in 0..7 =>
           matched' = Matched(next_state' + 1, fdu_d1') /\ (held' > 1 => matched' = next_state' + 1)
    BY <1>2, <1>3, <1>5
  <2> QED BY <2>1, <2>2, <1>6 DEF Tracking
<1>8. Prompt' /\ Clocked' /\ InReset'
  BY <1>2, <1>4, <1>6
     DEF Prompt, Clocked, InReset, ResetValues, SIX, SEVEN, ZERO, IDLE
<1> QED BY <1>7, <1>8 DEF WdtInv

\* The reset line rises, falls, or nothing happens.
LEMMA OtherStepsKeepInv ==
  ASSUME WdtInv, TypeOK', HistoryTypeOK',
         AssertReset \/ ReleaseReset \/ UNCHANGED vars, UNCHANGED <<matched, age>>
  PROVE  WdtInv'
<1>1. CASE AssertReset
  <2>1. Tracking' /\ Prompt'
    BY <1>1 DEF WdtInv, Tracking, Prompt, AssertReset, IDLE, SIX
  <2>2. Clocked' /\ InReset'
    BY <1>1 DEF AssertReset, Clocked, InReset, ResetValues, IDLE, SEVEN
  <2> QED BY <2>1, <2>2 DEF WdtInv
<1>2. CASE ReleaseReset
  <2>1. Tracking' /\ Prompt'
    BY <1>2 DEF WdtInv, Tracking, Prompt, ReleaseReset
  <2>2. ResetValues /\ next_state \in {ZERO, IDLE}
    BY <1>2 DEF WdtInv, InReset, ReleaseReset
  <2>3. Clocked' /\ InReset'
    BY <1>2, <2>2 DEF ReleaseReset, Clocked, InReset, ResetValues, ZERO, IDLE, SEVEN
  <2> QED BY <2>1, <2>3 DEF WdtInv
<1>3. CASE UNCHANGED vars
  BY <1>3 DEF WdtInv, vars, Tracking, Prompt, Clocked, InReset, ResetValues
<1> QED BY <1>1, <1>2, <1>3

\* The watchdog starts, by power-up or in reset, with a consistent history.
LEMMA InitInv == InitH => WdtInv
<1> SUFFICES ASSUME InitH PROVE WdtInv
  OBVIOUS
<1>1. TypeOK
  <2>1. /\ 0 \in 0..TIMEOUT /\ 1 \in 1..MinHold /\ 0 \in Samples
        /\ ZERO \in WdtStates /\ IDLE \in WdtStates
    BY TimeoutAssumption, HoldAssumption DEF WdtStates, Samples, Codes, ZERO
  <2> QED BY <2>1, Zenon DEF InitH, Init, ResetValues, TypeOK
<1>2. HistoryTypeOK
  <2>1. /\ 0 \in 0..TIMEOUT /\ 0 \in 0..2 /\ MaxAge \in 0..MaxAge
        /\ 0 \in -1..2 /\ 1 \in 0..8
    BY TimeoutAssumption DEF MaxAge
  <2> QED BY <2>1, Zenon DEF InitH, HistoryInit, HistoryTypeOK
<1>3. Tracking /\ Prompt
  BY GrayTable DEF InitH, Init, HistoryInit, ResetValues, Tracking, Prompt, Matched, ZERO, IDLE
<1>4. Clocked /\ InReset
  BY DEF InitH, Init, ResetValues, Clocked, InReset, ZERO, IDLE, SEVEN
<1> QED BY <1>1, <1>2, <1>3, <1>4 DEF WdtInv

\* Every step keeps the invariant.
LEMMA WdtInvStep ==
  ASSUME ReadOrder = "old", MinHold >= 2, WdtInv, [NextH]_allvars
  PROVE  WdtInv'
<1>1. TypeOK'
  <2>1. [Next]_vars
    BY DEF NextH, Next, allvars
  <2> QED BY <2>1, TypeStep DEF WdtInv
<1>2. HistoryTypeOK'
  BY HistoryTypeStep DEF WdtInv
<1>3. CASE Clock /\ Observe
  BY <1>1, <1>2, <1>3, ClockKeepsInv
<1>4. CASE ClockInReset /\ Observe
  BY <1>1, <1>2, <1>4, ClockInResetKeepsInv
<1>5. CASE AssertReset /\ UNCHANGED <<matched, age, late>>
  BY <1>1, <1>2, <1>5, OtherStepsKeepInv
<1>6. CASE ReleaseReset /\ UNCHANGED history
  BY <1>1, <1>2, <1>6, OtherStepsKeepInv DEF history
<1>7. CASE UNCHANGED allvars
  BY <1>1, <1>2, <1>7, OtherStepsKeepInv DEF allvars, history
<1> QED BY <1>3, <1>4, <1>5, <1>6, <1>7 DEF NextH

\* The watchdog as synthesised (next_state is a flip-flop) with pins that hold a
\* code for two clock edges never reports a string healthy unless all eight
\* codes came in order and the last one at most TIMEOUT + 3 edges ago: for
\* every TIMEOUT and every sequence of codes, floating pins and resets.
THEOREM WdtHealthNeedsStroke ==
  ASSUME ReadOrder = "old", MinHold >= 2
  PROVE  SpecH => []HealthNeedsStroke
<1>1. WdtInv /\ [NextH]_allvars => WdtInv'
  BY WdtInvStep
<1>2. WdtInv => HealthNeedsStroke
  BY TimeoutAssumption
     DEF WdtInv, Clocked, HealthNeedsStroke, TypeOK, HistoryTypeOK
<1> QED BY <1>1, <1>2, InitInv, PTL DEF SpecH

-----------------------------------------------------------------------------
(***************************************************************************)
(* StrokeRaisesHealth and NoFalseAlarm, for the same watchdog: what the    *)
(* strokes may count on.                                                   *)
(***************************************************************************)
\* 000 leads every state of wdt.v to the beginning of the cycle, or to ERROR
\* from amid it.
LEMMA ZeroStep ==
  ASSUME NEW s \in WdtStates
  PROVE  /\ FsmStep(s, 0) \notin 1..6
         /\ s \notin 1..6 => FsmStep(s, 0) = ZERO
BY GrayTable DEF FsmStep, WdtStates, Succ, ZERO, SEVEN, IDLE, ERROR

\* A state that follows the history stays in the cycle as long as the codes come
\* in order.
LEMMA CycleStep ==
  ASSUME NEW k \in 0..7, NEW d \in Samples, Matched(k + 1, d) > 1
  PROVE  FsmStep(k, d) \in 0..7
BY GrayTable DEF FsmStep, Matched, Succ, ZERO, SEVEN, ERROR, Samples, Codes, FLOAT

\* Which samples count as in order, and where the eighth code comes from.
LEMMA OrderFacts ==
  ASSUME NEW m \in 0..8, NEW d \in Samples
  PROVE  /\ InOrder(m, 0) => m \in {0, 1, 8}
         /\ Matched(m, d) = 0 => ~InOrder(m, d)
         /\ Matched(m, d) = 8 /\ m # 8 => m = 7
         /\ Matched(m, d) > 1 => m > 0 /\ m <= Matched(m, d)
         /\ m \in {0, 8} => Matched(m, d) \in {0, 1, 8}
BY GrayTable DEF InOrder, Matched, ZERO, Samples, Codes, FLOAT

\* What an edge with reset low does to the two state machines.
LEMMA ClockFacts ==
  ASSUME ReadOrder = "old", MinHold >= 2, WdtInv, Clock, Observe
  PROVE  /\ ~reset /\ ~reset'
         /\ count < TIMEOUT => state' = next_state /\ next_state' = FsmStep(state, fdu_d1)
         /\ count = TIMEOUT => state' = ERROR /\ next_state' = IDLE /\ clear' /\ ~health'
         /\ next_state' \in 0..7 => matched = next_state' + 1
         /\ held > 1 /\ state' \in 0..7 => matched = state' + 1
<1> USE TimeoutAssumption DEF WdtInv
<1>1. PICK in \in Inputs : Clock!(in)
  BY DEF Clock
<1>2. ~reset /\ ~reset'
  BY <1>1
<1>3. count < TIMEOUT => state' = next_state /\ next_state' = FsmStep(state, fdu_d1)
  BY <1>1 DEF StateNew, Read, NextStateNew, TypeOK
<1>4. count = TIMEOUT => state' = ERROR /\ next_state' = IDLE /\ clear' /\ ~health'
  <2> SUFFICES ASSUME count = TIMEOUT
               PROVE  state' = ERROR /\ next_state' = IDLE /\ clear' /\ ~health'
    OBVIOUS
  <2>1. count >= TIMEOUT /\ ~(count < TIMEOUT)
    BY DEF TypeOK
  <2> QED BY <1>1, <2>1, Zenon DEF StateNew, NextStateNew, ClearNew, HealthNew
<1>5. next_state' \in 0..7 => matched = next_state' + 1
  BY <1>1, NextStateFollows
<1>6. ASSUME held > 1, state' \in 0..7 PROVE matched = state' + 1
  <2>1. state' = next_state
    BY <1>6, <1>3, <1>4 DEF TypeOK, ERROR
  <2> QED BY <1>6, <2>1 DEF Tracking
<1> QED BY <1>2, <1>3, <1>4, <1>5, <1>6

\* The pins at an edge, with reset high or low.
LEMMA PinFacts ==
  ASSUME MinHold >= 2, WdtInv, Clock \/ ClockInReset, Observe
  PROVE  /\ fdu_d1' \in Samples
         /\ fdu_d1' = fdu_d1 => held' > 1 /\ matched' = matched
         /\ fdu_d1' # fdu_d1 => held' = 1 /\ held > 1
         /\ matched' = Matched(matched, fdu_d1')
<1> USE HoldAssumption, InputsAssumption DEF WdtInv
<1>1. PICK in \in Inputs : Sample(in)
  BY DEF Clock, ClockInReset
<1>2. matched' = Matched(matched, fdu_d1')
  BY DEF Observe
<1>3. fdu_d1' \in Samples /\ (fdu_d1' = fdu_d1 => matched' = matched)
  BY <1>1, <1>2, SampleFacts
<1>4. /\ fdu_d1' = fdu_d1 => held' > 1
      /\ fdu_d1' # fdu_d1 => held' = 1 /\ held > 1
  BY <1>1 DEF Sample, TypeOK
<1> QED BY <1>2, <1>3, <1>4

\* Both machines have seen 000 as often as zeros says.
LEMMA BegunStep ==
  ASSUME ReadOrder = "old", MinHold >= 2, WdtInv, Begun, TypeOK', HistoryTypeOK', Clock, Observe
  PROVE  Begun'
<1> USE TimeoutAssumption DEF WdtInv, TypeOK, HistoryTypeOK
<1> SUFFICES ASSUME fdu_d1' = 0 PROVE
      /\ held' > 1 => /\ next_state' \notin 1..6
                      /\ zeros' >= 0 => state' \notin 1..6
                      /\ zeros' >= 1 => next_state' = ZERO
                      /\ zeros' = 2 => state' = ZERO
      /\ held' = 1 /\ upset' > 0 => state' \notin 1..6 /\ next_state' \notin 1..6
  BY GrayTable DEF Begun, ZERO
<1>1. CASE count = TIMEOUT
  <2>1. state' = ERROR /\ next_state' = IDLE /\ zeros' = 0
    BY <1>1, ClockFacts DEF Observe
  <2> QED BY <2>1 DEF ERROR, IDLE
<1>2. CASE count < TIMEOUT /\ fdu_d1 = 0
  <2>1. state' = next_state /\ next_state' = FsmStep(state, 0) /\ held' > 1 /\ ~reset
    BY <1>2, ClockFacts, PinFacts
  <2>2. zeros' = IF held > 1 THEN Bump(zeros, 2) ELSE IF upset = 0 THEN -1 ELSE 1
    BY <1>2, <2>1, GrayTable DEF Observe, ZERO
  <2>3. next_state' \notin 1..6 /\ (state \notin 1..6 => next_state' = ZERO)
    BY <2>1, ZeroStep
  <2>4. /\ held > 1 => /\ next_state \notin 1..6
                       /\ zeros >= 0 => state \notin 1..6
                       /\ zeros >= 1 => next_state = ZERO
        /\ held = 1 /\ upset > 0 => state \notin 1..6 /\ next_state \notin 1..6
    BY <1>2, <2>1, GrayTable DEF Begun, ZERO
  <2>5. CASE held > 1
    BY <2>1, <2>2, <2>3, <2>4, <2>5 DEF Bump
  <2>6. CASE held = 1
    BY <2>1, <2>2, <2>3, <2>4, <2>6
  <2> QED BY <2>5, <2>6
<1>3. CASE count < TIMEOUT /\ fdu_d1 # 0
  <2>1. held' = 1 /\ held > 1
    BY <1>3, PinFacts
  <2> SUFFICES ASSUME upset' > 0 PROVE state' \notin 1..6 /\ next_state' \notin 1..6
    BY <2>1
  <2>2. InOrder(matched, 0)
    BY DEF Observe
  <2>3. matched \in {0, 8}
    BY <2>2, <1>3, OrderFacts, GrayTable DEF Tracking
  <2>4. /\ next_state' \in 0..7 => matched = next_state' + 1
        /\ state' \in 0..7 => matched = state' + 1
    BY <2>1, ClockFacts
  <2> QED BY <2>3, <2>4
<1> QED BY <1>1, <1>2, <1>3

\* Once both have seen it, both stay in the cycle as long as codes come in order.
LEMMA EngagedStep ==
  ASSUME ReadOrder = "old", MinHold >= 2, WdtInv, Begun, Engaged, Begun',
         TypeOK', HistoryTypeOK', Clock, Observe
  PROVE  Engaged'
<1> USE TimeoutAssumption DEF WdtInv, TypeOK, HistoryTypeOK
<1>1. /\ ~reset /\ ~reset' /\ matched' = Matched(matched, fdu_d1') /\ fdu_d1' \in Samples
      /\ fdu_d1' = fdu_d1 => matched' = matched
      /\ fdu_d1' # fdu_d1 => held' = 1 /\ held > 1
  BY ClockFacts, PinFacts
<1>2. matched' = 0 => upset' = 0
  BY <1>1, OrderFacts DEF Observe
<1>3. ASSUME zeros' = 2, matched' > 0, matched' > 1 \/ held' > 1 \/ upset' > 1
      PROVE  state' \in 0..7 /\ next_state' \in 0..7
  <2>1. count < TIMEOUT
    BY <1>3 DEF Observe
  <2>2. state' = next_state /\ next_state' = FsmStep(state, fdu_d1)
    BY <2>1, ClockFacts
  <2>3. CASE fdu_d1 # 0
    <3>1. zeros = 2
      BY <2>1, <2>3, <1>1, <1>3, GrayTable DEF Observe, ZERO
    <3>2. matched > 1
      <4>1. CASE fdu_d1' = fdu_d1
        BY <4>1, <2>3, <1>1, <1>3, GrayTable DEF Tracking
      <4>2. CASE matched' > 1
        BY <4>2, <2>3, <1>1, OrderFacts, GrayTable DEF Tracking
      <4>3. CASE fdu_d1' # fdu_d1 /\ matched' = 1
        <5>1. upset' > 1
          BY <4>3, <1>1, <1>3
        <5>2. InOrder(matched, fdu_d1') /\ upset > 0
          BY <5>1 DEF Observe, Bump
        <5>3. matched # 0
          BY <5>2 DEF Engaged
        <5> QED BY <5>3, <2>3, GrayTable DEF Tracking
      <4> QED BY <4>1, <4>2, <4>3, <1>3
    <3>3. state \in 0..7 /\ next_state \in 0..7
      BY <3>1, <3>2 DEF Engaged
    <3>4. FsmStep(state, fdu_d1) \in 0..7
      BY <3>2, <3>3, CycleStep DEF Tracking
    <3> QED BY <3>3, <3>4, <2>2
  <2>4. CASE fdu_d1 = 0
    <3>1. held > 1 /\ zeros >= 1
      BY <2>1, <2>4, <1>1, <1>3, GrayTable DEF Observe, ZERO, Bump
    <3>2. next_state = ZERO /\ state \notin 1..6
      BY <2>4, <3>1, <1>1, GrayTable DEF Begun, ZERO
    <3>3. next_state' = ZERO
      BY <3>2, <2>2, <2>4, ZeroStep
    <3> QED BY <3>2, <3>3, <2>2 DEF ZERO
  <2> QED BY <2>3, <2>4
<1> QED BY <1>1, <1>2, <1>3 DEF Engaged

\* The eighth code stays for two edges.
LEMMA FreshStep ==
  ASSUME MinHold >= 2, WdtInv, Fresh, HistoryTypeOK', Clock \/ ClockInReset, Observe
  PROVE  Fresh'
<1> USE TimeoutAssumption DEF WdtInv, TypeOK, HistoryTypeOK, MaxAge
<1>1. /\ fdu_d1' = fdu_d1 => held' > 1 /\ matched' = matched
      /\ fdu_d1' # fdu_d1 => held' = 1 /\ held > 1
      /\ matched' = Matched(matched, fdu_d1') /\ fdu_d1' \in Samples
  BY PinFacts
<1>2. CASE Completed
  <2>1. age' = 0 /\ matched' = 8 /\ fdu_d1' # fdu_d1
    BY <1>1, <1>2 DEF Observe, Completed
  <2> QED BY <2>1, <1>1 DEF Fresh
<1>3. CASE ~Completed
  <2>1. age' = Bump(age, MaxAge)
    BY <1>3 DEF Observe
  <2>2. age' <= 2 => age' = age + 1
    BY <2>1 DEF Bump
  <2>3. age' # 0
    BY <2>1 DEF Bump
  <2>4. CASE age = 0
    BY <2>2, <2>3, <2>4, <1>1 DEF Fresh
  <2>5. CASE age = 1
    <3>1. matched' \in {0, 1, 8}
      BY <2>5, <1>1, OrderFacts DEF Fresh
    <3> QED BY <2>2, <2>3, <2>5, <3>1 DEF Fresh
  <2>6. CASE age > 1
    BY <2>2, <2>3, <2>6 DEF Fresh
  <2> QED BY <2>4, <2>5, <2>6
<1> QED BY <1>2, <1>3

\* A whole cycle reaches health three edges after its last code.
LEMMA RaisedStep ==
  ASSUME ReadOrder = "old", MinHold >= 2, WdtInv, Engaged, StrokeRaisesHealth,
         HistoryTypeOK', Clock, Observe
  PROVE  StrokeRaisesHealth'
<1> USE TimeoutAssumption DEF WdtInv, TypeOK, HistoryTypeOK, Turns
<1> SUFFICES ASSUME matched' = 8, zeros' = 2, age' >= 3 PROVE health'
  BY DEF StrokeRaisesHealth
<1>1. matched = 8 /\ age >= 2 /\ count < TIMEOUT
  BY DEF Observe, Completed, Bump
<1>2. fdu_d1 = 4 /\ ~reset
  BY <1>1, ClockFacts, GrayTable DEF Tracking
<1>3. zeros = 2
  BY <1>1, <1>2, GrayTable DEF Observe, ZERO
<1>4. state \in 0..7
  BY <1>1, <1>3 DEF Engaged
<1>5. state \in {6, 7}
  BY <1>1, <1>2, <1>4, GrayTable DEF Tracking, Matched, ZERO
<1>6. state = SEVEN
  BY <1>1, <1>5 DEF Prompt, SIX, SEVEN
<1>7. health' = HealthNew(count, state, health)
  BY DEF Clock
<1> QED BY <1>1, <1>6, <1>7, Zenon DEF HealthNew

\* The eighth code of a whole cycle finds both machines in SIX.
LEMMA WholeStep ==
  ASSUME ReadOrder = "old", MinHold >= 2, WdtInv, Engaged, TypeOK',
         Clock, Observe, count < TIMEOUT, Whole
  PROVE  state' = SIX /\ next_state' = SIX
<1> USE TimeoutAssumption DEF WdtInv, TypeOK, HistoryTypeOK, Turns
<1>1. matched = 7 /\ zeros = 2 /\ fdu_d1' # fdu_d1 /\ held > 1
  BY PinFacts, OrderFacts DEF Whole, Completed
<1>2. state \in 0..7 /\ next_state \in 0..7
  BY <1>1 DEF Engaged
<1>3. FsmStep(state, fdu_d1) \in 0..7
  BY <1>1, <1>2, CycleStep DEF Tracking
<1>4. state' \in 0..7 /\ next_state' \in 0..7
  BY <1>2, <1>3, ClockFacts
<1>5. matched = state' + 1 /\ matched = next_state' + 1
  BY <1>1, <1>4, ClockFacts
<1>6. \A k \in 0..7 : 7 = k + 1 => k = 6
  OBVIOUS
<1> QED BY <1>1, <1>4, <1>5, <1>6, Zenon DEF SIX

\* The counter of wdt.v does not run ahead of the cycle.
LEMMA OnTimeStep ==
  ASSUME ReadOrder = "old", MinHold >= 2, WdtInv, Engaged, Fresh, OnTime,
         TypeOK', HistoryTypeOK', Clock, Observe
  PROVE  OnTime'
<1> USE TimeoutAssumption
<1>1. PICK in \in Inputs : Clock!(in)
  BY DEF Clock
<1>2. TypeOK /\ HistoryTypeOK /\ ~reset
  BY <1>1 DEF WdtInv
<1>3. count' = CountNew(count, clear)
  BY <1>1
<1>4. clear => count' = 0
  BY <1>3, Zenon DEF CountNew
<1>5. count' <= count + 1 /\ (count = TIMEOUT => count' \in {0, TIMEOUT})
  BY <1>3, <1>2 DEF CountNew, TypeOK
<1>6. since' = IF count = TIMEOUT \/ Whole THEN 0 ELSE Bump(since, TIMEOUT)
  BY <1>2, Zenon DEF Observe
<1>7. CASE count' = 0
  BY <1>7 DEF OnTime, HistoryTypeOK
<1>8. CASE count' # 0 /\ count = TIMEOUT
  <2>1. clear' /\ ~health'
    BY <1>8, ClockFacts
  <2> QED BY <1>5, <1>8, <2>1 DEF OnTime
<1>9. CASE count' # 0 /\ count < TIMEOUT /\ Whole
  <2>1. ~(age <= 2)
    <3>1. matched = 7
      BY <1>9, <1>2, PinFacts, OrderFacts DEF Whole, Completed, HistoryTypeOK
    <3> QED BY <3>1, <1>2 DEF Fresh, HistoryTypeOK
  <2>2. count <= since
    BY <2>1, <1>9, <1>2 DEF OnTime, Clearing, TypeOK
  <2>3. state' = SIX /\ next_state' = SIX
    BY <1>9, WholeStep
  <2>4. age' = 0 /\ since' = 0
    BY <1>6, <1>9 DEF Observe, Whole
  <2>5. late' <=> since >= TIMEOUT - 3
    BY <1>9, Zenon DEF Observe, Whole
  <2>6. late' \/ count' <= TIMEOUT - 3
    BY <2>2, <2>5, <1>2, <1>5 DEF TypeOK, HistoryTypeOK
  <2> QED BY <2>3, <2>4, <2>6 DEF OnTime, Clearing
<1>10. CASE count' # 0 /\ count < TIMEOUT /\ ~Whole
  <2>1. ~clear
    BY <1>4, <1>10
  <2>2. since' = Bump(since, TIMEOUT)
    BY <1>6, <1>10 DEF TypeOK
  <2>3. CASE count <= since
    BY <2>2, <2>3, <1>2, <1>5, <1>10 DEF OnTime, Bump, TypeOK, HistoryTypeOK
  <2>4. CASE since = TIMEOUT
    BY <2>2, <2>4 DEF OnTime, Bump, TypeOK
  <2>5. CASE Clearing /\ since < TIMEOUT
    <3>1. age <= 1 /\ age = since /\ matched = 8
      BY <2>1, <2>5, <1>2 DEF Clearing, Fresh, HistoryTypeOK
    <3>2. age' = age + 1 /\ since' = since + 1
      BY <2>2, <2>5, <3>1, <1>2 DEF Observe, Completed, Bump, HistoryTypeOK, MaxAge
    <3>3. late' = late
      BY <3>1, Zenon DEF Observe, Completed
    <3>4. fdu_d1 = 4
      BY <3>1, GrayTable DEF WdtInv, Tracking
    <3>5. late' \/ count' <= TIMEOUT - 3 + age'
      BY <2>5, <3>2, <3>3, <1>2, <1>5 DEF Clearing, TypeOK, HistoryTypeOK
    <3>6. CASE age = 0
      <4>1. state' = SIX /\ next_state' = SEVEN
        BY <3>4, <3>6, <2>5, <1>10, ClockFacts, GrayTable
           DEF Clearing, FsmStep, Succ, SIX, SEVEN
      <4> QED BY <3>1, <3>2, <3>5, <3>6, <4>1 DEF OnTime, Clearing
    <3>7. CASE age = 1
      <4>1. clear'
        <5>1. next_state = SEVEN /\ state = SIX
          BY <3>7, <2>5 DEF Clearing
        <5>2. clear' = ClearNew(count, state, next_state)
          BY <1>1 DEF Read
        <5> QED BY <5>1, <5>2, Zenon DEF ClearNew
      <4> QED BY <3>1, <3>2, <3>5, <3>7, <4>1 DEF OnTime, Clearing
    <3> QED BY <3>1, <3>6, <3>7, <1>2 DEF HistoryTypeOK
  <2> QED BY <2>1, <2>3, <2>4, <2>5, <1>2 DEF OnTime, HistoryTypeOK
<1> QED BY <1>2, <1>7, <1>8, <1>9, <1>10 DEF TypeOK

\* An edge with reset high, and the edges of reset, start the contract afresh.
LEMMA ResetKeepsContract ==
  ASSUME MinHold >= 2, ContractInv, WdtInv', NextH, ~Clock
  PROVE  (Begun /\ Engaged /\ Fresh /\ StrokeRaisesHealth /\ OnTime)'
<1> USE TimeoutAssumption DEF ContractInv, WdtInv, Turns
<1>1. CASE ClockInReset /\ Observe
  <2>1. reset' /\ ResetValues' /\ reset
    BY <1>1 DEF ClockInReset, InReset, ResetValues
  <2>2. zeros' = 0 /\ upset' = 0
    BY <1>1, <2>1 DEF Observe
  <2>3. Fresh'
    BY <1>1, FreshStep
  <2> QED BY <2>1, <2>2, <2>3
          DEF Begun, Engaged, StrokeRaisesHealth, OnTime, ResetValues, HistoryTypeOK
<1>2. CASE AssertReset /\ upset' = 0 /\ zeros' = 0 /\ since' = 0
           /\ UNCHANGED <<matched, age, late>>
  BY <1>2 DEF AssertReset, Begun, Engaged, Fresh, StrokeRaisesHealth, OnTime
<1>3. CASE ReleaseReset /\ UNCHANGED history
  <2>1. reset /\ ResetValues /\ next_state \in {ZERO, IDLE} /\ zeros = 0
    BY <1>3 DEF ReleaseReset, InReset, Engaged
  <2>2. Begun'
    BY <1>3, <2>1 DEF ReleaseReset, history, Begun, ResetValues, ZERO, IDLE
  <2>3. (Engaged /\ Fresh /\ StrokeRaisesHealth)'
    BY <1>3, <2>1 DEF ReleaseReset, history, Engaged, Fresh, StrokeRaisesHealth
  <2>4. OnTime'
    BY <1>3, <2>1 DEF ReleaseReset, history, OnTime, ResetValues, HistoryTypeOK
  <2> QED BY <2>2, <2>3, <2>4
<1> QED BY <1>1, <1>2, <1>3 DEF NextH

\* The contract is an invariant.
LEMMA ContractInvariant ==
  ASSUME ReadOrder = "old", MinHold >= 2
  PROVE  SpecH => []ContractInv
<1>1. InitH => ContractInv
  <2> SUFFICES ASSUME InitH PROVE ContractInv
    OBVIOUS
  <2>1. Begun /\ Engaged
    BY DEF InitH, Init, HistoryInit, Begun, Engaged
  <2>2. Fresh /\ StrokeRaisesHealth
    BY TimeoutAssumption DEF InitH, HistoryInit, Fresh, StrokeRaisesHealth, MaxAge
  <2>3. OnTime
    BY DEF InitH, Init, ResetValues, HistoryInit, OnTime
  <2> QED BY <2>1, <2>2, <2>3, InitInv DEF ContractInv
<1>2. ContractInv /\ [NextH]_allvars => ContractInv'
  <2> SUFFICES ASSUME ContractInv, [NextH]_allvars PROVE ContractInv'
    OBVIOUS
  <2>1. WdtInv /\ WdtInv' /\ TypeOK' /\ HistoryTypeOK'
    BY WdtInvStep DEF ContractInv, WdtInv
  <2>2. CASE Clock /\ Observe
    <3>1. Begun' /\ Engaged' /\ Fresh'
      BY <2>1, <2>2, BegunStep, EngagedStep, FreshStep DEF ContractInv
    <3>2. StrokeRaisesHealth' /\ OnTime'
      BY <2>1, <2>2, RaisedStep, OnTimeStep DEF ContractInv
    <3> QED BY <2>1, <3>1, <3>2 DEF ContractInv
  <2>3. CASE NextH /\ ~Clock
    BY <2>1, <2>3, ResetKeepsContract DEF ContractInv
  <2>4. CASE UNCHANGED allvars
    BY <2>1, <2>4 DEF ContractInv, allvars, vars, history,
         Begun, Engaged, Fresh, StrokeRaisesHealth, OnTime, Clearing
  <2>5. NextH /\ Clock => Observe \/ ~Clock
    <3> SUFFICES ASSUME NextH, Clock PROVE Observe
      OBVIOUS
    <3>1. ~ClockInReset /\ ~ReleaseReset
      BY DEF Clock, ClockInReset, ReleaseReset
    <3>2. ~AssertReset
      BY DEF Clock, AssertReset
    <3> QED BY <3>1, <3>2 DEF NextH
  <2> QED BY <2>2, <2>3, <2>4, <2>5
<1> QED BY <1>1, <1>2, PTL DEF SpecH

\* The synthesised watchdog of wdt.v rewards a stroke cycle it saw whole: health
\* is up three edges after the eighth code and as long as that code is held.
THEOREM WdtStrokeRaisesHealth ==
  ASSUME ReadOrder = "old", MinHold >= 2
  PROVE  SpecH => []StrokeRaisesHealth
<1>1. ContractInv => StrokeRaisesHealth
  BY DEF ContractInv
<1> QED BY <1>1, ContractInvariant, PTL

\* And it gives no false alarm: health of wdt.v falls for a reset, for codes out
\* of order, in a cycle torn by a timeout or for a cycle that is overdue, and
\* for nothing else.
THEOREM WdtNoFalseAlarm ==
  ASSUME ReadOrder = "old", MinHold >= 2
  PROVE  SpecH => NoFalseAlarm
<1>1. ContractInv /\ [NextH]_allvars =>
        [health /\ ~health' => \/ reset' \/ upset < 2 \/ zeros < Turns
                               \/ since = TIMEOUT \/ (late /\ age <= 2)]_allvars
  <2> SUFFICES ASSUME ContractInv, NextH, health, ~health', ~reset',
                      ~(upset < 2), ~(zeros < Turns)
               PROVE  since = TIMEOUT \/ (late /\ age <= 2)
    OBVIOUS
  <2> USE TimeoutAssumption DEF ContractInv, WdtInv, TypeOK, HistoryTypeOK, Turns
  <2>1. Clock
    BY DEF NextH, ClockInReset, AssertReset, ReleaseReset
  <2>2. matched > 0 /\ zeros = 2 /\ upset = 2
    BY DEF Engaged
  <2>3. state \in 0..7
    BY <2>2 DEF Engaged
  <2>4. health' = HealthNew(count, state, health)
    BY <2>1 DEF Clock
  <2>5. state \notin {IDLE, ERROR}
    BY <2>3 DEF IDLE, ERROR
  <2>6. ~(count < TIMEOUT)
    BY <2>4, <2>5, Zenon DEF HealthNew
  <2>7. count = TIMEOUT
    BY <2>6
  <2> QED BY <2>7 DEF OnTime, Clearing
<1> QED BY <1>1, ContractInvariant, PTL DEF SpecH, NoFalseAlarm

-----------------------------------------------------------------------------
(***************************************************************************)
(* One string from end to end: the power-on reset of fdu.v ends.           *)
(***************************************************************************)
LEMMA BoardConstants ==
  /\ SLEEP \in Nat /\ JITTER \in Nat /\ WRITE \in Nat /\ WRITE > 0 /\ ROUNDS \in Nat
  /\ TIMEOUT \in Nat /\ TIMEOUT > 0 /\ POR_TERMINAL_COUNT \in Nat
  BY SleepAssumption, JitterAssumption, WriteAssumption, RoundsAssumption,
     TimeoutAssumption, PorAssumption

\* A pin is written without disturbing the other two.
LEMMA PinWritten ==
  ASSUME pins \in Codes, NEW b \in 0..2, NEW v \in {0, 1}
  PROVE  SetPin(b, v) \in Codes
<1>1. 2^0 = 1 /\ 2^1 = 2 /\ 2^2 = 4
  OBVIOUS
<1>2. CASE b = 0
  BY <1>1, <1>2 DEF SetPin, Codes
<1>3. CASE b = 1
  BY <1>1, <1>3 DEF SetPin, Codes
<1>4. CASE b = 2
  BY <1>1, <1>4 DEF SetPin, Codes
<1> QED BY <1>2, <1>3, <1>4

LEMMA BitType ==
  ASSUME NEW k \in 0..255, NEW b \in 0..2
  PROVE  WdtBit(k, b) \in {0, 1}
<1>1. 2^0 = 1 /\ 2^1 = 2 /\ 2^2 = 4 /\ 2^3 = 8
  OBVIOUS
<1>2. CASE b = 0
  BY <1>1, <1>2 DEF WdtBit
<1>3. CASE b = 1
  BY <1>1, <1>3 DEF WdtBit
<1>4. CASE b = 2
  BY <1>1, <1>4 DEF WdtBit
<1> QED BY <1>2, <1>3, <1>4

\* The registers of the stroking task of fdu.c.
TaskTypeOK ==
  /\ pins \in Codes /\ pc \in {"head", "sleep", "loop", "write"}
  /\ wait \in 0..(2 * SLEEP + JITTER + WRITE)
  /\ i \in 0..255 /\ bit \in 0..2 /\ rounds \in 0..ROUNDS

\* The task keeps its variables in range, the wrapped loop variable included.
LEMMA BoardRunsType ==
  ASSUME TaskTypeOK, BoardRuns
  PROVE  TaskTypeOK'
<1> USE BoardConstants DEF TaskTypeOK
<1>1. CASE wait > 0 \/ fdu_mode = RUNAWAY
  <2>1. /\ wait' = IF fdu_mode = RUNAWAY THEN wait ELSE wait - 1
        /\ UNCHANGED <<pins, pc, i, bit, rounds>>
    BY <1>1 DEF BoardRuns
  <2> QED BY <1>1, <2>1
<1>2. CASE Head
  <2>1. Nap \in 0..(2 * SLEEP)
    BY DEF Nap
  <2> QED BY <1>2, <2>1 DEF Head
<1>3. CASE Awake
  BY <1>3 DEF Awake
<1>4. CASE LoopEnds
  BY <1>4 DEF LoopEnds
<1>5. CASE LoopSkips
  BY <1>5 DEF LoopSkips
<1>6. CASE LoopStrokes
  <2>1. FirstIndex(i) \in 0..255
    BY DEF FirstIndex
  <2> QED BY <1>6, <2>1 DEF LoopStrokes
<1>7. CASE WritePin
  <2>1. pins' \in Codes
    BY <1>7, PinWritten, BitType DEF WritePin
  <2>2. i' \in 0..255 /\ bit' \in 0..2 /\ pc' \in {"head", "sleep", "loop", "write"}
    BY <1>7 DEF WritePin
  <2>3. wait' \in 0..(2 * SLEEP + JITTER + WRITE) /\ rounds' \in 0..ROUNDS
    BY <1>7 DEF WritePin
  <2> QED BY <2>1, <2>2, <2>3
<1> QED BY <1>1, <1>2, <1>3, <1>4, <1>5, <1>6, <1>7 DEF BoardRuns

\* A power-on reset puts the task at its start.
LEMMA BoardResetsType ==
  ASSUME TaskTypeOK, BoardResets
  PROVE  TaskTypeOK'
BY BoardConstants DEF TaskTypeOK, BoardResets

\* A state entered while the pins rest is one the pins do not lead out of.
LEMMA StepSettles ==
  ASSUME NEW s \in WdtStates, NEW d \in Samples, FsmStep(s, d) \in 0..7
  PROVE  Gray[FsmStep(s, d)] = d
BY GrayTable DEF FsmStep, WdtStates, Succ, ZERO, SEVEN, IDLE, ERROR

\* An edge amid a power-on reset brings the watchdog nearer to giving up.
LEMMA InPorStep ==
  ASSUME StrokeInv, TypeOK', Edge, por, por', por_count < POR_TERMINAL_COUNT
  PROVE  InPor'
<1> USE BoardConstants DEF StrokeInv
<1>1. PICK in \in Inputs : Clock!(in)
  BY DEF Edge, Clock
<1>2. /\ pins' = pins /\ fdu_tri' = pins /\ fdu_d1' = fdu_tri /\ health_d1' = health
      /\ por_count' = por_count + 1 /\ por_count \in 0..(POR_TERMINAL_COUNT + 1)
  BY DEF Edge, BoardResets, PorCountNew, StrokeTypeOK
<1>3. /\ por_count >= 1 => fdu_tri = pins
      /\ por_count >= 2 => fdu_d1 = pins
      /\ por_count >= 3 => SettledOn(next_state)
      /\ por_count >= 4 => SettledOn(state)
      /\ por_count >= 5 => Starved \/ (~clear /\ count >= por_count - 5)
      /\ por_count >= TIMEOUT + 6 => Starved
  BY DEF InPor
<1>4. /\ state \in WdtStates /\ next_state \in WdtStates /\ fdu_d1 \in Samples
      /\ count \in 0..TIMEOUT /\ clear \in BOOLEAN /\ health \in BOOLEAN
  BY DEF TypeOK
<1> DEFINE ns == NextStateNew(count, state, fdu_d1)
<1>5. /\ next_state' = ns /\ state' = StateNew(count, Read(ns))
      /\ clear' = ClearNew(count, state, Read(ns)) /\ count' = CountNew(count, clear)
      /\ health' = HealthNew(count, state, health)
  BY <1>1
<1>6. por_count >= 2 => (ns \in 0..7 => Gray[ns] = pins)
  <2> SUFFICES ASSUME por_count >= 2, ns \in 0..7 PROVE Gray[ns] = pins
    OBVIOUS
  <2>1. ns = FsmStep(state, fdu_d1) /\ fdu_d1 = pins
    BY <1>3 DEF NextStateNew, IDLE
  <2> QED BY <2>1, <1>4, StepSettles
<1>7. por_count >= 3 => (Read(ns) \in 0..7 => Gray[Read(ns)] = pins)
  BY <1>2, <1>3, <1>6 DEF Read, SettledOn
<1>8. /\ por_count' >= 3 => SettledOn(next_state)'
      /\ por_count' >= 4 => SettledOn(state)'
  <2>1. state' \in 0..7 => state' = Read(ns)
    BY <1>5 DEF StateNew, ERROR
  <2> QED BY <1>2, <1>5, <1>6, <1>7, <2>1 DEF SettledOn
<1>9. count = TIMEOUT => Starved'
  <2> SUFFICES ASSUME count = TIMEOUT PROVE Starved'
    OBVIOUS
  <2>1. count >= TIMEOUT /\ ~(count < TIMEOUT)
    BY <1>4
  <2>2. state' = ERROR /\ next_state' = IDLE /\ ~health'
    BY <1>5, <2>1, Zenon DEF StateNew, NextStateNew, HealthNew
  <2> QED BY <2>2, Zenon DEF Starved
<1>10. por_count >= 4 /\ Starved => Starved'
  <2> SUFFICES ASSUME por_count >= 4, Starved PROVE Starved'
    OBVIOUS
  <2>1. /\ state \in {ERROR, IDLE, ZERO} /\ next_state \in {ERROR, IDLE, ZERO} /\ ~health
    BY DEF Starved
  <2>2. ~health'
    <3>1. state # SEVEN
      BY <2>1 DEF ERROR, IDLE, ZERO, SEVEN
    <3> QED BY <1>5, <2>1, <3>1, Zenon DEF HealthNew
  <2>3. fdu_d1 = pins /\ (state = ZERO => pins = 0)
    BY <1>2, <1>3, GrayTable DEF SettledOn, ZERO
  <2>4. FsmStep(state, fdu_d1) \in {IDLE, ZERO}
    BY <2>1, <2>3, GrayTable DEF FsmStep, ERROR, IDLE, ZERO
  <2>5. ns \in {IDLE, ZERO}
    BY <2>4 DEF NextStateNew
  <2>6. next_state' \in {ERROR, IDLE, ZERO} /\ state' \in {ERROR, IDLE, ZERO}
    BY <1>5, <2>1, <2>5 DEF StateNew, Read
  <2> QED BY <2>2, <2>6 DEF Starved
<1>11. por_count >= 4 /\ count < TIMEOUT => ~clear'
  <2> SUFFICES ASSUME por_count >= 4, count < TIMEOUT PROVE ~clear'
    OBVIOUS
  <2>1. ~(Read(ns) = SEVEN /\ state = SIX)
    BY <1>2, <1>3, <1>7, GrayTable DEF SettledOn, SEVEN, SIX
  <2>2. ~(count >= TIMEOUT)
    BY <1>4
  <2> QED BY <1>5, <2>1, <2>2, Zenon DEF ClearNew
<1>12. count < TIMEOUT => count' >= 0 /\ (~clear => count' = count + 1)
  BY <1>4, <1>5 DEF CountNew
<1>13. por_count' >= 5 => Starved' \/ (~clear' /\ count' >= por_count' - 5)
  <2> SUFFICES ASSUME por_count >= 4, count < TIMEOUT, ~Starved
               PROVE  ~clear' /\ count' >= por_count' - 5
    BY <1>2, <1>4, <1>9, <1>10
  <2>1. ~clear'
    BY <1>11
  <2>2. CASE por_count = 4
    BY <2>1, <2>2, <1>2, <1>12, <1>4
  <2>3. CASE por_count >= 5
    BY <2>1, <2>3, <1>2, <1>3, <1>12, <1>4
  <2> QED BY <2>2, <2>3, <1>2
<1>14. por_count' >= TIMEOUT + 6 => Starved'
  <2> SUFFICES ASSUME por_count >= TIMEOUT + 5 PROVE Starved'
    BY <1>2
  <2>1. Starved \/ count = TIMEOUT
    BY <1>2, <1>3, <1>4
  <2> QED BY <2>1, <1>2, <1>9, <1>10
<1>15. por_count' >= TIMEOUT + 7 => ~health_d1'
  BY <1>2, <1>3 DEF Starved
<1> QED BY <1>2, <1>3, <1>8, <1>13, <1>14, <1>15 DEF InPor

\* A clock edge keeps everything in range.
LEMMA EdgeKeepsStrokeInv ==
  ASSUME StrokeInv, Edge, POR_TERMINAL_COUNT >= TIMEOUT + 7
  PROVE  StrokeInv'
<1> USE BoardConstants
<1>1. TypeOK' /\ ~reset'
  <2>1. Clock
    BY DEF Edge
  <2>2. [Next]_vars
    BY <2>1 DEF Next
  <2>3. PICK in \in Inputs : Clock!(in)
    BY <2>1 DEF Clock
  <2> QED BY <2>2, <2>3, TypeStep DEF StrokeInv
<1>2. TaskTypeOK'
  <2>1. TaskTypeOK
    BY DEF StrokeInv, StrokeTypeOK, TaskTypeOK
  <2> QED BY <2>1, BoardRunsType, BoardResetsType DEF Edge
<1>3. fdu_mode' \in Modes /\ faulty' \in BOOLEAN
  BY DEF Edge, StrokeInv, StrokeTypeOK, Modes
<1>4. /\ fdu_tri' \in Codes /\ health_d1' \in BOOLEAN /\ por' \in BOOLEAN
  BY DEF Edge, StrokeInv, StrokeTypeOK, TypeOK, PorNew
<1>5. por_count' \in 0..(POR_TERMINAL_COUNT + 1)
  BY DEF Edge, StrokeInv, StrokeTypeOK, InPor, PorCountNew
<1>6. InPor'
  <2>1. CASE ~por
    <3>1. por_count' = 0
      BY <2>1 DEF Edge, PorCountNew
    <3> QED BY <3>1 DEF InPor
  <2>2. CASE por /\ por_count < POR_TERMINAL_COUNT
    <3>1. CASE por'
      BY <2>2, <3>1, <1>1, InPorStep
    <3>2. CASE ~por'
      BY <3>2 DEF InPor
    <3> QED BY <3>1, <3>2
  <2>3. CASE por /\ ~(por_count < POR_TERMINAL_COUNT)
    <3>1. por_count >= TIMEOUT + 7
      BY <2>3 DEF StrokeInv, StrokeTypeOK
    <3>2. ~health_d1
      BY <2>3, <3>1 DEF StrokeInv, InPor
    <3>3. ~por'
      BY <2>3, <3>2, Zenon DEF Edge, PorNew
    <3> QED BY <3>3 DEF InPor
  <2> QED BY <2>1, <2>2, <2>3
<1> QED BY <1>1, <1>2, <1>3, <1>4, <1>5, <1>6 DEF StrokeInv, StrokeTypeOK, TaskTypeOK

LEMMA InjectorKeepsStrokeInv ==
  ASSUME StrokeInv, NEW err \in ErrorCodes, ErrorInjector(err)
  PROVE  StrokeInv'
<1>1. UNCHANGED <<vars, task, fdu_tri, health_d1, por, por_count>>
  BY DEF ErrorInjector
<1>2. fdu_mode' \in Modes /\ faulty' \in BOOLEAN
  BY DEF ErrorInjector, Injected, Modes, StrokeInv, StrokeTypeOK
<1>3. UNCHANGED vars /\ TypeOK' /\ ~reset'
  BY <1>1, TypeStep DEF StrokeInv, vars
<1>4. InPor'
  BY <1>1, <1>3 DEF StrokeInv, InPor, SettledOn, Starved, vars, task
<1> QED BY <1>1, <1>2, <1>3, <1>4 DEF StrokeInv, StrokeTypeOK, task

LEMMA StrokeInvInit == InitS => StrokeInv
<1> SUFFICES ASSUME InitS PROVE StrokeInv
  OBVIOUS
<1>1. TypeOK /\ ~reset
  BY TypeInit, Zenon DEF InitS
<1>2. 0 \in 0..(POR_TERMINAL_COUNT + 1) /\ 0 \in 0..(2 * SLEEP + JITTER + WRITE)
  BY BoardConstants
<1>3. 0 \in Codes /\ 0 \in 0..255 /\ 0 \in 0..2 /\ 0 \in 0..ROUNDS /\ NORMAL \in Modes
  BY BoardConstants DEF Codes, Modes
<1>4. StrokeTypeOK /\ InPor
  BY <1>2, <1>3, Zenon DEF InitS, StrokeTypeOK, InPor
<1> QED BY <1>1, <1>4 DEF StrokeInv

LEMMA StrokeInvStep ==
  ASSUME POR_TERMINAL_COUNT >= TIMEOUT + 7, StrokeInv, [NextS]_allVars
  PROVE  StrokeInv'
<1>1. CASE Edge
  BY <1>1, EdgeKeepsStrokeInv
<1>2. CASE \E err \in ErrorCodes : ErrorInjector(err)
  BY <1>2, InjectorKeepsStrokeInv
<1>3. CASE UNCHANGED allVars
  BY <1>3 DEF StrokeInv, StrokeTypeOK, TypeOK, InPor, SettledOn, Starved, allVars, vars, task
<1> QED BY <1>1, <1>2, <1>3 DEF NextS

\* A power-on reset of fdu.v is over when por_count has reached its end: it is
\* never taken up again there, because a board in reset holds the pins that
\* stroke_wdt of fdu.c writes still, and the watchdog has given it up before.
\* So por_count never leaves its range, and neither does the loop variable of
\* stroke_wdt, which the out-of-order mode takes below zero.  The only thing
\* asked of the FPGA is that a power-on reset outlasts the watchdog's timeout.
THEOREM StrokeTypeCorrect ==
  ASSUME POR_TERMINAL_COUNT >= TIMEOUT + 7
  PROVE  SpecS => []StrokeTypeOK
<1>1. StrokeInv => StrokeTypeOK
  BY DEF StrokeInv
<1> QED BY <1>1, StrokeInvInit, StrokeInvStep, PTL DEF SpecS

\* A board that fdu.v holds in reset is out of health in time, and stays so: what
\* Fdu assumes of its watchdogs (WatchdogsReport), with TIMEOUT + 5 for Drain.
Drained == [][por /\ por_count > TIMEOUT + 5 => ~health']_allVars

\* The assumption on which Fdu rests holds of the watchdog and the board behind
\* it: por_count of fdu.v does not get further than TIMEOUT + 5 while wdt.v still
\* reports health, whatever stroke_wdt and the error modes of fdu.c did before.
THEOREM StrokeDrained ==
  ASSUME POR_TERMINAL_COUNT >= TIMEOUT + 7
  PROVE  SpecS => Drained
<1>1. StrokeInv /\ [NextS]_allVars => [por /\ por_count > TIMEOUT + 5 => ~health']_allVars
  <2> SUFFICES ASSUME StrokeInv, NextS, por, por_count > TIMEOUT + 5 PROVE ~health'
    OBVIOUS
  <2>1. por_count >= TIMEOUT + 6
    BY BoardConstants DEF StrokeInv, StrokeTypeOK
  <2>2. Starved
    BY <2>1 DEF StrokeInv, InPor
  <2>3. ~health /\ state # SEVEN
    BY <2>2 DEF Starved, ERROR, IDLE, ZERO, SEVEN
  <2>4. health' = HealthNew(count, state, health)
    BY DEF NextS, ErrorInjector, Edge, Clock
  <2> QED BY <2>3, <2>4, Zenon DEF HealthNew
<1> QED BY <1>1, StrokeInvInit, StrokeInvStep, PTL DEF SpecS, Drained

-----------------------------------------------------------------------------
(***************************************************************************)
(* One string from end to end: a board that strokes is not reset.  The     *)
(* inductive invariant behind NoFalseReset, when next_state is a           *)
(* flip-flop, a write takes six edges or more, and a nap with 35 writes is *)
(* shorter than TIMEOUT.  All of it is about a board that runs and has not *)
(* been disturbed.                                                         *)
(***************************************************************************)
\* The code before a code, and the pin that changes when code k is written.
Prev == [d \in 0..7 |-> <<4, 0, 3, 1, 5, 7, 2, 6>>[d + 1]]
Flip == [k \in 0..7 |-> <<2, 0, 1, 0, 2, 0, 1, 0>>[k + 1]]

\* Edges a code takes, and the most from the last code of a round to the loop.
CodeTime == 1 + 3 * WRITE
NapTime == 3 * WRITE + 2 + SLEEP + JITTER

\* Where in a round the task is.  The first codes after boot come in any order.
InLoop == pc \in {"loop", "write"}
First == rounds <= 1 /\ i = 0
Last  == pc = "write" /\ i = 7 /\ bit = 1
Tail  == (pc = "write" /\ i = 7 /\ bit = 2) \/ (pc = "loop" /\ i = 8) \/ (pc = "head" /\ rounds > 0)
Front == rounds > 1 /\ (pc = "sleep" \/ (InLoop /\ i = 0))
One   == InLoop /\ i = 1
Mid   == InLoop /\ i \in 2..7 /\ ~Tail

\* Edges, at most, since the last code of a round was written; the count starts
\* again with the write after it, when the watchdog has noticed.
Lap ==
  IF pc = "write" /\ i = 7 /\ bit = 2 THEN 2 * WRITE - 1 - wait
  ELSE IF pc = "loop" /\ i = 8 THEN 3 * WRITE - 1 - wait
  ELSE IF pc = "head" THEN 3 * WRITE
  ELSE IF pc = "sleep" THEN NapTime - 1 - wait
  ELSE NapTime + i * CodeTime + (IF pc = "write" THEN 1 + bit * WRITE ELSE 0) - wait

Place ==
  /\ pc = "head" => wait = 0 /\ bit = 0 /\ (IF rounds = 0 THEN i = 0 ELSE i = 8)
  /\ pc = "sleep" => /\ wait <= SLEEP + JITTER /\ bit = 0 /\ rounds > 0
                     /\ IF rounds = 1 THEN i = 0 ELSE i = 8
  /\ InLoop => wait < WRITE /\ rounds > 0
  /\ pc = "loop" => i <= 8 /\ bit = 0 /\ (i = 0 => wait = 0)
  /\ pc = "write" => i <= 7 /\ (bit = 0 => wait = 0)

\* The pins rest between two writes, and the watchdog comes to rest with them.
Resting ==
  /\ InLoop => /\ wait <= WRITE - 2 => fdu_tri = pins
               /\ wait <= WRITE - 3 => fdu_d1 = pins
               /\ wait <= WRITE - 4 => SettledOn(next_state)
               /\ wait <= WRITE - 5 => SettledOn(state)
  /\ pc = "sleep" => /\ fdu_tri = pins
                     /\ wait <= SLEEP - 1 => fdu_d1 = pins
                     /\ wait <= SLEEP - 2 => SettledOn(next_state)
                     /\ wait <= SLEEP - 3 => SettledOn(state)
  /\ Tail \/ Front => /\ pins = 4 /\ fdu_tri = 4 /\ fdu_d1 = 4
                      /\ SettledOn(next_state) /\ SettledOn(state)

\* After the first code of the first round the pins carry the codes in order.
Coded ==
  /\ First /\ pc = "write" /\ bit > 0 => pins \in IF bit = 1 THEN {0, 2, 4, 6} ELSE {0, 4}
  /\ One \/ Mid =>
       pins = IF pc = "write" /\ bit > Flip[i] THEN Gray[i] ELSE Gray[i - 1]

\* Each register is at most one code behind the one before it.
Linked ==
  One \/ Mid =>
    /\ pins # fdu_tri => fdu_tri = Prev[pins] /\ fdu_d1 = fdu_tri
    /\ fdu_tri # fdu_d1 => fdu_d1 = Prev[fdu_tri]
    /\ next_state \in 0..7 =>
         Gray[next_state] = fdu_d1 \/ (Gray[next_state] = Prev[fdu_d1] /\ fdu_tri = fdu_d1)
    /\ state \in 0..7 => Gray[state] \in {fdu_d1, Prev[fdu_d1]}

\* Codes that have passed.
Passed ==
  /\ One => SIX \notin {state, next_state}
  /\ Mid => /\ 0 \notin {fdu_tri, fdu_d1}
            /\ ~Last => 4 \notin {fdu_tri, fdu_d1}

\* A round that begins undisturbed is not torn: no timeout is near.
Early == Tail \/ Front \/ (One /\ rounds > 1) => count <= Lap + 8 * CodeTime

\* Both state machines are in the cycle, or a timeout has come since it began.
Both == state \in 0..7 /\ next_state \in 0..7
Torn == count <= Lap - NapTime \/ count = TIMEOUT

Joined ==
  /\ One /\ (pc = "write" \/ wait <= WRITE - 4) =>
       next_state \in 0..7 \/ (rounds = 1 /\ Torn)
  /\ One /\ (pc = "write" \/ wait <= WRITE - 5) => Both \/ (rounds = 1 /\ Torn)
  /\ Mid => Both \/ Torn

\* The edges after the last code: from the pins to the counter.
Ending ==
  Last =>
    /\ wait = WRITE - 1 => fdu_tri = 5
    /\ wait >= WRITE - 2 => fdu_d1 = 5
    /\ wait >= WRITE - 3 => next_state # SEVEN
    /\ wait >= WRITE - 4 => state # SEVEN
    /\ wait = WRITE - 5 /\ count = TIMEOUT => clear
    /\ wait <= WRITE - 6 => count # TIMEOUT
    /\ Both /\ state = SEVEN => clear \/ count <= WRITE - 1 - wait

\* From the second round on the state machines are in the cycle together or not
\* at all, and from the third on health rests on a counter that is in time.
Paired ==
  /\ (rounds > 1 /\ (Mid \/ Tail)) \/ (rounds > 2 /\ Front) =>
       /\ state \in 0..7 <=> next_state \in 0..7
       /\ health => Both
  /\ (rounds > 1 /\ Tail) \/ (rounds > 2 /\ Front) => (state = SEVEN => count <= Lap)
  /\ rounds > 2 /\ One /\ (health \/ SEVEN \in {state, next_state}) => Both /\ count <= Lap
  /\ rounds > 2 /\ Mid /\ health => count <= Lap
  /\ rounds > 2 /\ health_d1 => health

Undisturbed ==
  /\ fdu_mode \notin StrokeFaults
  /\ Place /\ Resting /\ Coded /\ Linked /\ Passed /\ Early /\ Joined /\ Ending /\ Paired

CalmInv ==
  /\ por => pc = "head" /\ wait = 0 /\ i = 0 /\ bit = 0 /\ rounds = 0 /\ ~faulty /\ fdu_mode = NORMAL
  /\ ~por /\ ~faulty => Undisturbed

\* What the proof asks of the times of fdu.c and wdt.v: a write takes six edges of
\* the 50 MHz clock, a nap four (Sleep(100): 5000000), and a nap with 35 writes is
\* shorter than the timeout (6500000), which leaves 30 ms for writes and jitter.
InGoodTime ==
  /\ WRITE >= 6 /\ SLEEP >= 4
  /\ TIMEOUT > SLEEP + JITTER + 35 * WRITE

CalmTypeOK ==
  /\ TypeOK /\ ~reset /\ TaskTypeOK
  /\ fdu_tri \in Codes /\ health_d1 \in BOOLEAN /\ por \in BOOLEAN
  /\ fdu_mode \in Modes /\ faulty \in BOOLEAN

\* The steps of stroke_wdt when no error mode concerns it.
Waits ==
  /\ wait > 0 /\ wait' = wait - 1
  /\ UNCHANGED <<pins, pc, i, bit, rounds>>

Naps ==
  /\ wait = 0 /\ pc = "head" /\ pc' = "sleep" /\ wait' \in SLEEP..(SLEEP + JITTER)
  /\ rounds' = IF rounds < ROUNDS THEN rounds + 1 ELSE rounds
  /\ UNCHANGED <<pins, i, bit>>

Wakes ==
  /\ wait = 0 /\ pc = "sleep" /\ pc' = "loop" /\ i' = 0
  /\ UNCHANGED <<pins, wait, bit, rounds>>

Ends ==
  /\ wait = 0 /\ pc = "loop" /\ i = 8 /\ pc' = "head"
  /\ UNCHANGED <<pins, wait, i, bit, rounds>>

Strokes ==
  /\ wait = 0 /\ pc = "loop" /\ i < 8 /\ pc' = "write" /\ bit' = 0
  /\ UNCHANGED <<pins, wait, i, rounds>>

Writes ==
  /\ wait = 0 /\ pc = "write" /\ wait' = WRITE - 1
  /\ pins' = SetPin(bit, WdtBit(i, bit))
  /\ bit < 2 => bit' = bit + 1 /\ pc' = "write" /\ i' = i
  /\ bit = 2 => bit' = 0 /\ pc' = "loop" /\ i' = i + 1
  /\ rounds' = rounds

CalmRun == Waits \/ Naps \/ Wakes \/ Ends \/ Strokes \/ Writes

LEMMA RunIsCalm ==
  ASSUME CalmTypeOK, Place, fdu_mode \notin StrokeFaults, BoardRuns
  PROVE  CalmRun
<1> USE BoardConstants DEF CalmTypeOK, TaskTypeOK, Place, InLoop
<1>1. fdu_mode \notin {STUCK, OUT_OF_ORDER, SLOW, RUNAWAY}
  BY DEF StrokeFaults
<1>2. CASE wait > 0
  BY <1>1, <1>2 DEF BoardRuns, CalmRun, Waits
<1>3. CASE wait = 0
  <2>1. Head \/ Awake \/ LoopEnds \/ LoopSkips \/ LoopStrokes \/ WritePin
    BY <1>1, <1>3 DEF BoardRuns
  <2>2. CASE Head
    BY <1>1, <1>3, <2>2 DEF Head, Nap, CalmRun, Naps
  <2>3. CASE Awake
    BY <1>3, <2>3 DEF Awake, CalmRun, Wakes
  <2>4. CASE LoopEnds
    BY <1>3, <2>4 DEF LoopEnds, CalmRun, Ends
  <2>5. CASE LoopSkips
    BY <1>1, <2>5 DEF LoopSkips
  <2>6. CASE LoopStrokes
    BY <1>1, <1>3, <2>6 DEF LoopStrokes, FirstIndex, CalmRun, Strokes
  <2>7. CASE WritePin
    <3>1. pc = "write" /\ i <= 7
      BY <2>7 DEF WritePin
    <3>2. (i + 1) % 256 = i + 1
      BY <3>1
    <3> QED BY <1>3, <2>7, <3>1, <3>2 DEF WritePin, CalmRun, Writes
  <2> QED BY <2>1, <2>2, <2>3, <2>4, <2>5, <2>6, <2>7
<1> QED BY <1>2, <1>3

\* What a clock edge does to the watchdog as it is synthesised.
LEMMA EdgeFacts ==
  ASSUME ReadOrder = "old", CalmTypeOK, Edge
  PROVE  /\ fdu_tri' = pins /\ fdu_d1' = fdu_tri /\ health_d1' = health
         /\ count < TIMEOUT => state' = next_state /\ next_state' = FsmStep(state, fdu_d1)
         /\ count = TIMEOUT => state' = ERROR /\ next_state' = IDLE /\ clear' /\ ~health'
         /\ next_state = SEVEN /\ state = SIX => clear'
         /\ clear => count' = 0
         /\ ~clear /\ count < TIMEOUT => count' = count + 1
         /\ ~clear /\ count = TIMEOUT => count' = TIMEOUT
         /\ health' => state = SEVEN \/ (health /\ state \in 0..7)
         /\ count < TIMEOUT /\ health /\ state \in 0..7 => health'
<1> USE TimeoutAssumption DEF CalmTypeOK
<1>1. PICK in \in Inputs : Clock!(in)
  BY DEF Edge, Clock
<1>2. fdu_tri' = pins /\ fdu_d1' = fdu_tri /\ health_d1' = health
  BY DEF Edge
<1>3. count < TIMEOUT => state' = next_state /\ next_state' = FsmStep(state, fdu_d1)
  BY <1>1 DEF StateNew, Read, NextStateNew, TypeOK
<1>4. count = TIMEOUT => state' = ERROR /\ next_state' = IDLE /\ clear' /\ ~health'
  <2> SUFFICES ASSUME count = TIMEOUT
               PROVE  state' = ERROR /\ next_state' = IDLE /\ clear' /\ ~health'
    OBVIOUS
  <2>1. count >= TIMEOUT /\ ~(count < TIMEOUT)
    BY DEF TypeOK
  <2> QED BY <1>1, <2>1, Zenon DEF StateNew, NextStateNew, ClearNew, HealthNew
<1>5. next_state = SEVEN /\ state = SIX => clear'
  BY <1>1, Zenon DEF ClearNew, Read
<1>6. /\ clear => count' = 0
      /\ ~clear /\ count < TIMEOUT => count' = count + 1
      /\ ~clear /\ count = TIMEOUT => count' = TIMEOUT
  BY <1>1 DEF CountNew, TypeOK
<1>7. state \in 0..7 <=> state \notin {IDLE, ERROR}
  BY DEF TypeOK, WdtStates, IDLE, ERROR
<1>8. /\ health' => state = SEVEN \/ (health /\ state \in 0..7)
      /\ count < TIMEOUT /\ health /\ state \in 0..7 => health'
  BY <1>1, <1>7, Zenon DEF HealthNew
<1> QED BY <1>2, <1>3, <1>4, <1>5, <1>6, <1>8

\* The type invariant, without the power-on reset's counter.
LEMMA CalmTypeStep ==
  ASSUME CalmTypeOK, [NextS]_allVars
  PROVE  CalmTypeOK'
<1> USE DEF CalmTypeOK
<1>1. CASE Edge
  <2>1. Clock
    BY <1>1 DEF Edge
  <2>2. PICK in \in Inputs : Clock!(in)
    BY <2>1 DEF Clock
  <2>3. TypeOK' /\ ~reset'
    BY <2>1, <2>2, TypeStep DEF Next
  <2>4. TaskTypeOK'
    BY <1>1, BoardRunsType, BoardResetsType DEF Edge
  <2>5. fdu_mode' \in Modes /\ faulty' \in BOOLEAN
    BY <1>1 DEF Edge, Modes
  <2>6. fdu_tri' \in Codes /\ health_d1' \in BOOLEAN /\ por' \in BOOLEAN
    BY <1>1 DEF Edge, TaskTypeOK, TypeOK, PorNew
  <2> QED BY <2>3, <2>4, <2>5, <2>6
<1>2. CASE \E err \in ErrorCodes : ErrorInjector(err)
  <2>1. PICK err \in ErrorCodes : ErrorInjector(err)
    BY <1>2
  <2>2. UNCHANGED <<vars, task, fdu_tri, health_d1, por, por_count>>
    BY <2>1 DEF ErrorInjector
  <2>3. fdu_mode' \in Modes /\ faulty' \in BOOLEAN
    BY <2>1 DEF ErrorInjector, Injected, Modes
  <2>4. UNCHANGED vars /\ TypeOK' /\ ~reset'
    BY <2>2, TypeStep DEF vars
  <2> QED BY <2>2, <2>3, <2>4 DEF TaskTypeOK, task
<1>3. CASE UNCHANGED allVars
  BY <1>3, TypeStep DEF allVars, vars, task, TaskTypeOK
<1> QED BY <1>1, <1>2, <1>3 DEF NextS

-----------------------------------------------------------------------------
\* The codes in a circle.
LEMMA PrevTable ==
  /\ Prev[0] = 4 /\ Prev[1] = 0 /\ Prev[2] = 3 /\ Prev[3] = 1
  /\ Prev[4] = 5 /\ Prev[5] = 7 /\ Prev[6] = 2 /\ Prev[7] = 6
BY DEF Prev

LEMMA FlipTable ==
  /\ Flip[0] = 2 /\ Flip[1] = 0 /\ Flip[2] = 1 /\ Flip[3] = 0
  /\ Flip[4] = 2 /\ Flip[5] = 0 /\ Flip[6] = 1 /\ Flip[7] = 0
BY DEF Flip

\* A state machine one code behind the pins, or abreast of them, stays in the cycle.
LEMMA StaysInCycle ==
  ASSUME NEW s \in 0..7, NEW d \in Codes, Gray[s] \in {d, Prev[d]}
  PROVE  FsmStep(s, d) \in 0..7
<1>1. Gray[s] = d => FsmStep(s, d) = s
  BY DEF FsmStep
<1>2. Gray[s] = Prev[d] => d = Gray[Succ(s)] /\ Succ(s) \in 0..7
  BY GrayTable, PrevTable DEF Codes, Succ, SEVEN, ZERO
<1> QED BY <1>1, <1>2 DEF FsmStep

\* Outside the cycle a state machine stays outside, until 000 comes.
LEMMA StaysOut ==
  ASSUME NEW s \in WdtStates, s \notin 0..7, NEW d \in Codes, d # 0
  PROVE  FsmStep(s, d) \notin 0..7
BY GrayTable DEF FsmStep, WdtStates, ZERO, IDLE, ERROR

\* The states, by the code they are for.
LEMMA StateOfCode ==
  ASSUME NEW s \in 0..7
  PROVE  /\ Gray[s] = 4 <=> s = SEVEN
         /\ Gray[s] = 5 <=> s = SIX
         /\ Gray[s] = 0 <=> s = ZERO
BY GrayTable DEF SEVEN, SIX, ZERO

\* The three writes of a code: the one that changes a pin is number Flip[k].
Shown(k, b) == IF b > Flip[k] THEN Gray[k] ELSE Gray[k - 1]

LEMMA PinSteps ==
  ASSUME pins \in Codes, NEW k \in 1..7, NEW b \in 0..2, pins = Shown(k, b)
  PROVE  SetPin(b, WdtBit(k, b)) = Shown(k, b + 1)
<1> USE GrayTable, FlipTable DEF SetPin, WdtBit, Shown
<1>0. 2^0 = 1 /\ 2^1 = 2 /\ 2^2 = 4 /\ 2^3 = 8
  OBVIOUS
<1>1. CASE b = 0
  <2>1. CASE k = 1 BY <1>0, <1>1, <2>1
  <2>2. CASE k = 2 BY <1>0, <1>1, <2>2
  <2>3. CASE k = 3 BY <1>0, <1>1, <2>3
  <2>4. CASE k = 4 BY <1>0, <1>1, <2>4
  <2>5. CASE k = 5 BY <1>0, <1>1, <2>5
  <2>6. CASE k = 6 BY <1>0, <1>1, <2>6
  <2>7. CASE k = 7 BY <1>0, <1>1, <2>7
  <2> QED BY <2>1, <2>2, <2>3, <2>4, <2>5, <2>6, <2>7
<1>2. CASE b = 1
  <2>1. CASE k = 1 BY <1>0, <1>2, <2>1
  <2>2. CASE k = 2 BY <1>0, <1>2, <2>2
  <2>3. CASE k = 3 BY <1>0, <1>2, <2>3
  <2>4. CASE k = 4 BY <1>0, <1>2, <2>4
  <2>5. CASE k = 5 BY <1>0, <1>2, <2>5
  <2>6. CASE k = 6 BY <1>0, <1>2, <2>6
  <2>7. CASE k = 7 BY <1>0, <1>2, <2>7
  <2> QED BY <2>1, <2>2, <2>3, <2>4, <2>5, <2>6, <2>7
<1>3. CASE b = 2
  <2>1. CASE k = 1 BY <1>0, <1>3, <2>1
  <2>2. CASE k = 2 BY <1>0, <1>3, <2>2
  <2>3. CASE k = 3 BY <1>0, <1>3, <2>3
  <2>4. CASE k = 4 BY <1>0, <1>3, <2>4
  <2>5. CASE k = 5 BY <1>0, <1>3, <2>5
  <2>6. CASE k = 6 BY <1>0, <1>3, <2>6
  <2>7. CASE k = 7 BY <1>0, <1>3, <2>7
  <2> QED BY <2>1, <2>2, <2>3, <2>4, <2>5, <2>6, <2>7
<1> QED BY <1>1, <1>2, <1>3

LEMMA ShownTable ==
  ASSUME NEW k \in 1..7
  PROVE  /\ Shown(k, 0) = Gray[k - 1] /\ Shown(k, 3) = Gray[k]
         /\ \A b \in 0..3 : Shown(k, b) \in {Gray[k - 1], Gray[k]}
         /\ Prev[Gray[k]] = Gray[k - 1]
         /\ \A b \in 1..3 : Shown(7, b) = 4
         /\ \A b \in 1..3 : Shown(1, b) = 1
BY GrayTable, FlipTable, PrevTable DEF Shown

\* The code 000, written over whatever the pins show.
LEMMA FirstPinSteps ==
  ASSUME pins \in Codes
  PROVE  /\ SetPin(0, WdtBit(0, 0)) \in {0, 2, 4, 6}
         /\ pins \in {0, 2, 4, 6} => SetPin(1, WdtBit(0, 1)) \in {0, 4}
         /\ pins \in {0, 4} => SetPin(2, WdtBit(0, 2)) = 0
         /\ pins = 4 => SetPin(0, WdtBit(0, 0)) = 4 /\ SetPin(1, WdtBit(0, 1)) = 4
<1>1. 2^0 = 1 /\ 2^1 = 2 /\ 2^2 = 4 /\ 2^3 = 8
  OBVIOUS
<1>2. WdtBit(0, 0) = 0 /\ WdtBit(0, 1) = 0 /\ WdtBit(0, 2) = 0
  BY <1>1 DEF WdtBit
<1> QED BY <1>1, <1>2 DEF SetPin, Codes

-----------------------------------------------------------------------------
\* The task keeps to its places.
LEMMA PlaceStep ==
  ASSUME InGoodTime, ROUNDS >= 3, CalmTypeOK, Place, CalmRun
  PROVE  Place'
<1> USE BoardConstants DEF InGoodTime, CalmTypeOK, TaskTypeOK, Place, InLoop
<1>1. CASE Waits
  BY <1>1 DEF Waits
<1>2. CASE Naps
  BY <1>2 DEF Naps
<1>3. CASE Wakes
  BY <1>3 DEF Wakes
<1>4. CASE Ends
  BY <1>4 DEF Ends
<1>5. CASE Strokes
  BY <1>5 DEF Strokes
<1>6. CASE Writes
  BY <1>6 DEF Writes
<1> QED BY <1>1, <1>2, <1>3, <1>4, <1>5, <1>6 DEF CalmRun

\* The writes with which one part of a round gives way to the next.
Turn     == Last /\ wait = 0
EnterOne == pc = "write" /\ i = 0 /\ bit = 2 /\ wait = 0
EnterMid == pc = "write" /\ i = 1 /\ bit = 2 /\ wait = 0
EnterLast == pc = "write" /\ i = 7 /\ bit = 0 /\ wait = 0

LEMMA PhaseStep ==
  ASSUME InGoodTime, CalmTypeOK, Place, CalmRun
  PROVE  /\ Tail' => Tail \/ (Turn /\ Writes)
         /\ Front' => (Front /\ ~EnterOne) \/ (pc = "head" /\ Tail /\ rounds' <= rounds + 1)
         /\ One' => (One /\ ~EnterMid) \/ (EnterOne /\ Writes)
         /\ Mid' => (Mid /\ ~Turn) \/ (EnterMid /\ Writes)
         /\ Last' => (Last /\ Waits) \/ (EnterLast /\ Writes)
         /\ pc # "head" => rounds' = rounds
<1> USE BoardConstants DEF InGoodTime, CalmTypeOK, TaskTypeOK, Place, InLoop,
      Tail, Front, One, Mid, Last, Turn, EnterOne, EnterMid, EnterLast
<1>1. CASE Waits
  BY <1>1 DEF Waits
<1>2. CASE Naps
  BY <1>2 DEF Naps
<1>3. CASE Wakes
  BY <1>3 DEF Wakes
<1>4. CASE Ends
  BY <1>4 DEF Ends
<1>5. CASE Strokes
  BY <1>5 DEF Strokes
<1>6. CASE Writes
  BY <1>6 DEF Writes
<1> QED BY <1>1, <1>2, <1>3, <1>4, <1>5, <1>6 DEF CalmRun

\* Lap is a number.
LEMMA LapValue ==
  ASSUME CalmTypeOK
  PROVE  Lap \in Int /\ CodeTime \in Nat /\ NapTime \in Nat
<1> USE BoardConstants DEF CalmTypeOK, TaskTypeOK
<1>1. CodeTime \in Nat /\ NapTime \in Nat
  BY DEF CodeTime, NapTime
<1>2. i * CodeTime \in Int /\ bit * WRITE \in Int
  BY <1>1
<1> QED BY <1>1, <1>2 DEF Lap

LEMMA OneMore ==
  ASSUME NEW k \in Int, NEW m \in Int
  PROVE  (k + 1) * m = k * m + m
OBVIOUS

LEMMA NapLength ==
  ASSUME NEW w \in Int, w <= SLEEP + JITTER
  PROVE  NapTime - 1 - w >= 3 * WRITE + 1
BY BoardConstants DEF NapTime

\* Every edge counts, except where the lap ends.
LEMMA LapStep ==
  ASSUME InGoodTime, CalmTypeOK, Place, CalmRun
  PROVE  /\ ~Turn => Lap' >= Lap + 1
         /\ Turn => Lap' = WRITE
<1> USE BoardConstants DEF InGoodTime, CalmTypeOK, TaskTypeOK, Place, InLoop, Turn, Last
<1>0. CodeTime \in Nat /\ NapTime \in Nat /\ i * CodeTime \in Int /\ bit * WRITE \in Int
  BY DEF CodeTime, NapTime
<1>1. CASE Waits
  <2>1. i' * CodeTime = i * CodeTime /\ bit' * WRITE = bit * WRITE
    BY <1>1 DEF Waits
  <2> QED BY <1>0, <1>1, <2>1 DEF Waits, Lap
<1>2. CASE Naps
  <2>1. wait' \in Int /\ wait' <= SLEEP + JITTER /\ ~Turn
    BY <1>2 DEF Naps
  <2>2. Lap = 3 * WRITE
    BY <1>2 DEF Naps, Lap
  <2>3. Lap' = NapTime - 1 - wait'
    BY <1>2 DEF Naps, Lap
  <2>4. NapTime - 1 - wait' >= 3 * WRITE + 1
    BY <2>1, NapLength
  <2> QED BY <2>1, <2>2, <2>3, <2>4
<1>3. CASE Wakes
  <2>1. i' * CodeTime = 0
    BY <1>0, <1>3 DEF Wakes
  <2> QED BY <1>0, <1>3, <2>1 DEF Wakes, Lap
<1>4. CASE Ends
  BY <1>0, <1>4 DEF Ends, Lap
<1>5. CASE Strokes
  <2>1. i' * CodeTime = i * CodeTime /\ bit' * WRITE = 0
    BY <1>0, <1>5 DEF Strokes
  <2> QED BY <1>0, <1>5, <2>1 DEF Strokes, Lap
<1>6. CASE Writes /\ bit < 2
  <2>1. i' * CodeTime = i * CodeTime
    BY <1>6 DEF Writes
  <2>2. bit' * WRITE = bit * WRITE + WRITE
    BY <1>6, OneMore DEF Writes
  <2> QED BY <1>0, <1>6, <2>1, <2>2 DEF Writes, Lap
<1>7. CASE Writes /\ bit = 2
  <2>1. i' * CodeTime = i * CodeTime + CodeTime
    BY <1>0, <1>7, OneMore DEF Writes
  <2>2. bit * WRITE = 2 * WRITE
    BY <1>7
  <2> QED BY <1>0, <1>7, <2>1, <2>2 DEF Writes, Lap, CodeTime
<1> QED BY <1>1, <1>2, <1>3, <1>4, <1>5, <1>6, <1>7 DEF CalmRun

\* How long a lap may be.
LEMMA LapBounds ==
  ASSUME InGoodTime, CalmTypeOK, Place
  PROVE  /\ Tail \/ Front \/ One => Lap >= 0 /\ Lap + 8 * CodeTime < TIMEOUT
         /\ One \/ Mid => /\ Lap >= NapTime /\ Lap >= WRITE
                          /\ Lap - NapTime + 1 < TIMEOUT /\ Lap + 1 < TIMEOUT
         /\ Turn => Lap - NapTime + 1 <= WRITE + 8 * CodeTime
<1> USE BoardConstants DEF InGoodTime, CalmTypeOK, TaskTypeOK, Place, InLoop
<1>1. CodeTime \in Nat /\ NapTime \in Nat /\ i * CodeTime \in Int /\ bit * WRITE \in Int
  BY DEF CodeTime, NapTime
<1>2. bit * WRITE \in {0, WRITE, 2 * WRITE} /\ (bit > 0 => bit * WRITE >= WRITE)
  <2>1. CASE bit = 0 BY <2>1
  <2>2. CASE bit = 1 BY <2>2
  <2>3. CASE bit = 2 BY <2>3
  <2> QED BY <2>1, <2>2, <2>3
<1>3. /\ Tail \/ Front => Lap >= 0 /\ Lap + 8 * CodeTime < TIMEOUT
  <2>1. i = 0 => i * CodeTime = 0
    BY <1>1
  <2> QED BY <1>1, <1>2, <2>1 DEF Tail, Front, Lap, CodeTime, NapTime
<1>4. One \/ Mid => i * CodeTime >= CodeTime /\ i * CodeTime <= 7 * CodeTime
  <2>1. i \in 1..7 => i * CodeTime >= CodeTime /\ i * CodeTime <= 7 * CodeTime
    <3>1. CASE i = 1 BY <1>1, <3>1
    <3>2. CASE i = 2 BY <1>1, <3>2
    <3>3. CASE i = 3 BY <1>1, <3>3
    <3>4. CASE i = 4 BY <1>1, <3>4
    <3>5. CASE i = 5 BY <1>1, <3>5
    <3>6. CASE i = 6 BY <1>1, <3>6
    <3>7. CASE i = 7 BY <1>1, <3>7
    <3> QED BY <3>1, <3>2, <3>3, <3>4, <3>5, <3>6, <3>7
  <2> QED BY <2>1 DEF One, Mid
<1>5. One => i * CodeTime = CodeTime
  BY <1>1 DEF One
<1>6. One \/ Mid => Lap = NapTime + i * CodeTime + (IF pc = "write" THEN 1 + bit * WRITE ELSE 0) - wait
  BY DEF One, Mid, Tail, Lap
<1>7. One \/ Mid => /\ Lap >= NapTime /\ Lap <= NapTime + i * CodeTime + 1 + 2 * WRITE
  BY <1>1, <1>2, <1>4, <1>6 DEF One, Mid, CodeTime
<1>8. One => Lap >= 0 /\ Lap + 8 * CodeTime < TIMEOUT
  BY <1>1, <1>5, <1>7, LapValue DEF NapTime, CodeTime
<1>9. One \/ Mid => Lap >= WRITE /\ Lap - NapTime + 1 < TIMEOUT /\ Lap + 1 < TIMEOUT
  BY <1>1, <1>4, <1>7, LapValue DEF NapTime, CodeTime
<1>10. Turn => Lap - NapTime + 1 <= WRITE + 8 * CodeTime
  <2> SUFFICES ASSUME Turn PROVE Lap - NapTime + 1 <= WRITE + 8 * CodeTime
    OBVIOUS
  <2>1. Mid /\ bit * WRITE = WRITE /\ i * CodeTime = 7 * CodeTime
    BY DEF Turn, Last, Mid, Tail
  <2> QED BY <1>1, <1>6, <2>1 DEF Turn, Last, CodeTime
<1> QED BY <1>3, <1>7, <1>8, <1>9, <1>10

-----------------------------------------------------------------------------
\* The pins, in the parts of a round where they are known.
LEMMA CodedPins ==
  ASSUME CalmTypeOK, Place, Coded, One \/ Mid
  PROVE  /\ i \in 1..7
         /\ pc = "write" => pins = Shown(i, bit)
         /\ pc = "loop" => pins = Gray[i - 1]
<1> USE DEF CalmTypeOK, TaskTypeOK, Place
<1>1. i \in 1..7
  BY DEF One, Mid, InLoop
<1> QED BY <1>1 DEF Coded, Shown

LEMMA PinsStep ==
  ASSUME InGoodTime, CalmTypeOK, Place, Coded, Resting, CalmRun
  PROVE  /\ Tail \/ (Front /\ ~EnterOne) \/ Turn => pins' = pins /\ pins = 4
         /\ EnterOne /\ Writes => pins \in {0, 4} /\ pins' = 0
         /\ One \/ Mid => pins' = pins \/ (wait = 0 /\ pins' \in Codes /\ pins = Prev[pins'])
<1> USE BoardConstants DEF CalmTypeOK, TaskTypeOK, Place
<1>1. ~Writes => pins' = pins
  BY DEF CalmRun, Waits, Naps, Wakes, Ends, Strokes
<1>2. Tail \/ Front => pins = 4
  BY DEF Resting
<1>3. ASSUME One \/ Mid, Writes
      PROVE  /\ i \in 1..7 /\ pins = Shown(i, bit) /\ pins' = Shown(i, bit + 1)
             /\ pins' = pins \/ (pins' = Gray[i] /\ pins = Gray[i - 1])
  <2>1. i \in 1..7 /\ pins = Shown(i, bit)
    BY <1>3, CodedPins DEF Writes
  <2>2. pins' = Shown(i, bit + 1)
    BY <1>3, <2>1, PinSteps DEF Writes
  <2>3. pins' = pins \/ (pins' = Gray[i] /\ pins = Gray[i - 1])
    BY <2>1, <2>2, FlipTable DEF Shown
  <2> QED BY <2>1, <2>2, <2>3
<1>4. ASSUME One \/ Mid, pins' # pins
      PROVE  wait = 0 /\ pins' \in Codes /\ pins = Prev[pins']
  <2>1. Writes
    BY <1>1, <1>4
  <2>2. i \in 1..7 /\ pins' = Gray[i] /\ pins = Gray[i - 1]
    BY <1>3, <1>4, <2>1
  <2>3. Gray[i] \in Codes
    BY <2>2, GrayTable DEF Codes
  <2> QED BY <2>1, <2>2, <2>3, ShownTable DEF Writes
<1>5. Turn => pins = 4 /\ pins' = 4
  <2> SUFFICES ASSUME Turn PROVE pins = 4 /\ pins' = 4
    OBVIOUS
  <2>1. Mid /\ i = 7 /\ bit = 1 /\ pc = "write" /\ wait = 0
    BY DEF Turn, Last, Mid, Tail, InLoop
  <2>2. Writes
    BY <2>1 DEF CalmRun, Waits, Naps, Wakes, Ends, Strokes
  <2> QED BY <1>3, <2>1, <2>2, ShownTable
<1>6. Tail => pins' = pins
  <2> SUFFICES ASSUME Tail, Writes PROVE pins' = pins
    BY <1>1
  <2>1. i = 7 /\ bit = 2 /\ pins = 4
    BY <1>2 DEF Tail, Writes
  <2>2. pins' = Shown(7, 3)
    <3>1. pins = Shown(7, 2) /\ 2 + 1 = 3
      BY <2>1, ShownTable
    <3> QED BY <2>1, <3>1, PinSteps DEF Writes
  <2> QED BY <2>1, <2>2, ShownTable
<1>7. Front /\ ~EnterOne => pins' = pins
  <2> SUFFICES ASSUME Front, ~EnterOne, Writes PROVE pins' = pins
    BY <1>1
  <2>1. i = 0 /\ bit \in {0, 1} /\ pins = 4
    BY <1>2 DEF Front, InLoop, EnterOne, Writes
  <2> QED BY <2>1, FirstPinSteps DEF Writes
<1>8. EnterOne /\ Writes => pins \in {0, 4} /\ pins' = 0
  <2> SUFFICES ASSUME EnterOne, Writes PROVE pins \in {0, 4} /\ pins' = 0
    OBVIOUS
  <2>1. pins \in {0, 4}
    <3>1. CASE rounds > 1
      BY <3>1, <1>2 DEF EnterOne, Front, InLoop
    <3>2. CASE rounds <= 1
      BY <3>2 DEF EnterOne, Coded, First
    <3> QED BY <3>1, <3>2
  <2> QED BY <2>1, FirstPinSteps DEF EnterOne, Writes
<1> QED BY <1>2, <1>4, <1>5, <1>6, <1>7, <1>8

LEMMA CodedStep ==
  ASSUME InGoodTime, CalmTypeOK, Place, Coded, Resting, CalmRun
  PROVE  Coded'
<1> USE BoardConstants DEF CalmTypeOK, TaskTypeOK, Place
<1>1. ASSUME First', pc' = "write", bit' > 0
      PROVE  pins' \in IF bit' = 1 THEN {0, 2, 4, 6} ELSE {0, 4}
  <2>1. CASE Waits
    BY <1>1, <2>1 DEF Waits, Coded, First
  <2>2. CASE Writes
    <3>1. First /\ pc = "write" /\ bit < 2 /\ bit' = bit + 1 /\ i = 0
      BY <1>1, <2>2 DEF Writes, First
    <3>2. CASE bit = 0
      BY <2>2, <3>1, <3>2, FirstPinSteps DEF Writes
    <3>3. CASE bit = 1
      BY <2>2, <3>1, <3>3, FirstPinSteps DEF Writes, Coded
    <3> QED BY <3>1, <3>2, <3>3
  <2>3. CASE Naps \/ Wakes \/ Ends \/ Strokes
    BY <1>1, <2>3 DEF Naps, Wakes, Ends, Strokes
  <2> QED BY <2>1, <2>2, <2>3 DEF CalmRun
<1>2. ASSUME One' \/ Mid'
      PROVE  pins' = IF pc' = "write" /\ bit' > Flip[i'] THEN Gray[i'] ELSE Gray[i' - 1]
  <2>1. CASE EnterOne /\ Writes
    <3>1. pins' = 0 /\ pc' = "loop" /\ i' = 1
      BY <2>1, PinsStep DEF EnterOne, Writes
    <3> QED BY <3>1, GrayTable
  <2>2. CASE (One \/ Mid) /\ Writes
    <3>1. i \in 1..7 /\ pins = Shown(i, bit)
      BY <2>2, CodedPins DEF Writes
    <3>2. pins' = Shown(i, bit + 1)
      BY <2>2, <3>1, PinSteps DEF Writes
    <3>3. CASE bit < 2
      BY <2>2, <3>2, <3>3 DEF Writes, Shown
    <3>4. CASE bit = 2
      <4>1. pins' = Gray[i]
        <5>1. bit + 1 = 3
          BY <3>4
        <5> QED BY <3>1, <3>2, <5>1, ShownTable
      <4>2. pc' = "loop" /\ i' - 1 = i
        BY <2>2, <3>1, <3>4 DEF Writes
      <4> QED BY <4>1, <4>2
    <3> QED BY <3>3, <3>4
  <2>3. CASE (One \/ Mid) /\ Waits
    BY <2>3 DEF Waits, Coded
  <2>4. CASE (One \/ Mid) /\ Strokes
    <3>1. pins = Gray[i - 1] /\ pins' = pins /\ i' = i /\ bit' = 0 /\ i \in 1..7
      BY <2>4, CodedPins DEF Strokes
    <3>2. ~(bit' > Flip[i'])
      BY <3>1, FlipTable
    <3> QED BY <3>1, <3>2
  <2>5. CASE (One \/ Mid) /\ (Naps \/ Wakes \/ Ends)
    BY <2>5 DEF One, Mid, InLoop, Naps, Wakes, Ends
  <2>6. One \/ Mid \/ (EnterOne /\ Writes)
    BY <1>2, PhaseStep DEF EnterMid, One, InLoop
  <2> QED BY <2>1, <2>2, <2>3, <2>4, <2>5, <2>6 DEF CalmRun
<1> QED BY <1>1, <1>2 DEF Coded

-----------------------------------------------------------------------------
\* An edge of a board that runs undisturbed.
CalmEdge ==
  /\ ReadOrder = "old" /\ InGoodTime /\ ROUNDS >= 3
  /\ CalmTypeOK /\ Undisturbed /\ Edge /\ CalmRun

\* What the registers of wdt.v do at such an edge.
LEMMA NextStateOnPins ==
  ASSUME CalmEdge, next_state' \in 0..7
  PROVE  count < TIMEOUT /\ next_state' = FsmStep(state, fdu_d1) /\ Gray[next_state'] = fdu_d1
<1> USE DEF CalmEdge, CalmTypeOK
<1>1. count < TIMEOUT
  BY EdgeFacts, TimeoutAssumption DEF TypeOK, IDLE
<1>2. next_state' = FsmStep(state, fdu_d1)
  BY <1>1, EdgeFacts
<1>3. Gray[FsmStep(state, fdu_d1)] = fdu_d1
  BY <1>2, StepSettles DEF TypeOK
<1> QED BY <1>1, <1>2, <1>3

LEMMA StateFromNext ==
  ASSUME CalmEdge, state' \in 0..7
  PROVE  count < TIMEOUT /\ state' = next_state
<1> USE DEF CalmEdge, CalmTypeOK
<1>1. count < TIMEOUT
  BY EdgeFacts, TimeoutAssumption DEF TypeOK, ERROR
<1> QED BY <1>1, EdgeFacts

LEMMA RestingStep ==
  ASSUME CalmEdge
  PROVE  Resting'
<1> USE BoardConstants DEF CalmEdge, Undisturbed
<1>1. fdu_tri' = pins /\ fdu_d1' = fdu_tri
  BY EdgeFacts
<1>2. next_state' \in 0..7 => Gray[next_state'] = fdu_d1
  BY NextStateOnPins
<1>3. state' \in 0..7 => state' = next_state
  BY StateFromNext
<1>4. wait \in Nat /\ WRITE >= 6 /\ SLEEP >= 4
  BY DEF CalmTypeOK, TaskTypeOK, InGoodTime
<1>5. ASSUME pins' = pins, fdu_tri = pins, fdu_d1 = pins, SettledOn(next_state)
      PROVE  fdu_tri' = pins' /\ fdu_d1' = pins' /\ SettledOn(next_state)' /\ SettledOn(state)'
  BY <1>1, <1>2, <1>3, <1>5 DEF SettledOn
<1>6. InLoop' =>
        /\ wait' <= WRITE - 2 => fdu_tri' = pins'
        /\ wait' <= WRITE - 3 => fdu_d1' = pins'
        /\ wait' <= WRITE - 4 => SettledOn(next_state)'
        /\ wait' <= WRITE - 5 => SettledOn(state)'
  <2>1. CASE Waits
    BY <1>1, <1>2, <1>3, <1>4, <2>1 DEF Waits, Resting, InLoop, SettledOn
  <2>2. CASE Wakes
    BY <1>4, <1>5, <2>2 DEF Wakes, Resting
  <2>3. CASE Strokes
    BY <1>4, <1>5, <2>3 DEF Strokes, Resting, InLoop
  <2>4. CASE Writes
    BY <1>4, <2>4 DEF Writes
  <2>5. CASE Naps \/ Ends
    BY <2>5 DEF Naps, Ends, InLoop
  <2> QED BY <2>1, <2>2, <2>3, <2>4, <2>5 DEF CalmRun
<1>7. pc' = "sleep" =>
        /\ fdu_tri' = pins'
        /\ wait' <= SLEEP - 1 => fdu_d1' = pins'
        /\ wait' <= SLEEP - 2 => SettledOn(next_state)'
        /\ wait' <= SLEEP - 3 => SettledOn(state)'
  <2>1. CASE Waits
    BY <1>1, <1>2, <1>3, <1>4, <2>1 DEF Waits, Resting, SettledOn
  <2>2. CASE Naps
    BY <1>1, <1>4, <2>2 DEF Naps
  <2>3. CASE Wakes \/ Ends \/ Strokes \/ Writes
    BY <2>3 DEF Wakes, Ends, Strokes, Writes, CalmTypeOK, TaskTypeOK
  <2> QED BY <2>1, <2>2, <2>3 DEF CalmRun
<1>8. Tail' \/ Front' => /\ pins' = 4 /\ fdu_tri' = 4 /\ fdu_d1' = 4
                         /\ SettledOn(next_state)' /\ SettledOn(state)'
  <2> SUFFICES ASSUME Tail' \/ Front'
               PROVE  /\ pins' = 4 /\ fdu_tri' = 4 /\ fdu_d1' = 4
                      /\ SettledOn(next_state)' /\ SettledOn(state)'
    OBVIOUS
  <2>1. Tail \/ (Front /\ ~EnterOne) \/ Turn
    BY PhaseStep
  <2>2. pins' = pins /\ pins = 4
    BY <2>1, PinsStep
  <2>3. fdu_tri = pins /\ fdu_d1 = pins /\ SettledOn(next_state)
    <3>1. CASE Tail \/ Front
      BY <2>2, <3>1 DEF Resting
    <3>2. CASE Turn
      BY <1>4, <3>2 DEF Resting, Turn, Last, InLoop
    <3> QED BY <2>1, <3>1, <3>2
  <2> QED BY <1>5, <2>2, <2>3
<1> QED BY <1>6, <1>7, <1>8 DEF Resting

\* When the task writes a pin, the watchdog rests.
LEMMA WritesAtRest ==
  ASSUME CalmEdge, Writes
  PROVE  fdu_tri = pins /\ fdu_d1 = pins /\ SettledOn(next_state) /\ SettledOn(state)
BY BoardConstants DEF CalmEdge, Undisturbed, Resting, Writes, InLoop, InGoodTime

\* The sample is a code, and at most one behind.
LEMMA LinkedCodes ==
  ASSUME CalmTypeOK, Linked, One \/ Mid
  PROVE  fdu_d1 \in {pins, Prev[pins]} /\ fdu_tri \in {pins, Prev[pins]} /\ fdu_d1 \in Codes
<1> USE DEF CalmTypeOK, TaskTypeOK
<1>1. fdu_d1 \in {pins, Prev[pins]} /\ fdu_tri \in {pins, Prev[pins]}
  BY DEF Linked
<1>2. Prev[pins] \in Codes
  BY PrevTable DEF Codes
<1> QED BY <1>1, <1>2

LEMMA LinkedStep ==
  ASSUME CalmEdge
  PROVE  Linked'
<1> USE DEF CalmEdge, Undisturbed
<1> SUFFICES ASSUME One' \/ Mid'
             PROVE  /\ pins' # fdu_tri' => fdu_tri' = Prev[pins'] /\ fdu_d1' = fdu_tri'
                    /\ fdu_tri' # fdu_d1' => fdu_d1' = Prev[fdu_tri']
                    /\ next_state' \in 0..7 =>
                         \/ Gray[next_state'] = fdu_d1'
                         \/ Gray[next_state'] = Prev[fdu_d1'] /\ fdu_tri' = fdu_d1'
                    /\ state' \in 0..7 => Gray[state'] \in {fdu_d1', Prev[fdu_d1']}
  BY DEF Linked
<1>1. fdu_tri' = pins /\ fdu_d1' = fdu_tri
  BY EdgeFacts
<1>2. next_state' \in 0..7 => Gray[next_state'] = fdu_d1
  BY NextStateOnPins
<1>3. state' \in 0..7 => state' = next_state
  BY StateFromNext
<1>4. CASE One \/ Mid
  <2>1. pins' = pins \/ (wait = 0 /\ pins' \in Codes /\ pins = Prev[pins'])
    BY <1>4, PinsStep
  <2>2. wait = 0 => fdu_tri = pins
    BY <1>4, BoardConstants DEF Resting, One, Mid, InGoodTime
  <2>3. /\ pins # fdu_tri => fdu_tri = Prev[pins] /\ fdu_d1 = fdu_tri
        /\ fdu_tri # fdu_d1 => fdu_d1 = Prev[fdu_tri]
        /\ next_state \in 0..7 =>
             Gray[next_state] = fdu_d1 \/ (Gray[next_state] = Prev[fdu_d1] /\ fdu_tri = fdu_d1)
    BY <1>4 DEF Linked
  <2>4. pins' # fdu_tri' => fdu_tri' = Prev[pins'] /\ fdu_d1' = fdu_tri'
    BY <1>1, <2>1, <2>2
  <2>5. fdu_tri' # fdu_d1' => fdu_d1' = Prev[fdu_tri']
    BY <1>1, <2>3
  <2>6. next_state' \in 0..7 =>
          \/ Gray[next_state'] = fdu_d1'
          \/ Gray[next_state'] = Prev[fdu_d1'] /\ fdu_tri' = fdu_d1'
    BY <1>1, <1>2, <2>3
  <2>7. state' \in 0..7 => Gray[state'] \in {fdu_d1', Prev[fdu_d1']}
    BY <1>1, <1>3, <2>3
  <2> QED BY <2>4, <2>5, <2>6, <2>7
<1>5. CASE EnterOne /\ Writes
  <2>1. fdu_tri = pins /\ fdu_d1 = pins /\ SettledOn(next_state)
    BY <1>5, WritesAtRest
  <2>2. pins = Prev[pins'] \/ pins = pins'
    BY <1>5, PinsStep, PrevTable
  <2> QED BY <1>1, <1>2, <1>3, <2>1, <2>2 DEF SettledOn
<1>6. One \/ Mid \/ (EnterOne /\ Writes)
  BY PhaseStep DEF EnterMid, One, InLoop
<1> QED BY <1>4, <1>5, <1>6

LEMMA PassedStep ==
  ASSUME CalmEdge
  PROVE  Passed'
<1> USE DEF CalmEdge, Undisturbed
<1>1. fdu_tri' = pins /\ fdu_d1' = fdu_tri
  BY EdgeFacts
<1>2. next_state' \in 0..7 => Gray[next_state'] = fdu_d1
  BY NextStateOnPins
<1>3. state' \in 0..7 => state' = next_state
  BY StateFromNext
<1>4. One' => SIX \notin {state', next_state'}
  <2> SUFFICES ASSUME One' PROVE SIX \notin {state', next_state'}
    OBVIOUS
  <2>1. CASE One
    <3>1. pins \in {0, 1}
      <4>1. i = 1 /\ bit \in 0..2 /\ pc \in {"loop", "write"}
        BY <2>1 DEF One, InLoop, CalmTypeOK, TaskTypeOK
      <4> QED BY <2>1, <4>1, CodedPins, ShownTable, GrayTable, FlipTable DEF Shown
    <3>2. fdu_d1 # 5
      BY <2>1, <3>1, LinkedCodes, PrevTable
    <3>3. next_state # SIX
      BY <2>1 DEF Passed
    <3> QED BY <1>2, <1>3, <3>2, <3>3, StateOfCode DEF SIX
  <2>2. CASE EnterOne /\ Writes
    <3>1. fdu_d1 = pins /\ SettledOn(next_state) /\ pins # 5
      BY <2>2, WritesAtRest, PinsStep
    <3> QED BY <1>2, <1>3, <3>1, StateOfCode DEF SIX, SettledOn
  <2> QED BY <2>1, <2>2, PhaseStep
<1>5. Mid' => /\ 0 \notin {fdu_tri', fdu_d1'}
              /\ ~Last' => 4 \notin {fdu_tri', fdu_d1'}
  <2> SUFFICES ASSUME Mid' PROVE /\ 0 \notin {fdu_tri', fdu_d1'}
                                 /\ ~Last' => 4 \notin {fdu_tri', fdu_d1'}
    OBVIOUS
  <2>1. CASE Mid /\ ~Turn
    <3>1. 0 # fdu_tri /\ (~Last => fdu_tri # 4)
      BY <2>1 DEF Passed
    <3>2. Last => Last'
      <4>1. Last => Waits
        BY <2>1, BoardConstants
           DEF Turn, Last, CalmRun, Naps, Wakes, Ends, Strokes, Writes
      <4> QED BY <4>1 DEF Waits, Last
    <3>3. pins # 0 /\ (~Last => pins # 4)
      <4>1. i \in 2..7 /\ bit \in 0..2 /\ pc \in {"loop", "write"} /\ ~Tail
        BY <2>1 DEF Mid, InLoop, CalmTypeOK, TaskTypeOK
      <4>2. pins = IF pc = "write" /\ bit > Flip[i] THEN Gray[i] ELSE Gray[i - 1]
        BY <2>1 DEF Coded
      <4> QED BY <4>1, <4>2, GrayTable, FlipTable DEF Last, Tail
    <3> QED BY <1>1, <3>1, <3>2, <3>3
  <2>2. CASE EnterMid /\ Writes
    <3>1. One /\ fdu_tri = pins
      BY <2>2, WritesAtRest DEF EnterMid, One, InLoop
    <3>2. pins = 1
      BY <2>2, <3>1, CodedPins, ShownTable DEF EnterMid
    <3> QED BY <1>1, <3>1, <3>2
  <2> QED BY <2>1, <2>2, PhaseStep
<1> QED BY <1>4, <1>5 DEF Passed

-----------------------------------------------------------------------------
\* The counter beside the lap.
LEMMA CountStep ==
  ASSUME CalmEdge
  PROVE  /\ count \in Nat /\ count <= TIMEOUT /\ count' \in Nat
         /\ count' <= count + 1
         /\ count = TIMEOUT => count' \in {0, TIMEOUT}
         /\ Lap \in Int /\ Lap' \in Int
         /\ ~Turn => Lap' >= Lap + 1
         /\ Turn => Lap' = WRITE
<1> USE BoardConstants DEF CalmEdge, CalmTypeOK, Undisturbed
<1>1. count \in Nat /\ count <= TIMEOUT
  BY DEF TypeOK
<1>2. /\ count' \in Nat /\ count' <= count + 1
      /\ count = TIMEOUT => count' \in {0, TIMEOUT}
  <2>1. CASE clear
    BY <1>1, <2>1, EdgeFacts
  <2>2. CASE ~clear /\ count < TIMEOUT
    BY <1>1, <2>2, EdgeFacts
  <2>3. CASE ~clear /\ count = TIMEOUT
    BY <1>1, <2>3, EdgeFacts
  <2> QED BY <1>1, <2>1, <2>2, <2>3
<1>3. CalmTypeOK'
  BY CalmTypeStep DEF NextS
<1>4. Lap \in Int
  BY LapValue
<1>5. Lap' \in Int
  <2>1. i' \in Int /\ bit' \in Int /\ wait' \in Int
    BY <1>3 DEF TaskTypeOK
  <2>2. CodeTime \in Int /\ NapTime \in Int
    BY DEF CodeTime, NapTime
  <2>3. i' * CodeTime \in Int /\ bit' * WRITE \in Int
    BY <2>1, <2>2
  <2> QED BY <2>1, <2>2, <2>3 DEF Lap
<1> QED BY <1>1, <1>2, <1>4, <1>5, LapStep

\* A counter that keeps to the lap keeps to it.
LEMMA Behind ==
  ASSUME NEW c \in Nat, NEW c1 \in Nat, NEW l \in Int, NEW l1 \in Int, NEW m \in Int,
         c <= l + m, c1 <= c + 1, l1 >= l + 1
  PROVE  c1 <= l1 + m
OBVIOUS

\* The bounds of the lap at an undisturbed edge.
LEMMA CalmBounds ==
  ASSUME CalmEdge
  PROVE  /\ Tail \/ Front \/ (One /\ rounds > 1) => count < TIMEOUT
         /\ CodeTime \in Nat /\ NapTime \in Nat
<1> USE BoardConstants DEF CalmEdge, CalmTypeOK, Undisturbed
<1>1. CodeTime \in Nat /\ NapTime \in Nat
  BY DEF CodeTime, NapTime
<1> QED BY <1>1, CountStep, LapBounds DEF Early

LEMMA EarlyStep ==
  ASSUME CalmEdge
  PROVE  Early'
<1> USE BoardConstants DEF CalmEdge, Undisturbed
<1> SUFFICES ASSUME Tail' \/ Front' \/ (One' /\ rounds' > 1)
             PROVE  count' <= Lap' + 8 * CodeTime
  BY DEF Early, CodeTime
<1>1. CodeTime \in Nat /\ NapTime \in Nat /\ 8 * CodeTime \in Int
  BY CalmBounds
<1>2. CASE Turn
  <2>1. wait = 0 /\ Mid /\ pc = "write"
    BY <1>2 DEF Turn, Last, Mid, Tail, InLoop
  <2>2. SettledOn(state) /\ pins = 4
    BY <1>2, <2>1, PinsStep DEF Resting, InLoop, InGoodTime
  <2>3. count # TIMEOUT
    BY <1>2, <2>1 DEF Ending, Turn, InGoodTime
  <2>4. CASE Both
    <3>1. state = SEVEN
      BY <2>2, <2>4, StateOfCode DEF Both, SettledOn
    <3>2. clear \/ count <= WRITE - 1
      BY <1>2, <2>1, <2>4, <3>1 DEF Ending, Turn
    <3>3. count' <= WRITE
      BY <3>2, CountStep, EdgeFacts
    <3> QED BY <1>1, <1>2, <3>3, CountStep
  <2>5. CASE ~Both
    <3>1. count <= Lap - NapTime
      BY <2>1, <2>3, <2>5 DEF Joined, Torn
    <3>2. Lap - NapTime + 1 <= WRITE + 8 * CodeTime
      BY <1>2, LapBounds
    <3>3. count + 1 <= WRITE + 8 * CodeTime
      BY <1>1, <3>1, <3>2, CountStep
    <3> QED BY <1>1, <1>2, <3>3, CountStep
  <2> QED BY <2>4, <2>5
<1>3. CASE ~Turn
  <2>1. Tail \/ Front \/ (One /\ rounds > 1)
    <3>1. CASE Tail' \/ Front'
      BY <1>3, <3>1, PhaseStep
    <3>2. CASE One' /\ rounds' > 1 /\ One
      BY <3>2, PhaseStep DEF One, InLoop
    <3>3. CASE One' /\ rounds' > 1 /\ EnterOne
      <4>1. rounds' = rounds
        BY <3>3, PhaseStep DEF EnterOne
      <4> QED BY <3>3, <4>1 DEF EnterOne, Front, InLoop
    <3> QED BY <3>1, <3>2, <3>3, PhaseStep
  <2>2. count <= Lap + 8 * CodeTime
    BY <2>1 DEF Early
  <2> QED BY <1>1, <1>3, <2>2, CountStep, Behind
<1> QED BY <1>2, <1>3

\* A torn cycle stays torn until the lap ends.
LEMMA TornStep ==
  ASSUME CalmEdge, One \/ Mid, ~Turn, Torn \/ count = TIMEOUT
  PROVE  Torn'
<1> USE BoardConstants DEF CalmEdge, Undisturbed
<1>1. NapTime \in Nat /\ NapTime' = NapTime
  BY CalmBounds DEF NapTime
<1>2. CASE count = TIMEOUT
  <2>1. Lap >= NapTime
    BY LapBounds
  <2>2. count' = 0 \/ count' = TIMEOUT
    BY <1>2, CountStep
  <2>3. 0 <= Lap' - NapTime
    BY <1>1, <2>1, CountStep
  <2> QED BY <1>1, <2>2, <2>3 DEF Torn
<1>3. CASE count <= Lap - NapTime
  <2>1. count <= Lap + (0 - NapTime) /\ 0 - NapTime \in Int
    BY <1>1, <1>3, CountStep
  <2>2. count' <= Lap' + (0 - NapTime)
    BY <2>1, CountStep, Behind
  <2>3. count' <= Lap' - NapTime
    BY <1>1, <2>2, CountStep
  <2> QED BY <1>1, <2>3 DEF Torn
<1> QED BY <1>2, <1>3 DEF Torn

\* While the pins carry the codes in order, machines that are in the cycle stay
\* in it.
LEMMA BothStep ==
  ASSUME CalmEdge, count < TIMEOUT
  PROVE  /\ (One \/ Mid) /\ state \in 0..7 => next_state' \in 0..7
         /\ Tail \/ Front => (state \in 0..7 => next_state' \in 0..7)
         /\ next_state \in 0..7 => state' \in 0..7
         /\ (One \/ Mid \/ Tail \/ Front) /\ Both => Both'
<1> USE DEF CalmEdge, Undisturbed
<1>1. state' = next_state /\ next_state' = FsmStep(state, fdu_d1)
  BY EdgeFacts
<1>2. ASSUME One \/ Mid, state \in 0..7 PROVE next_state' \in 0..7
  BY <1>1, <1>2, LinkedCodes, StaysInCycle DEF Linked
<1>3. ASSUME Tail \/ Front, state \in 0..7 PROVE next_state' \in 0..7
  <2>1. fdu_d1 = 4 /\ Gray[state] = 4
    BY <1>3 DEF Resting, SettledOn
  <2> QED BY <1>1, <1>3, <2>1, StaysInCycle DEF Codes
<1> QED BY <1>1, <1>2, <1>3 DEF Both

LEMMA JoinedStep ==
  ASSUME CalmEdge
  PROVE  Joined'
<1> USE BoardConstants DEF CalmEdge, Undisturbed
<1>1. count \in Nat /\ count <= TIMEOUT /\ wait \in Nat
  BY CountStep DEF CalmTypeOK, TaskTypeOK
<1>2. One => ~Turn /\ rounds' = rounds /\ rounds > 0 /\ rounds \in Nat
  BY PhaseStep DEF One, Turn, Last, InLoop, Place, CalmTypeOK, TaskTypeOK
<1>3. One /\ count = TIMEOUT => rounds' = 1 /\ Torn'
  BY <1>2, CalmBounds, TornStep
<1>4. One /\ rounds = 1 /\ Torn => rounds' = 1 /\ Torn'
  BY <1>2, TornStep
<1>5. ASSUME One, pc = "loop", wait <= WRITE - 3, count < TIMEOUT
      PROVE  next_state' \in 0..7
  <2>1. pins = 0 /\ fdu_d1 = 0
    BY <1>5, CodedPins, GrayTable DEF One, Resting, InLoop
  <2>2. state \notin 1..6
    <3> SUFFICES ASSUME state \in 0..7 PROVE state \notin 1..6
      BY DEF CalmTypeOK, TypeOK, WdtStates
    <3>1. Gray[state] \in {0, 4}
      BY <1>5, <2>1, PrevTable DEF Linked
    <3> QED BY <3>1, StateOfCode DEF ZERO, SEVEN
  <2>3. next_state' = FsmStep(state, 0)
    BY <1>5, <2>1, EdgeFacts
  <2> QED BY <2>2, <2>3, ZeroStep DEF CalmTypeOK, TypeOK, ZERO
<1>6. ASSUME One, pc = "write"
      PROVE  Both' \/ (rounds' = 1 /\ Torn')
  <2>1. Both \/ (rounds = 1 /\ Torn)
    BY <1>6 DEF Joined
  <2>2. CASE Both /\ count < TIMEOUT
    BY <1>6, <2>2, BothStep
  <2> QED BY <1>1, <1>3, <1>4, <1>6, <2>1, <2>2
<1>7. One' /\ (pc' = "write" \/ wait' <= WRITE - 4) =>
        next_state' \in 0..7 \/ (rounds' = 1 /\ Torn')
  <2> SUFFICES ASSUME One', pc' = "write" \/ wait' <= WRITE - 4
               PROVE  next_state' \in 0..7 \/ (rounds' = 1 /\ Torn')
    OBVIOUS
  <2>1. ~(EnterOne /\ Writes)
    BY DEF EnterOne, Writes
  <2>2. One
    BY <2>1, PhaseStep
  <2>3. CASE pc = "write"
    BY <1>6, <2>2, <2>3 DEF Both
  <2>4. CASE pc = "loop"
    <3>1. wait <= WRITE - 3
      BY <1>1, <2>2, <2>4 DEF One, CalmRun, Waits, Naps, Wakes, Ends, Strokes, Writes, InGoodTime
    <3> QED BY <1>1, <1>3, <1>5, <2>2, <2>4, <3>1
  <2> QED BY <2>2, <2>3, <2>4 DEF One, InLoop
<1>8. One' /\ (pc' = "write" \/ wait' <= WRITE - 5) => Both' \/ (rounds' = 1 /\ Torn')
  <2> SUFFICES ASSUME One', pc' = "write" \/ wait' <= WRITE - 5
               PROVE  Both' \/ (rounds' = 1 /\ Torn')
    OBVIOUS
  <2>1. ~(EnterOne /\ Writes)
    BY DEF EnterOne, Writes
  <2>2. One
    BY <2>1, PhaseStep
  <2>3. CASE pc = "write"
    BY <1>6, <2>2, <2>3
  <2>4. CASE pc = "loop"
    <3>1. wait <= WRITE - 4 /\ wait <= WRITE - 3
      BY <1>1, <2>2, <2>4 DEF One, CalmRun, Waits, Naps, Wakes, Ends, Strokes, Writes, InGoodTime
    <3>2. next_state \in 0..7 \/ (rounds = 1 /\ Torn)
      BY <2>2, <3>1 DEF Joined
    <3>3. CASE count < TIMEOUT /\ next_state \in 0..7
      BY <1>5, <2>2, <2>4, <3>1, <3>3, BothStep DEF Both
    <3> QED BY <1>1, <1>3, <1>4, <2>2, <3>2, <3>3
  <2> QED BY <2>2, <2>3, <2>4 DEF One, InLoop
<1>9. Mid' => Both' \/ Torn'
  <2> SUFFICES ASSUME Mid' PROVE Both' \/ Torn'
    OBVIOUS
  <2>1. CASE Mid /\ ~Turn
    <3>1. Both \/ Torn
      BY <2>1 DEF Joined
    <3>2. CASE Both /\ count < TIMEOUT
      BY <2>1, <3>2, BothStep
    <3>3. CASE Torn \/ count = TIMEOUT
      BY <2>1, <3>3, TornStep
    <3> QED BY <1>1, <3>1, <3>2, <3>3
  <2>2. CASE EnterMid /\ Writes
    BY <1>6, <2>2 DEF EnterMid, One, InLoop
  <2> QED BY <2>1, <2>2, PhaseStep
<1> QED BY <1>7, <1>8, <1>9 DEF Joined

-----------------------------------------------------------------------------
\* The code 100 goes from the pins to the counter.
LEMMA EndingStep ==
  ASSUME CalmEdge
  PROVE  Ending'
<1> USE BoardConstants DEF CalmEdge, Undisturbed
<1>1. fdu_tri' = pins /\ fdu_d1' = fdu_tri
  BY EdgeFacts
<1>2. next_state' = SEVEN => fdu_d1 = 4
  BY NextStateOnPins, StateOfCode DEF SEVEN
<1>3. state' = SEVEN => count < TIMEOUT /\ next_state = SEVEN
  BY StateFromNext DEF SEVEN
<1>4. WRITE >= 6 /\ wait \in Nat
  BY DEF InGoodTime, CalmTypeOK, TaskTypeOK
<1>5. CASE EnterLast /\ Writes
  <2>1. Mid /\ i = 7 /\ bit = 0
    BY <1>5 DEF EnterLast, Mid, Tail, InLoop
  <2>2. pins = 5
    BY <1>5, <2>1, CodedPins, ShownTable, GrayTable DEF EnterLast
  <2>3. fdu_tri = 5 /\ fdu_d1 = 5 /\ next_state # SEVEN
    BY <1>5, <2>2, WritesAtRest, StateOfCode DEF SettledOn, SEVEN
  <2>4. wait' = WRITE - 1
    BY <1>5 DEF Writes
  <2>5. fdu_tri' = 5 /\ fdu_d1' = 5 /\ next_state' # SEVEN /\ state' # SEVEN
    BY <1>1, <1>2, <1>3, <2>2, <2>3
  <2> QED BY <1>4, <2>4, <2>5 DEF Ending
<1>6. CASE Last /\ Waits
  <2>1. Mid /\ ~Turn /\ wait > 0 /\ wait < WRITE /\ wait' = wait - 1 /\ InLoop
    BY <1>6 DEF Last, Mid, Tail, InLoop, Turn, Waits, Place
  <2>2. pins = 4
    BY <1>6, <2>1, CodedPins, ShownTable DEF Last
  <2>3. /\ wait <= WRITE - 3 => fdu_d1 = 4
        /\ wait <= WRITE - 4 => (next_state \in 0..7 => next_state = SEVEN)
        /\ wait <= WRITE - 5 => (state \in 0..7 => state = SEVEN)
    BY <2>1, <2>2, StateOfCode DEF Resting, SettledOn
  <2>4. Both \/ Torn
    BY <2>1 DEF Joined
  <2>5. count \in Nat /\ count <= TIMEOUT /\ count' \in Nat
    BY CountStep
  <2>6. Torn => count = TIMEOUT \/ count + 1 < TIMEOUT
    BY <2>1, <2>5, CountStep, CalmBounds, LapBounds DEF Torn
  <2>7. count' = TIMEOUT => ~clear /\ (count = TIMEOUT \/ count + 1 = TIMEOUT)
    BY <2>5, EdgeFacts
  <2>8. wait' = WRITE - 1 => fdu_tri' = 5
    BY <1>4, <2>1
  <2>9. wait' >= WRITE - 2 => fdu_d1' = 5
    BY <1>1, <1>4, <1>6, <2>1 DEF Ending
  <2>10. wait' >= WRITE - 3 => next_state' # SEVEN
    BY <1>2, <1>4, <1>6, <2>1 DEF Ending
  <2>11. wait' >= WRITE - 4 => state' # SEVEN
    BY <1>3, <1>4, <1>6, <2>1 DEF Ending
  <2>12. wait' = WRITE - 5 /\ count' = TIMEOUT => clear'
    <3> SUFFICES ASSUME wait' = WRITE - 5, count' = TIMEOUT PROVE clear'
      OBVIOUS
    <3>1. wait = WRITE - 4
      BY <1>4, <2>1
    <3>2. CASE count = TIMEOUT
      BY <3>2, EdgeFacts
    <3>3. CASE count + 1 = TIMEOUT
      <4>1. Both
        BY <2>4, <2>5, <2>6, <3>3
      <4>2. next_state = SEVEN /\ state # SEVEN /\ fdu_d1 = 4
        BY <1>4, <1>6, <2>3, <3>1, <4>1 DEF Ending, Both
      <4>3. Gray[state] \in {4, 5}
        BY <2>1, <4>1, <4>2, PrevTable DEF Linked, Both
      <4>4. state = SIX
        BY <4>1, <4>2, <4>3, StateOfCode DEF Both
      <4> QED BY <4>2, <4>4, EdgeFacts
    <3> QED BY <2>7, <3>2, <3>3
  <2>13. wait' <= WRITE - 6 => count' # TIMEOUT
    <3> SUFFICES ASSUME wait' <= WRITE - 6, count' = TIMEOUT PROVE FALSE
      OBVIOUS
    <3>1. wait <= WRITE - 5
      BY <1>4, <2>1
    <3>2. count + 1 = TIMEOUT /\ ~clear
      <4>1. wait = WRITE - 5 \/ wait <= WRITE - 6
        BY <1>4, <3>1
      <4> QED BY <1>6, <2>7, <4>1 DEF Ending
    <3>3. Both /\ state = SEVEN
      BY <2>3, <2>4, <2>5, <2>6, <3>1, <3>2 DEF Both
    <3>4. count <= WRITE - 1 - wait
      BY <1>6, <3>2, <3>3 DEF Ending
    <3> QED BY <1>4, <2>1, <2>5, <3>2, <3>4 DEF InGoodTime
  <2>14. Both' /\ state' = SEVEN => clear' \/ count' <= WRITE - 1 - wait'
    <3> SUFFICES ASSUME Both', state' = SEVEN PROVE clear' \/ count' <= WRITE - 1 - wait'
      OBVIOUS
    <3>1. count < TIMEOUT /\ next_state = SEVEN /\ next_state' = FsmStep(state, fdu_d1)
      BY <1>3, EdgeFacts
    <3>2. fdu_d1 # 0 /\ fdu_d1 \in Codes
      BY <2>1, LinkedCodes DEF Passed
    <3>3. state \in 0..7
      BY <3>1, <3>2, StaysOut DEF Both, CalmTypeOK, TypeOK
    <3>4. fdu_d1 = 4
      <4>1. Gray[SEVEN] = 4 /\ SEVEN \in 0..7
        BY GrayTable DEF SEVEN
      <4>2. fdu_d1 = 4 \/ Prev[fdu_d1] = 4
        BY <2>1, <3>1, <4>1 DEF Linked
      <4> QED BY <3>2, <4>2, PrevTable DEF Codes
    <3>5. state = SEVEN \/ state = SIX
      <4>1. Gray[state] \in {4, 5}
        BY <2>1, <3>3, <3>4, PrevTable DEF Linked
      <4> QED BY <3>3, <4>1, StateOfCode
    <3>6. CASE state = SIX
      BY <3>1, <3>6, EdgeFacts
    <3>7. CASE state = SEVEN
      <4>1. Both
        BY <3>1, <3>7 DEF Both, SEVEN
      <4>2. clear \/ count <= WRITE - 1 - wait
        BY <1>6, <3>7, <4>1 DEF Ending
      <4>3. clear => count' = 0
        BY EdgeFacts
      <4>4. count' <= WRITE - 1 - wait'
        BY <1>4, <2>1, <2>5, <4>2, <4>3, CountStep
      <4> QED BY <4>4
    <3> QED BY <3>5, <3>6, <3>7
  <2> QED BY <2>8, <2>9, <2>10, <2>11, <2>12, <2>13, <2>14 DEF Ending
<1> QED BY <1>5, <1>6, PhaseStep DEF Ending

\* Where, in the second and later rounds, the two machines go together.
Together == (rounds > 1 /\ (Mid \/ Tail)) \/ (rounds > 2 /\ Front)

LEMMA TogetherBefore ==
  ASSUME CalmEdge, Together'
  PROVE  Together \/ (One /\ EnterMid /\ rounds > 1)
<1> USE BoardConstants DEF CalmEdge, Undisturbed
<1>0. rounds \in Nat
  BY DEF CalmTypeOK, TaskTypeOK
<1>1. CASE Mid' /\ rounds' > 1
  <2>1. pc # "head" /\ rounds' = rounds
    BY <1>1, PhaseStep DEF Mid, EnterMid, InLoop
  <2> QED BY <1>1, <2>1, PhaseStep DEF Together, EnterMid, One, InLoop
<1>2. CASE Tail' /\ rounds' > 1
  <2>1. Tail \/ Mid
    BY <1>2, PhaseStep DEF Turn, Last, Mid, Tail, InLoop
  <2>2. pc # "head"
    BY <1>2 DEF CalmRun, Waits, Naps, Wakes, Ends, Strokes, Writes, Tail, Place
  <2> QED BY <1>2, <2>1, <2>2, PhaseStep DEF Together
<1>3. CASE Front' /\ rounds' > 2
  <2>1. CASE Front /\ pc # "head"
    BY <1>3, <2>1, PhaseStep DEF Together
  <2>2. CASE pc = "head" /\ Tail /\ rounds' <= rounds + 1
    BY <1>0, <1>3, <2>2 DEF Together, CalmRun, Waits, Naps, Wakes, Ends, Strokes, Writes
  <2>3. Front => pc # "head"
    BY DEF Front, InLoop
  <2> QED BY <1>3, <2>1, <2>2, <2>3, PhaseStep
<1> QED BY <1>1, <1>2, <1>3 DEF Together

LEMMA TogetherStep ==
  ASSUME CalmEdge, Together'
  PROVE  /\ state' \in 0..7 <=> next_state' \in 0..7
         /\ health' => Both'
<1> USE BoardConstants DEF CalmEdge, Undisturbed
<1>1. count \in Nat /\ count <= TIMEOUT /\ rounds \in Nat
  BY CountStep DEF CalmTypeOK, TaskTypeOK
<1>2. Together \/ (One /\ EnterMid /\ rounds > 1)
  BY TogetherBefore
<1>3. CASE count = TIMEOUT
  BY <1>3, EdgeFacts DEF ERROR, IDLE
<1>4. CASE count < TIMEOUT /\ One /\ EnterMid /\ rounds > 1
  <2>1. Both
    BY <1>4 DEF Joined, EnterMid
  <2>2. Both'
    BY <1>4, <2>1, BothStep
  <2> QED BY <2>2 DEF Both
<1>5. CASE count < TIMEOUT /\ Together
  <2>1. Mid \/ Tail \/ Front
    BY <1>5 DEF Together
  <2>2. state \in 0..7 <=> next_state \in 0..7
    BY <1>5 DEF Together, Paired
  <2>3. fdu_d1 \in Codes /\ fdu_d1 # 0
    <3>1. CASE Mid
      BY <3>1, LinkedCodes DEF Passed
    <3>2. CASE Tail \/ Front
      BY <3>2 DEF Resting, Codes
    <3> QED BY <2>1, <3>1, <3>2
  <2>4. CASE state \in 0..7
    <3>1. Both'
      BY <1>5, <2>1, <2>2, <2>4, BothStep DEF Both
    <3> QED BY <3>1 DEF Both
  <2>5. CASE state \notin 0..7
    <3>1. state' \notin 0..7 /\ next_state' \notin 0..7
      BY <1>5, <2>2, <2>3, <2>5, EdgeFacts, StaysOut DEF CalmTypeOK, TypeOK
    <3>2. ~health'
      BY <2>5, EdgeFacts DEF SEVEN
    <3> QED BY <3>1, <3>2
  <2> QED BY <2>4, <2>5
<1> QED BY <1>1, <1>2, <1>3, <1>4, <1>5

LEMMA PairedStep ==
  ASSUME CalmEdge
  PROVE  Paired'
<1> USE BoardConstants DEF CalmEdge, Undisturbed
<1>1. count \in Nat /\ count <= TIMEOUT /\ rounds \in Nat /\ 0 \in Int
  BY CountStep DEF CalmTypeOK, TaskTypeOK
<1>2. ASSUME count <= Lap, ~Turn
      PROVE  count' <= Lap'
  BY <1>1, <1>2, CountStep
<1>3. health' => state = SEVEN \/ (health /\ state \in 0..7)
  BY EdgeFacts
<1>4. state' = SEVEN => next_state = SEVEN
  BY StateFromNext DEF SEVEN
<1>5. next_state' = SEVEN => state \in {SIX, SEVEN}
  <2> SUFFICES ASSUME next_state' = SEVEN PROVE state \in {SIX, SEVEN}
    OBVIOUS
  <2>1. FsmStep(state, fdu_d1) = SEVEN
    BY NextStateOnPins DEF SEVEN
  <2> QED BY <2>1, GrayTable DEF FsmStep, Succ, SIX, SEVEN, ZERO, IDLE, ERROR
<1>6. ASSUME Tail \/ Front, state \in 0..7 PROVE state = SEVEN
  BY <1>6, StateOfCode DEF Resting, SettledOn
<1>7. Turn => Mid /\ Last /\ wait = 0
  BY DEF Turn, Last, Mid, Tail, InLoop
<1>8. ASSUME (rounds' > 1 /\ Tail') \/ (rounds' > 2 /\ Front'), state' = SEVEN
      PROVE  count' <= Lap'
  <2>1. Together /\ (Tail \/ Front \/ Turn)
    <3>1. Tail \/ Front \/ Turn
      BY <1>8, PhaseStep
    <3>2. ~(One /\ EnterMid)
      BY <3>1 DEF Tail, Front, Turn, Last, One, EnterMid, InLoop
    <3>3. Together'
      BY <1>8 DEF Together
    <3> QED BY <3>1, <3>2, <3>3, TogetherBefore
  <2>2. state \in 0..7 /\ next_state \in 0..7
    BY <1>4, <1>8, <2>1 DEF Together, Paired, SEVEN
  <2>3. CASE Turn
    <3>1. SettledOn(state) /\ pins = 4
      BY <1>7, <2>3, PinsStep DEF Resting, InLoop, Last, InGoodTime
    <3>2. state = SEVEN /\ Both
      BY <2>2, <3>1, StateOfCode DEF SettledOn, Both
    <3>3. clear \/ count <= WRITE - 1
      BY <1>7, <2>3, <3>2 DEF Ending
    <3>4. count' <= WRITE
      BY <1>1, <3>3, CountStep, EdgeFacts
    <3> QED BY <2>3, <3>4, CountStep
  <2>4. CASE ~Turn
    <3>1. state = SEVEN
      BY <1>6, <2>1, <2>2, <2>4
    <3>2. ~Mid
      BY <2>1, <2>4 DEF Mid, Tail, Front, InLoop
    <3>3. count <= Lap
      BY <2>1, <2>4, <3>1, <3>2 DEF Paired, Together
    <3> QED BY <1>2, <2>4, <3>3
  <2> QED BY <2>3, <2>4
<1>9. ASSUME rounds' > 2, One', health' \/ SEVEN \in {state', next_state'}
      PROVE  Both' /\ count' <= Lap'
  <2>1. ~Turn /\ rounds > 2 /\ (One \/ EnterOne)
    <3>1. One \/ EnterOne
      BY <1>9, PhaseStep
    <3> QED BY <1>9, <3>1, PhaseStep DEF Turn, Last, One, EnterOne, InLoop
  <2>2. CASE One
    <3>1. health \/ SEVEN \in {state, next_state}
      BY <1>3, <1>4, <1>5, <1>9, <2>2 DEF Passed
    <3>2. Both /\ count <= Lap
      BY <2>1, <2>2, <3>1 DEF Paired
    <3>3. count < TIMEOUT
      BY <1>1, <2>1, <2>2, CalmBounds
    <3> QED BY <1>2, <2>1, <2>2, <3>2, <3>3, BothStep
  <2>3. CASE EnterOne
    <3>1. Front
      BY <1>1, <2>1, <2>3 DEF EnterOne, Front, InLoop
    <3>2. state \in 0..7 <=> next_state \in 0..7
      BY <2>1, <3>1 DEF Paired
    <3>3. state \in 0..7
      BY <1>3, <1>4, <1>5, <1>9, <3>2 DEF SIX, SEVEN
    <3>4. Both /\ state = SEVEN
      BY <1>6, <3>1, <3>2, <3>3 DEF Both
    <3>5. count <= Lap /\ count < TIMEOUT
      BY <2>1, <3>1, <3>4, CalmBounds DEF Paired
    <3> QED BY <1>2, <2>1, <3>1, <3>4, <3>5, BothStep
  <2> QED BY <2>1, <2>2, <2>3
<1>10. ASSUME rounds' > 2, Mid', health'
       PROVE  count' <= Lap'
  <2>1. ~Turn /\ rounds > 2 /\ (Mid \/ (One /\ EnterMid))
    BY <1>10, PhaseStep DEF Turn, Last, Mid, One, EnterMid, InLoop
  <2>2. CASE One
    <3>1. health \/ SEVEN \in {state, next_state}
      BY <1>3, <1>10
    <3> QED BY <1>2, <2>1, <2>2, <3>1 DEF Paired
  <2>3. CASE Mid /\ health
    BY <1>2, <2>1, <2>3 DEF Paired
  <2>4. CASE Mid /\ state = SEVEN
    <3>1. Last
      <4>1. Gray[SEVEN] = 4 /\ SEVEN \in 0..7
        BY GrayTable DEF SEVEN
      <4>2. fdu_d1 = 4 \/ Prev[fdu_d1] = 4
        BY <2>4, <4>1 DEF Linked
      <4>3. fdu_d1 \in Codes
        BY <2>4, LinkedCodes
      <4>4. fdu_d1 \in {0, 4}
        BY <4>2, <4>3, PrevTable DEF Codes
      <4> QED BY <2>4, <4>4 DEF Passed
    <3>2. Both
      BY <1>1, <2>1, <2>4 DEF Paired, Both, SEVEN
    <3>3. clear \/ count <= WRITE - 1 - wait
      BY <2>4, <3>1, <3>2 DEF Ending
    <3>4. count' <= WRITE
      <4>1. clear => count' = 0
        BY EdgeFacts
      <4>2. wait \in Nat
        BY DEF CalmTypeOK, TaskTypeOK
      <4> QED BY <1>1, <3>3, <4>1, <4>2, CountStep
    <3>5. Lap >= WRITE
      BY <2>4, LapBounds
    <3> QED BY <2>1, <3>4, <3>5, CountStep
  <2> QED BY <1>3, <1>10, <2>1, <2>2, <2>3, <2>4
<1>11. rounds' > 2 /\ health_d1' => health'
  <2> SUFFICES ASSUME rounds' > 2, health PROVE health'
    BY EdgeFacts
  <2>1. rounds > 2 \/ (pc = "head" /\ rounds > 1)
    <3>1. rounds' <= rounds + 1 /\ rounds' \in Int
      BY <1>1 DEF CalmRun, Waits, Naps, Wakes, Ends, Strokes, Writes
    <3> QED BY <1>1, <3>1, PhaseStep
  <2>2. (Tail /\ rounds > 1) \/ (rounds > 2 /\ (Front \/ One \/ Mid))
    <3>1. CASE pc = "head" \/ pc = "sleep"
      BY <1>1, <2>1, <3>1 DEF Tail, Front
    <3>2. CASE InLoop
      <4>1. i \in 0..8 /\ (i = 8 => pc = "loop") /\ rounds > 2
        BY <2>1, <3>2 DEF InLoop, Place, CalmTypeOK, TaskTypeOK
      <4> QED BY <1>1, <3>2, <4>1 DEF Tail, Front, One, Mid
    <3> QED BY <3>1, <3>2 DEF InLoop, CalmTypeOK, TaskTypeOK
  <2>3. Both
    BY <1>1, <2>2 DEF Paired
  <2>4. count < TIMEOUT
    <3>1. CASE Mid
      BY <1>1, <2>2, <3>1, LapBounds, CountStep DEF Paired, Mid
    <3> QED BY <1>1, <2>2, <3>1, CalmBounds
  <2> QED BY <2>3, <2>4, EdgeFacts DEF Both
<1> QED BY <1>8, <1>9, <1>10, <1>11, TogetherStep DEF Paired, Together

-----------------------------------------------------------------------------
\* An edge keeps an undisturbed board undisturbed.
LEMMA UndisturbedStep ==
  ASSUME CalmEdge, UNCHANGED fdu_mode
  PROVE  Undisturbed'
<1>1. Place'
  BY PlaceStep DEF CalmEdge, Undisturbed
<1>2. Coded'
  BY CodedStep DEF CalmEdge, Undisturbed
<1> QED BY <1>1, <1>2, RestingStep, LinkedStep, PassedStep, EarlyStep, JoinedStep, EndingStep, PairedStep
        DEF CalmEdge, Undisturbed

\* A board that starts, after power-up or a power-on reset.
LEMMA UndisturbedStart ==
  ASSUME CalmTypeOK, pc = "head", wait = 0, i = 0, bit = 0, rounds = 0, fdu_mode = NORMAL
  PROVE  Undisturbed
<1>1. fdu_mode \notin StrokeFaults
  BY DEF StrokeFaults, NORMAL, STUCK, OUT_OF_ORDER, SLOW, RUNAWAY
<1>2. /\ ~InLoop /\ ~Tail /\ ~Front /\ ~One /\ ~Mid /\ ~Last
  BY DEF InLoop, Tail, Front, One, Mid, Last
<1> QED BY <1>1, <1>2 DEF Undisturbed, Place, Resting, Coded, Linked, Passed, Early, Joined, Ending, Paired

\* Every step keeps the invariant, and starts no power-on reset without cause.
LEMMA CalmInvStep ==
  ASSUME ReadOrder = "old", InGoodTime, ROUNDS >= 3, CalmTypeOK, CalmInv, [NextS]_allVars
  PROVE  CalmInv' /\ (~por /\ por' => faulty \/ rounds <= 2)
<1>1. CASE Edge /\ por'
  <2>1. CalmInv'
    BY <1>1 DEF Edge, BoardResets, CalmInv
  <2>2. ASSUME ~por, ~faulty PROVE rounds <= 2
    <3>1. rounds \in Nat /\ (rounds > 2 /\ health_d1 => health)
      BY <2>2, BoardConstants DEF CalmInv, Undisturbed, Paired, CalmTypeOK, TaskTypeOK
    <3>2. ~health /\ health_d1
      BY <1>1, <2>2, Zenon DEF Edge, PorNew
    <3> QED BY <3>1, <3>2
  <2> QED BY <2>1, <2>2 DEF CalmTypeOK
<1>2. CASE Edge /\ ~por'
  <2> SUFFICES ASSUME ~faulty' PROVE Undisturbed'
    BY <1>2 DEF CalmInv
  <2>1. BoardRuns /\ UNCHANGED fdu_mode /\ ~faulty
    BY <1>2 DEF Edge
  <2>2. Undisturbed
    BY <2>1, UndisturbedStart DEF CalmInv, CalmTypeOK
  <2>3. CalmEdge
    BY <1>2, <2>1, <2>2, RunIsCalm DEF CalmEdge, Undisturbed
  <2> QED BY <2>1, <2>3, UndisturbedStep
<1>3. CASE \E err \in ErrorCodes : ErrorInjector(err)
  <2>1. PICK err \in ErrorCodes : ErrorInjector(err)
    BY <1>3
  <2>2. ~por /\ UNCHANGED <<vars, task, fdu_tri, health_d1, por, por_count>>
    BY <2>1 DEF ErrorInjector
  <2>3. ~faulty' => ~faulty /\ fdu_mode' \notin StrokeFaults
    BY <2>1 DEF ErrorInjector
  <2>4. Undisturbed /\ fdu_mode' \notin StrokeFaults => Undisturbed'
    BY <2>2 DEF Undisturbed, Place, Resting, Coded, Linked, Passed, Early, Joined, Ending, Paired,
         InLoop, First, Last, Tail, Front, One, Mid, Both, Torn, Lap, SettledOn, CodeTime, NapTime, vars, task
  <2> QED BY <2>2, <2>3, <2>4 DEF CalmInv
<1>4. CASE UNCHANGED allVars
  <2>1. Undisturbed => Undisturbed'
    BY <1>4 DEF Undisturbed, Place, Resting, Coded, Linked, Passed, Early, Joined, Ending, Paired,
         InLoop, First, Last, Tail, Front, One, Mid, Both, Torn, Lap, SettledOn, CodeTime, NapTime,
         vars, task, allVars
  <2> QED BY <1>4, <2>1 DEF CalmInv, allVars, task
<1> QED BY <1>1, <1>2, <1>3, <1>4 DEF NextS

\* A board that strokes is not reset: as long as no error mode that concerns the
\* strokes has been set in fdu.c since it booted, fdu.v does not start a power-on
\* reset of it, except in its first two rounds of stroke_wdt, which begin with
\* whatever the pins and the watchdog were left at.  For every length of the
\* naps and writes, with next_state of wdt.v a flip-flop, if a nap with 35 writes
\* is shorter than the watchdog's timeout.
THEOREM StrokeNoFalseReset ==
  ASSUME ReadOrder = "old", InGoodTime
  PROVE  SpecS => NoFalseReset
<1> DEFINE Inv == CalmTypeOK /\ (ROUNDS >= 3 => CalmInv)
<1>1. InitS => Inv
  <2> SUFFICES ASSUME InitS PROVE Inv
    OBVIOUS
  <2>1. TypeOK /\ ~reset
    BY TypeInit, Zenon DEF InitS
  <2>2. /\ 0 \in 0..(2 * SLEEP + JITTER + WRITE) /\ 0 \in Codes /\ 0 \in 0..255 /\ 0 \in 0..2
        /\ 0 \in 0..ROUNDS /\ NORMAL \in Modes
    BY BoardConstants DEF Codes, Modes
  <2>3. CalmTypeOK
    BY <2>1, <2>2, Zenon DEF InitS, CalmTypeOK, TaskTypeOK
  <2>4. CalmInv
    BY <2>3, UndisturbedStart DEF InitS, CalmInv
  <2> QED BY <2>3, <2>4
<1>2. Inv /\ [NextS]_allVars => Inv' /\ [~por /\ por' => faulty \/ rounds <= 2]_allVars
  <2> SUFFICES ASSUME Inv, [NextS]_allVars
               PROVE  Inv' /\ (~por /\ por' => faulty \/ rounds <= 2)
    OBVIOUS
  <2>1. CalmTypeOK'
    BY CalmTypeStep
  <2>2. CASE ROUNDS >= 3
    BY <2>1, <2>2, CalmInvStep
  <2>3. CASE ~(ROUNDS >= 3)
    <3>1. rounds <= 2
      BY <2>3, BoardConstants DEF CalmTypeOK, TaskTypeOK
    <3> QED BY <2>1, <2>3, <3>1
  <2> QED BY <2>2, <2>3
<1> QED BY <1>1, <1>2, PTL DEF SpecS, NoFalseReset

=============================================================================
