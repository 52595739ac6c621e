-------------------------- MODULE RedundancyProofs --------------------------
(***************************************************************************)
(* OneMaster and OneAlive for any number of controllers.                   *)
(***************************************************************************)
EXTENDS Redundancy, TLAPS

LEMMA BootedType ==
  ASSUME NEW S, NEW x \in [Strings -> S], NEW r, NEW v \in S
  PROVE  Booted(x, r, v) \in [Strings -> S]
  BY DEF Booted

LEMMA TypeInit == Init => TypeOK
  <1> SUFFICES ASSUME Init PROVE TypeOK
    OBVIOUS
  <1>1. 0 \in Modes /\ 0 \in 0..2
    BY DEF Modes, NORMAL
  <1> QED
    BY <1>1, Zenon DEF Init, InitSelector, TypeOK, Holders

LEMMA TypeStep ==
  ASSUME TypeOK, [Next]_vars
  PROVE  TypeOK'
  <1> USE DEF TypeOK
  <1>0. 0 \in Modes /\ 0 \in 0..2 /\ 2 \in 0..2 /\ 1 \in 0..2
    BY DEF Modes, NORMAL
  <1>1. CASE FduActs
    <2>1. PICK p \in Holders, h \in SUBSET Holders, r \in [Strings -> BOOLEAN] : FduActs!(p, h, r)
      BY <1>1 DEF FduActs
    <2>2. alivePin' \in [Strings -> BOOLEAN]
      BY <2>1
    <2> QED
      BY <2>1, <2>2, <1>0, BootedType, Zenon DEF Select
  <1>2. CASE PressButton
    BY <1>0, <1>2, Zenon DEF PressButton, ButtonReset, Holders
  <1>3. ASSUME NEW s \in Strings, StrokePoll(s) PROVE TypeOK'
    <2>1. stale' \in [Strings -> 0..2]
      BY <1>3 DEF StrokePoll
    <2>2. ISPRIME' \in [Strings -> BOOLEAN]
      BY <1>3 DEF StrokePoll, Polled
    <2> QED
      BY <1>3, <2>1, <2>2, Zenon DEF StrokePoll
  <1>4. ASSUME NEW s \in Strings, AliveIRQ(s) PROVE TypeOK'
    <2>1. stale' \in [Strings -> 0..2]
      BY <1>4 DEF AliveIRQ
    <2>2. aliveValue' \in [Strings -> BOOLEAN] /\ alivePin' \in [Strings -> BOOLEAN]
      BY <1>4 DEF AliveIRQ, AliveLevel
    <2> QED
      BY <1>4, <2>1, <2>2, Zenon DEF AliveIRQ
  <1>5. ASSUME NEW s \in Strings, ErrorInjector(s) PROVE TypeOK'
    <2>1. fdu_mode' \in [Strings -> Modes]
      BY <1>5 DEF ErrorInjector, Injected, Modes
    <2> QED
      BY <1>5, <2>1, Zenon DEF ErrorInjector
  <1>6. ASSUME NEW s \in Strings, Boot(s) PROVE TypeOK'
    BY <1>6 DEF Boot
  <1>7. CASE UNCHANGED vars
    BY <1>7 DEF vars
  <1> QED
    BY <1>1, <1>2, <1>3, <1>4, <1>5, <1>6, <1>7 DEF Next

LEMMA BeliefInit == Init => Belief
  BY DEF Init, InitSelector, Belief

LEMMA BeliefStep ==
  ASSUME TypeOK, Belief, [Next]_vars
  PROVE  Belief'
  <1> USE DEF TypeOK, Belief
  <1>1. CASE FduActs
    <2>1. PICK p \in Holders, h \in SUBSET Holders, r \in [Strings -> BOOLEAN] : FduActs!(p, h, r)
      BY <1>1 DEF FduActs
    <2> SUFFICES ASSUME NEW s \in Strings
                 PROVE  /\ ISPRIME'[s] /\ stale'[s] # 2 => s \in held'
                        /\ up'[s] /\ alivePin'[s] /\ stale'[s] = 0 => s \in held'
                        /\ por'[s] => ~up'[s]
                        /\ ~up'[s] => ~ISPRIME'[s]
                        /\ prime' \in held'
      OBVIOUS
    <2>2. /\ prime' = p /\ held' = h /\ por' = r /\ p \in h
          /\ s \in held /\ s \notin h => por[s]
      BY <2>1 DEF Select
    <2>3. CASE r[s]
      <3>1. ~ISPRIME'[s] /\ ~up'[s]
        BY <2>1, <2>3 DEF Booted
      <3> QED
        BY <2>2, <3>1
    <2>4. CASE ~r[s]
      <3>1. /\ ISPRIME'[s] = ISPRIME[s] /\ alivePin'[s] = alivePin[s]
            /\ stale'[s] = stale[s] /\ up'[s] = up[s]
        BY <2>1, <2>4 DEF Booted
      <3>2. ~por'[s]
        BY <2>2, <2>4
      <3>3. s \in held /\ up[s] => s \in held'
        BY <2>2
      <3> QED
        BY <2>2, <3>1, <3>2, <3>3
    <2> QED
      BY <2>3, <2>4
  <1>2. CASE PressButton
    BY <1>2 DEF PressButton, ButtonReset
  <1>3. ASSUME NEW s \in Strings, StrokePoll(s) PROVE Belief'
    BY <1>3 DEF StrokePoll, Running, Polled
  <1>4. ASSUME NEW s \in Strings, AliveIRQ(s) PROVE Belief'
    BY <1>4 DEF AliveIRQ, Running, AliveLevel
  <1>5. ASSUME NEW s \in Strings, ErrorInjector(s) PROVE Belief'
    BY <1>5 DEF ErrorInjector
  <1>6. ASSUME NEW s \in Strings, Boot(s) PROVE Belief'
    BY <1>6 DEF Boot
  <1>7. CASE UNCHANGED vars
    BY <1>7 DEF vars
  <1> QED
    BY <1>1, <1>2, <1>3, <1>4, <1>5, <1>6, <1>7 DEF Next

LEMMA RedundancyInvariant == Spec => []RedundancyInv
  <1>1. Init => RedundancyInv
    BY TypeInit, BeliefInit DEF RedundancyInv
  <1>2. RedundancyInv /\ [Next]_vars => RedundancyInv'
    BY TypeStep, BeliefStep DEF RedundancyInv
  <1> QED
    BY <1>1, <1>2, PTL DEF Spec

\* The boards' and the selector's state keep their types: an error code read
\* from the pins is never taken for a mode that does not exist.
THEOREM RedundancyTypeCorrect == Spec => []TypeOK
  <1>1. RedundancyInv => TypeOK
    BY DEF RedundancyInv
  <1> QED
    BY <1>1, RedundancyInvariant, PTL

\* Two boards believe to be prime only while the selection of the FDU is divided
\* between them, but for boards that have not polled since the reset button.
THEOREM RedundancyOneMaster == Spec => []OneMaster
  <1>1. RedundancyInv => OneMaster
    BY DEF RedundancyInv, Belief, OneMaster
  <1> QED
    BY <1>1, RedundancyInvariant, PTL

\* Two alive pins are high only while the selection is divided between their
\* boards, but for the aftermath of the reset button.
THEOREM RedundancyOneAlive == Spec => []OneAlive
  <1>1. RedundancyInv => OneAlive
    BY DEF RedundancyInv, TypeOK, Belief, OneAlive
  <1> QED
    BY <1>1, RedundancyInvariant, PTL

=============================================================================
