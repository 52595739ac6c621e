----------------------------- MODULE FduProofs -----------------------------
(***************************************************************************)
(* Machine-checked theorems about the failure detection unit, for every    *)
(* TIMEOUT, POR_TERMINAL_COUNT and Drain, for both outcomes of the race on *)
(* next_state, and for healths that change at any edge.                    *)
(***************************************************************************)
EXTENDS FduErrors, TLAPS

\* The selection names nobody it does not see healthy.
LEMMA NextPrimeHealthy ==
  ASSUME NEW st \in Holders, NEW h \in [Strings -> BOOLEAN], NEW to \in BOOLEAN
  PROVE  /\ NextPrime(st, h, to) \in Holders
         /\ \A s \in Strings : NextPrime(st, h, to) = s => h[s]
  BY DEF NextPrime, Holders, Strings, NO_PRIME

\* B is chosen only after the delay, or as the successor of A or of itself.
LEMMA NextPrimeB ==
  ASSUME NEW st \in Holders, NEW h \in [Strings -> BOOLEAN], NEW to \in BOOLEAN,
         NextPrime(st, h, to) = "B"
  PROVE  to \/ st = "A" \/ st = "B"
  BY DEF NextPrime, Holders, Strings, NO_PRIME

LEMMA AllStringsType ==
  ASSUME NEW S, NEW x \in S
  PROVE  AllStrings(x) \in [Strings -> S]
  BY DEF AllStrings

\* The ranges that hold the values after a reset.
LEMMA ResetRanges ==
  /\ AllStrings(FALSE) \in [Strings -> BOOLEAN]
  /\ AllStrings(0) \in [Strings -> 0..(POR_TERMINAL_COUNT + 1)]
  /\ NO_PRIME \in Holders /\ 0 \in 0..(TIMEOUT + 1)
  <1>1. 0 \in 0..(POR_TERMINAL_COUNT + 1) /\ 0 \in 0..(TIMEOUT + 1)
    BY TimeoutAssumption, PorAssumption
  <1> QED
    BY <1>1, AllStringsType, Zenon DEF Holders

-----------------------------------------------------------------------------
\* The registers of fdu.v stay in range and, where it counts, in step.
Core == TypeOK /\ Drained

LEMMA CoreInit == Init => Core
  <1> SUFFICES ASSUME Init PROVE Core
    OBVIOUS
  <1>1. TypeOK
    BY ResetRanges, Zenon DEF TypeOK, Init
  <1>2. Drained
    BY DEF Drained, Init, AllStrings, Strings
  <1> QED
    BY <1>1, <1>2 DEF Core

\* One string's power-on reset over one clock edge.
LEMMA PorStep ==
  ASSUME NEW p \in BOOLEAN, NEW c \in 0..(POR_TERMINAL_COUNT + 1),
         NEW now \in BOOLEAN, NEW before \in BOOLEAN, NEW h \in BOOLEAN,
         p => /\ c <= POR_TERMINAL_COUNT
              /\ now => c <= Drain + 1
              /\ before => c <= Drain + 2,
         h => ~p \/ c <= Drain
  PROVE  /\ PorNew(p, c, now, before) \in BOOLEAN
         /\ PorCountNew(p, c) \in 0..(POR_TERMINAL_COUNT + 1)
         /\ PorNew(p, c, now, before) =>
              /\ PorCountNew(p, c) <= POR_TERMINAL_COUNT
              /\ h => PorCountNew(p, c) <= Drain + 1
              /\ now => PorCountNew(p, c) <= Drain + 2
  BY PorAssumption, DrainAssumption DEF PorNew, PorCountNew

LEMMA CoreClock ==
  ASSUME Core, Clock
  PROVE  Core'
  <1> USE DEF Core
  <1> DEFINE ns == NextPrime(state, health, to_reached)
  <1>1. PICK h \in [Strings -> BOOLEAN] : Clock!(h)
    BY DEF Clock
  <1>2. ns \in Holders
    BY NextPrimeHealthy DEF TypeOK
  <1>3. ASSUME NEW s \in Strings
        PROVE  /\ por'[s] = PorNew(por[s], por_count[s], health_int[s], health[s])
               /\ por_count'[s] = PorCountNew(por[s], por_count[s])
               /\ health_int'[s] = h[s] /\ health'[s] = health_int[s]
               /\ por'[s] \in BOOLEAN
               /\ por_count'[s] \in 0..(POR_TERMINAL_COUNT + 1)
               /\ por'[s] => /\ por_count'[s] <= POR_TERMINAL_COUNT
                             /\ health_int'[s] => por_count'[s] <= Drain + 1
                             /\ health'[s] => por_count'[s] <= Drain + 2
    <2>1. h[s] => ~por[s] \/ por_count[s] <= Drain
      BY <1>1, <1>3 DEF WatchdogsReport
    <2>2. /\ por[s] \in BOOLEAN /\ por_count[s] \in 0..(POR_TERMINAL_COUNT + 1)
          /\ health_int[s] \in BOOLEAN /\ health[s] \in BOOLEAN /\ h[s] \in BOOLEAN
      BY <1>1, <1>3 DEF TypeOK
    <2>3. por[s] => /\ por_count[s] <= POR_TERMINAL_COUNT
                    /\ health_int[s] => por_count[s] <= Drain + 1
                    /\ health[s] => por_count[s] <= Drain + 2
      BY <1>3 DEF Drained
    <2>4. /\ por'[s] = PorNew(por[s], por_count[s], health_int[s], health[s])
          /\ por_count'[s] = PorCountNew(por[s], por_count[s])
          /\ health_int'[s] = h[s] /\ health'[s] = health_int[s]
      BY <1>1, <1>3
    <2> QED
      BY <2>1, <2>2, <2>3, <2>4, PorStep
  <1>4. Drained'
    BY <1>3 DEF Drained
  <1>5. por' \in [Strings -> BOOLEAN] /\ por_count' \in [Strings -> 0..(POR_TERMINAL_COUNT + 1)]
    <2>1. /\ por' = [s \in Strings |-> por'[s]]
          /\ por_count' = [s \in Strings |-> por_count'[s]]
      BY <1>1
    <2> QED
      BY <2>1, <1>3
  <1>6. next_state' \in Holders /\ state' \in Holders /\ prime' \in Holders
    BY <1>1, <1>2 DEF TypeOK, Read
  <1>7. to_count' \in 0..(TIMEOUT + 1)
    BY <1>1, TimeoutAssumption DEF TypeOK
  <1>8. health_int' \in [Strings -> BOOLEAN] /\ health' \in [Strings -> BOOLEAN]
        /\ to_reached' \in BOOLEAN
    BY <1>1 DEF TypeOK
  <1> QED
    BY <1>4, <1>5, <1>6, <1>7, <1>8 DEF TypeOK

LEMMA CoreReset ==
  ASSUME Core, Reset
  PROVE  Core'
  <1>1. TypeOK'
    BY ResetRanges, Zenon DEF TypeOK, Reset
  <1>2. Drained'
    BY DEF Drained, Reset, AllStrings, Strings
  <1> QED
    BY <1>1, <1>2 DEF Core

LEMMA CoreStep ==
  ASSUME Core, [Next]_vars
  PROVE  Core'
  <1>1. CASE Clock
    BY <1>1, CoreClock
  <1>2. CASE Reset
    BY <1>2, CoreReset
  <1>3. CASE UNCHANGED vars
    BY <1>3 DEF Core, TypeOK, Drained, vars
  <1> QED
    BY <1>1, <1>2, <1>3 DEF Next

\* The registers of fdu.v stay in range; in particular a power-on reset never
\* counts past its terminal count, however often health falls during it.
THEOREM FduTypeCorrect == Spec => []TypeOK
  <1>1. Core /\ [Next]_vars => Core'
    BY CoreStep
  <1>2. Core => TypeOK
    BY DEF Core
  <1> QED
    BY CoreInit, <1>1, <1>2, PTL DEF Spec

-----------------------------------------------------------------------------
\* The history variables and what they say about the selection.
Chain == HistoryTypeOK /\ Trail /\ Entitled

LEMMA ChainInit == InitH => Chain
  <1> SUFFICES ASSUME InitH PROVE Chain
    OBVIOUS
  <1>1. HistoryTypeOK
    <2>1. age \in [Events -> 0..MaxAge]
      BY DEF InitH, MaxAge, Settle
    <2> QED
      BY <2>1, Zenon DEF InitH, HistoryTypeOK
  <1>2. Trail
    BY DEF InitH, Init, Trail, AllStrings, Strings, NO_PRIME
  <1>3. Entitled
    BY DEF InitH, Init, Entitled, NO_PRIME
  <1> QED
    BY <1>1, <1>2, <1>3 DEF Chain

\* Health gets older by one edge at a time.
LEMMA FreshStep ==
  ASSUME TypeOK, HistoryTypeOK, ObserveClock, health_int' \in [Strings -> BOOLEAN],
         NEW s \in Strings, NEW n \in 0..2, Fresh(s, n)
  PROVE  Fresh(s, n + 1)'
  <1>1. s \in Events /\ s # "to_reached"
    BY DEF Events, Strings
  <1>2. age'[s] = IF health_int'[s] # health_int[s] THEN 0
                  ELSE IF age[s] < MaxAge THEN age[s] + 1 ELSE age[s]
    BY <1>1 DEF ObserveClock, Level
  <1>3. age[s] \in 0..4 /\ MaxAge = 4
    BY <1>1 DEF HistoryTypeOK, MaxAge, Settle
  <1>4. CASE health_int'[s]
    BY <1>4 DEF Fresh
  <1>5. CASE ~health_int'[s] /\ health_int[s]
    <2>1. age'[s] = 0
      BY <1>2, <1>5, Zenon
    <2>2. age'[s] <= n + 1
      BY <2>1
    <2> QED
      BY <2>2, Zenon DEF Fresh
  <1>6. CASE ~health_int'[s] /\ ~health_int[s]
    <2>0. health_int'[s] = health_int[s]
      BY <1>6 DEF TypeOK
    <2>1. age'[s] = IF age[s] < MaxAge THEN age[s] + 1 ELSE age[s]
      BY <2>0, <1>2, Zenon
    <2>2. age[s] <= n
      BY <1>6 DEF Fresh
    <2>3. age'[s] <= n + 1
      BY <2>1, <2>2, <1>3
    <2> QED
      BY <2>3, Zenon DEF Fresh
  <1> QED
    BY <1>4, <1>5, <1>6

\* A verdict that was good before the edge is good or just withdrawn after it.
LEMMA FreshNow ==
  ASSUME TypeOK, ObserveClock, health_int' \in [Strings -> BOOLEAN],
         NEW s \in Strings, health_int[s]
  PROVE  Fresh(s, 0)'
  <1>1. s \in Events /\ s # "to_reached"
    BY DEF Events, Strings
  <1>2. CASE health_int'[s]
    BY <1>2 DEF Fresh
  <1>3. CASE ~health_int'[s]
    <2>1. health_int'[s] # health_int[s]
      BY <1>3
    <2>2. age'[s] = 0
      BY <2>1, <1>1 DEF ObserveClock, Level
    <2>3. age'[s] <= 0
      BY <2>2
    <2> QED
      BY <2>3, Zenon DEF Fresh
  <1> QED
    BY <1>2, <1>3

LEMMA ChainClock ==
  ASSUME Core, Core', Chain, ClockH
  PROVE  Chain'
  <1> DEFINE ns == NextPrime(state, health, to_reached)
  <1> USE DEF Chain
  <1>0. TypeOK /\ TypeOK' /\ ObserveClock
    BY DEF Core, ClockH
  <1>1. PICK h \in [Strings -> BOOLEAN] : Clock!(h)
    BY DEF Clock, ClockH
  <1>2. /\ health' = health_int /\ next_state' = ns /\ state' = Read(ns)
        /\ prime' = state /\ to_reached' = (to_reached \/ to_count > TIMEOUT)
    BY <1>1
  <1>3. health_int' \in [Strings -> BOOLEAN]
    BY <1>0 DEF TypeOK
  <1>4. /\ state \in Holders /\ health \in [Strings -> BOOLEAN] /\ to_reached \in BOOLEAN
    BY <1>0 DEF TypeOK
  <1>5. HistoryTypeOK'
    <2>1. age' \in [Events -> 0..MaxAge]
      BY <1>0 DEF ObserveClock, HistoryTypeOK, MaxAge, Settle
    <2>2. hadA' \in BOOLEAN
      BY <1>0, Zenon DEF ObserveClock, HistoryTypeOK
    <2>3. heir' \in {"no", "ready", "took"}
      BY <1>0 DEF ObserveClock, HistoryTypeOK
    <2> QED
      BY <2>1, <2>2, <2>3 DEF HistoryTypeOK
  <1>6. Trail'
    <2> SUFFICES ASSUME NEW s \in Strings
                 PROVE  /\ health'[s] => Fresh(s, 0)'
                        /\ next_state' = s => Fresh(s, 1)'
                        /\ state' = s => Fresh(s, 2)'
                        /\ prime' = s => Fresh(s, 3)'
      BY DEF Trail
    <2>1. /\ health[s] => Fresh(s, 0)
          /\ next_state = s => Fresh(s, 1)
          /\ state = s => Fresh(s, 2)
      BY DEF Trail
    <2>2. health'[s] => Fresh(s, 0)'
      BY <1>0, <1>2, <1>3, FreshNow
    <2>3. ns = s => Fresh(s, 1)'
      <3> SUFFICES ASSUME ns = s PROVE Fresh(s, 1)'
        OBVIOUS
      <3>1. Fresh(s, 0)
        BY <2>1, <1>4, NextPrimeHealthy
      <3>2. Fresh(s, 0 + 1)'
        BY <3>1, <1>0, <1>3, FreshStep
      <3> QED
        BY <3>2
    <2>4. next_state = s => Fresh(s, 2)'
      <3> SUFFICES ASSUME next_state = s PROVE Fresh(s, 2)'
        OBVIOUS
      <3>1. Fresh(s, 1 + 1)'
        BY <2>1, <1>0, <1>3, FreshStep
      <3> QED
        BY <3>1
    <2>5. state = s => Fresh(s, 3)'
      <3> SUFFICES ASSUME state = s PROVE Fresh(s, 3)'
        OBVIOUS
      <3>1. Fresh(s, 2 + 1)'
        BY <2>1, <1>0, <1>3, FreshStep
      <3> QED
        BY <3>1
    <2>6. Fresh(s, 1)' => Fresh(s, 2)'
      <3>1. age'[s] \in 0..MaxAge
        BY <1>5 DEF HistoryTypeOK, Events
      <3>2. age'[s] <= 1 => age'[s] <= 2
        BY <3>1 DEF MaxAge, Settle
      <3> QED
        BY <3>2, Zenon DEF Fresh
    <2>7. state' = s => Fresh(s, 2)'
      BY <1>2, <2>3, <2>4, <2>6 DEF Read
    <2> QED
      BY <1>2, <2>2, <2>3, <2>5, <2>7
  <1>7. Entitled'
    <2> SUFFICES ASSUME next_state' = "B" \/ state' = "B" \/ prime' = "B", ~to_reached'
                 PROVE  hadA'
      BY DEF Entitled
    <2>1. ~to_reached
      BY <1>2
    <2>2. hadA \/ prime' = "A" => hadA'
      BY <1>0 DEF ObserveClock
    <2>3. next_state = "B" \/ state = "B" => hadA
      BY <2>1 DEF Entitled
    <2>4. ns = "B" => state = "A" \/ state = "B"
      BY <1>4, <2>1, NextPrimeB
    <2>5. ns = "B" \/ next_state = "B" \/ state = "B"
      BY <1>2 DEF Read
    <2> QED
      BY <1>2, <2>2, <2>3, <2>4, <2>5
  <1> QED
    BY <1>5, <1>6, <1>7

LEMMA ChainReset ==
  ASSUME Chain, Reset, ObserveReset
  PROVE  Chain'
  <1>1. HistoryTypeOK'
    <2>1. age' \in [Events -> 0..MaxAge]
      BY DEF ObserveReset, MaxAge, Settle
    <2> QED
      BY <2>1, Zenon DEF ObserveReset, HistoryTypeOK
  <1>2. Trail'
    BY DEF Reset, Trail, AllStrings, Strings, NO_PRIME
  <1>3. Entitled'
    BY DEF Reset, Entitled, NO_PRIME
  <1> QED
    BY <1>1, <1>2, <1>3 DEF Chain

LEMMA FduInvariant == SpecH => [](Core /\ Chain)
  <1>1. InitH => Core /\ Chain
    BY CoreInit, ChainInit DEF InitH
  <1>2. Core /\ Chain /\ [NextH]_allvars => Core' /\ Chain'
    <2> SUFFICES ASSUME Core, Chain, [NextH]_allvars PROVE Core' /\ Chain'
      OBVIOUS
    <2>1. [Next]_vars
      BY DEF NextH, ClockH, Next, allvars
    <2>2. Core'
      BY <2>1, CoreStep
    <2>3. CASE ClockH
      BY <2>2, <2>3, ChainClock
    <2>4. CASE Reset /\ ObserveReset
      BY <2>2, <2>4, ChainReset
    <2>5. CASE UNCHANGED allvars
      BY <2>2, <2>5
      DEF Chain, HistoryTypeOK, Trail, Fresh, Entitled, allvars, vars, history
    <2> QED
      BY <2>3, <2>4, <2>5 DEF NextH
  <1> QED
    BY <1>1, <1>2, PTL DEF SpecH

\* A dead string is not left in charge: prime of fdu.v names a string at most 3
\* edges after its watchdog gave it up, whichever way the race goes.
THEOREM FduPrimeIsHealthy == SpecH => []PrimeIsHealthy
  <1>1. Core /\ Chain => PrimeIsHealthy
    BY DEF Core, Chain, TypeOK, Trail, Fresh, PrimeIsHealthy, Holders
  <1> QED
    BY <1>1, FduInvariant, PTL

\* During the power-up delay of fdu.v string B is prime only where A has been.
THEOREM FduStringBWaits == SpecH => []StringBWaits
  <1>1. Core /\ Chain => StringBWaits
    BY DEF Chain, Entitled, StringBWaits
  <1> QED
    BY <1>1, FduInvariant, PTL

-----------------------------------------------------------------------------
\* The age of an event over one clock edge.
LEMMA AgeStep ==
  ASSUME HistoryTypeOK, ObserveClock, NEW e \in Events
  PROVE  /\ MaxAge = 4 /\ age[e] \in 0..4 /\ age'[e] \in 0..4
         /\ Level(e)' = Level(e) => age'[e] = IF age[e] < 4 THEN age[e] + 1 ELSE age[e]
         /\ Level(e)' # Level(e) => age'[e] = 0
  <1>1. age[e] \in 0..4 /\ MaxAge = 4
    BY DEF HistoryTypeOK, MaxAge, Settle
  <1>2. age'[e] = IF Level(e)' # Level(e) THEN 0
                  ELSE IF age[e] < MaxAge THEN age[e] + 1 ELSE age[e]
    BY Zenon DEF ObserveClock
  <1>3. /\ Level(e)' = Level(e) => age'[e] = IF age[e] < 4 THEN age[e] + 1 ELSE age[e]
        /\ Level(e)' # Level(e) => age'[e] = 0
    BY <1>1, <1>2, Zenon
  <1>4. age'[e] \in 0..4
    <2>1. CASE Level(e)' = Level(e)
      BY <2>1, <1>1, <1>3
    <2>2. CASE Level(e)' # Level(e)
      <3>1. age'[e] = 0
        BY <2>2, <1>3
      <3> QED
        BY <3>1
    <2> QED
      BY <2>1, <2>2
  <1> QED
    BY <1>1, <1>3, <1>4

\* A string that stays out gets older.
LEMMA OutAges ==
  ASSUME TypeOK, TypeOK', HistoryTypeOK, ObserveClock, NEW s \in Strings,
         ~health_int[s], ~health_int'[s]
  PROVE  /\ MaxAge = 4 /\ age[s] \in 0..4
         /\ age'[s] = IF age[s] < 4 THEN age[s] + 1 ELSE age[s]
  <1>1. s \in Events /\ s # "to_reached"
    BY DEF Events, Strings
  <1>2. Level(s) = health_int[s] /\ Level(s)' = health_int'[s]
    BY <1>1, Zenon DEF Level
  <1>3. health_int'[s] = health_int[s]
    BY DEF TypeOK
  <1>4. Level(s)' = Level(s)
    BY <1>2, <1>3
  <1> QED
    BY <1>1, <1>4, AgeStep

LEMMA AgedClock ==
  ASSUME Core, Core', HistoryTypeOK, HistoryTypeOK', Aged, ClockH
  PROVE  Aged'
  <1> SUFFICES ASSUME NEW s \in Strings, por'[s], ~health_int'[s]
               PROVE  age'[s] = MaxAge \/ age'[s] >= por_count'[s] - (Drain + 2)
    BY DEF Aged
  <1>0. TypeOK /\ TypeOK' /\ ObserveClock
    BY DEF Core, ClockH
  <1>1. PICK h \in [Strings -> BOOLEAN] : Clock!(h)
    BY DEF Clock, ClockH
  <1>2. por_count'[s] = IF por[s] THEN por_count[s] + 1 ELSE 0
    BY <1>1 DEF PorCountNew
  <1>3. /\ por_count[s] \in Nat /\ age'[s] \in 0..4 /\ MaxAge = 4 /\ Drain \in Nat
    BY <1>0, PorAssumption, DrainAssumption
    DEF TypeOK, HistoryTypeOK, MaxAge, Settle, Events
  <1>4. CASE ~por[s]
    <2>1. por_count'[s] = 0
      BY <1>2, <1>4
    <2> QED
      BY <2>1, <1>3
  <1>5. CASE por[s] /\ health_int[s]
    <2>1. por_count[s] <= Drain + 1
      BY <1>5 DEF Core, Drained
    <2>2. por_count'[s] = por_count[s] + 1
      BY <1>2, <1>5
    <2> QED
      BY <2>1, <2>2, <1>3
  <1>6. CASE por[s] /\ ~health_int[s]
    <2>1. age[s] = MaxAge \/ age[s] >= por_count[s] - (Drain + 2)
      BY <1>6 DEF Aged
    <2>2. por_count'[s] = por_count[s] + 1
      BY <1>2, <1>6
    <2>3. age[s] \in 0..4 /\ age'[s] = IF age[s] < 4 THEN age[s] + 1 ELSE age[s]
      BY <1>0, <1>6, OutAges
    <2> QED
      BY <2>1, <2>2, <2>3, <1>3
  <1> QED
    BY <1>4, <1>5, <1>6

\* Who is fit now has been fit an edge ago, one edge less long.
LEMMA HealthyBefore ==
  ASSUME HistoryTypeOK, ObserveClock, TypeOK, TypeOK',
         NEW s \in Strings, NEW n \in 0..3, Healthy(s, n + 1)'
  PROVE  Healthy(s, n)
  <1>1. s \in Events /\ s # "to_reached"
    BY DEF Events, Strings
  <1>2. Level(s) = health_int[s] /\ Level(s)' = health_int'[s]
    BY <1>1, Zenon DEF Level
  <1>3. health_int'[s] /\ age'[s] >= n + 1
    BY DEF Healthy
  <1>4. age'[s] # 0
    BY <1>3
  <1>5. Level(s)' = Level(s)
    BY <1>1, <1>4, AgeStep
  <1>6. health_int[s]
    BY <1>2, <1>3, <1>5
  <1>7. age[s] \in 0..4 /\ age'[s] = IF age[s] < 4 THEN age[s] + 1 ELSE age[s]
    BY <1>1, <1>5, AgeStep
  <1>8. age[s] >= n
    BY <1>3, <1>7
  <1> QED
    BY <1>6, <1>8 DEF Healthy

LEMMA ReadyBefore ==
  ASSUME HistoryTypeOK, ObserveClock, TypeOK, TypeOK', NEW n \in 0..3, Ready(n + 1)'
  PROVE  Ready(n)
  <1>1. CASE Healthy("A", n + 1)'
    BY <1>1, HealthyBefore DEF Ready, Strings
  <1>2. CASE Healthy("B", n + 1)' /\ to_reached' /\ age'["to_reached"] >= n + 1
    <2>1. Healthy("B", n)
      BY <1>2, HealthyBefore DEF Strings
    <2>2. "to_reached" \in Events
      BY DEF Events
    <2>3. Level("to_reached") = to_reached /\ Level("to_reached")' = to_reached'
      BY DEF Level
    <2>4. age'["to_reached"] # 0
      BY <1>2
    <2>5. Level("to_reached")' = Level("to_reached")
      BY <2>2, <2>4, AgeStep
    <2>6. to_reached
      BY <1>2, <2>3, <2>5
    <2>7. /\ age["to_reached"] \in 0..4
          /\ age'["to_reached"] = IF age["to_reached"] < 4 THEN age["to_reached"] + 1
                                                           ELSE age["to_reached"]
      BY <2>2, <2>5, AgeStep
    <2>8. age["to_reached"] >= n
      BY <1>2, <2>7
    <2> QED
      BY <2>1, <2>6, <2>8 DEF Ready
  <1> QED
    BY <1>1, <1>2 DEF Ready

\* The selection names somebody if it sees somebody fit.
LEMMA NextPrimeSomebody ==
  ASSUME NEW st \in Holders, NEW h \in [Strings -> BOOLEAN], NEW to \in BOOLEAN,
         h["A"] \/ (h["B"] /\ to)
  PROVE  NextPrime(st, h, to) # NO_PRIME
  BY DEF NextPrime, Holders, Strings, NO_PRIME

LEMMA ChargedClock ==
  ASSUME Core, Core', HistoryTypeOK, HistoryTypeOK', Charged, ClockH
  PROVE  Charged'
  <1> DEFINE ns == NextPrime(state, health, to_reached)
  <1>0. TypeOK /\ TypeOK' /\ ObserveClock
    BY DEF Core, ClockH
  <1>1. PICK h \in [Strings -> BOOLEAN] : Clock!(h)
    BY DEF Clock, ClockH
  <1>2. health' = health_int /\ next_state' = ns /\ state' = Read(ns) /\ prime' = state
    BY <1>1
  <1>3. ASSUME NEW s \in Strings, Healthy(s, 1)' PROVE health'[s]
    <2>1. Healthy(s, 0 + 1)'
      BY <1>3
    <2>2. Healthy(s, 0)
      BY <2>1, <1>0, HealthyBefore
    <2> QED
      BY <2>2, <1>2 DEF Healthy
  <1>4. Ready(2)' => Ready(1)
    <2>1. Ready(2)' => Ready(1 + 1)'
      OBVIOUS
    <2> QED
      BY <2>1, <1>0, ReadyBefore
  <1>5. Ready(1) => ns # NO_PRIME
    <2> SUFFICES ASSUME Ready(1) PROVE ns # NO_PRIME
      OBVIOUS
    <2>1. health["A"] \/ (health["B"] /\ to_reached)
      BY DEF Ready, Charged, Strings
    <2> QED
      BY <2>1, <1>0, NextPrimeSomebody DEF TypeOK
  <1>6. Ready(3)' => Ready(2)
    <2>1. Ready(3)' => Ready(2 + 1)'
      OBVIOUS
    <2> QED
      BY <2>1, <1>0, ReadyBefore
  <1>7. Ready(4)' => Ready(3)
    <2>1. Ready(4)' => Ready(3 + 1)'
      OBVIOUS
    <2> QED
      BY <2>1, <1>0, ReadyBefore
  <1>8. Ready(2) => Ready(1)
    <2>1. ASSUME NEW e \in Events PROVE age[e] >= 2 => age[e] >= 1
      <3>1. age[e] \in 0..4
        BY DEF HistoryTypeOK, MaxAge, Settle
      <3> QED
        BY <3>1
    <2> QED
      BY <2>1 DEF Ready, Healthy, Events, Strings
  <1>9. Ready(3)' => state' # NO_PRIME
    BY <1>2, <1>5, <1>6, <1>8 DEF Read, Charged
  <1>10. /\ Ready(2)' => next_state' # NO_PRIME
         /\ Ready(4)' => prime' # NO_PRIME
    BY <1>2, <1>4, <1>5, <1>7 DEF Charged
  <1> QED
    BY <1>3, <1>9, <1>10 DEF Charged

\* After a reset nobody is healthy and nobody is held in reset.
LEMMA AgedChargedReset ==
  ASSUME Reset
  PROVE  Aged' /\ Charged'
  <1>1. \A s \in Strings : ~por'[s] /\ ~health_int'[s]
    BY DEF Reset, AllStrings
  <1> QED
    BY <1>1 DEF Aged, Charged, Ready, Healthy, Strings

LEMMA AgedChargedInit == InitH => Aged /\ Charged
  <1> SUFFICES ASSUME InitH PROVE Aged /\ Charged
    OBVIOUS
  <1>1. \A s \in Strings : ~por[s] /\ ~health_int[s]
    BY DEF InitH, Init, AllStrings
  <1> QED
    BY <1>1 DEF Aged, Charged, Ready, Healthy, Strings

LEMMA FduAgedCharged == SpecH => [](Core /\ Chain /\ Aged /\ Charged)
  <1>1. Core /\ Core' /\ Chain /\ Chain' /\ Aged /\ Charged /\ [NextH]_allvars
          => Aged' /\ Charged'
    <2> SUFFICES ASSUME Core, Core', Chain, Chain', Aged, Charged, [NextH]_allvars
                 PROVE  Aged' /\ Charged'
      OBVIOUS
    <2>1. CASE ClockH
      BY <2>1, AgedClock, ChargedClock DEF Chain
    <2>2. CASE Reset /\ ObserveReset
      BY <2>2, AgedChargedReset
    <2>3. CASE UNCHANGED allvars
      BY <2>3 DEF Aged, Charged, Ready, Healthy, allvars, vars, history
    <2> QED
      BY <2>1, <2>2, <2>3 DEF NextH
  <1> QED
    BY <1>1, AgedChargedInit, FduInvariant, PTL DEF SpecH

\* The motor is not left alone: fdu.v has somebody prime whenever a string has
\* been fit for Settle edges, whatever the other one does meanwhile.
THEOREM FduSomebodyInCharge == SpecH => []SomebodyInCharge
  <1>1. Charged => SomebodyInCharge
    BY DEF Charged, Ready, SomebodyInCharge, Settle
  <1> QED
    BY <1>1, FduAgedCharged, PTL

\* A board starts afresh: when fdu.v releases its power-on reset it is neither
\* prime nor healthy.
THEOREM FduFreshStart == SpecH => FreshStart
  <1>1. Core /\ Chain /\ Aged /\ [NextH]_allvars
          => [\A s \in Strings : por[s] /\ ~por'[s] /\ ~ResetPressed
                => ~health_int[s] /\ prime # s]_allvars
    <2> SUFFICES ASSUME Core, Chain, Aged, NextH, NEW s \in Strings,
                        por[s], ~por'[s], ~ResetPressed
                 PROVE  ~health_int[s] /\ prime # s
      OBVIOUS
    <2>1. Clock
      BY DEF NextH, ClockH, Reset, ResetPressed
    <2>2. PICK h \in [Strings -> BOOLEAN] : Clock!(h)
      BY <2>1 DEF Clock
    <2>3. ~PorNew(por[s], por_count[s], health_int[s], health[s])
      BY <2>2
    <2>4. por_count[s] \in Nat /\ Drain \in Nat /\ POR_TERMINAL_COUNT \in Nat
      BY PorAssumption, DrainAssumption DEF Core, TypeOK
    <2>5. por_count[s] >= POR_TERMINAL_COUNT
      BY <2>3, <2>4, PorAssumption DEF PorNew
    <2>6. health_int[s] => por_count[s] <= Drain + 1
      BY DEF Core, Drained
    <2>7. ~health_int[s]
      BY <2>4, <2>5, <2>6, DrainAssumption
    <2>8. age[s] = MaxAge \/ age[s] >= por_count[s] - (Drain + 2)
      BY <2>7 DEF Aged
    <2>9. ~(age[s] <= 3)
      <3>1. age[s] \in 0..4 /\ MaxAge = 4
        BY DEF Chain, HistoryTypeOK, MaxAge, Settle, Events
      <3> QED
        BY <3>1, <2>4, <2>5, <2>8, DrainAssumption
    <2> QED
      BY <2>7, <2>9 DEF Chain, Trail, Fresh
  <1> QED
    BY <1>1, FduAgedCharged, PTL DEF SpecH, FreshStart

-----------------------------------------------------------------------------
(***************************************************************************)
(* The error inputs.  They only restrict what the watchdogs report, so the *)
(* theorems above hold of the FDU with them; what is new is that a pulse   *)
(* on the line of the test equipment runs its course.                      *)
(***************************************************************************)
\* The error inputs of fdu.v take nothing away from the selection and the
\* power-on reset: whatever is proved of SpecH holds of SpecE.
THEOREM FduErrorsImplement == SpecE => SpecH
  <1>1. InitE => InitH
    BY DEF InitE
  <1>2. [NextE]_errVars => [NextH]_allvars
    BY DEF NextE, ClockE, ResetE, NextH, errVars
  <1> QED
    BY <1>1, <1>2, PTL DEF SpecE, SpecH

LEMMA TripleType ==
  \A a, b, c \in BOOLEAN : <<a, b, c>> \in [1..3 -> BOOLEAN]
  OBVIOUS

LEMMA MaskTypeInit == InitE => MaskTypeOK
  <1> SUFFICES ASSUME InitE PROVE MaskTypeOK
    OBVIOUS
  <1>1. <<FALSE, FALSE, FALSE>> \in [1..3 -> BOOLEAN]
    BY TripleType, Zenon
  <1>2. 0 \in 0..StruckOut /\ 0 \in 0..(Drain + 1) /\ 0 \in 0..MAX_CNT
    BY DrainAssumption, MaskAssumption DEF StruckOut, Settle
  <1> QED
    BY <1>1, <1>2, AllStringsType, Zenon DEF InitE, MaskTypeOK

\* One string's mask over a clock edge.
LEMMA MaskStep ==
  ASSUME MaskTypeOK, NEW error_bte \in [Strings -> BOOLEAN],
         NEW error_sw \in [Strings -> BOOLEAN], MaskClock(error_bte, error_sw),
         NEW s \in Strings
  PROVE  /\ error_bte_d'[s] = <<error_bte[s] /\ ignore_bte, error_bte_d[s][1], error_bte_d[s][2]>>
         /\ error_bte_diff'[s] = (error_bte_diff[s] \/ (error_bte_d[s][2] /\ ~error_bte_d[s][3]))
         /\ floating'[s] = IF ~error_sw[s] /\ ~error_bte_diff[s] THEN 0
                           ELSE IF floating[s] <= Drain THEN floating[s] + 1 ELSE floating[s]
         /\ struck'[s] = IF struck[s] = 0 THEN IF error_bte[s] /\ ignore_bte THEN 1 ELSE 0
                         ELSE IF struck[s] < StruckOut THEN struck[s] + 1 ELSE StruckOut
  BY Zenon DEF MaskClock, DiffNew, Unmasked

LEMMA MaskTypeClock ==
  ASSUME MaskTypeOK, ClockE
  PROVE  MaskTypeOK'
  <1>1. PICK error_bte \in [Strings -> BOOLEAN], error_sw \in [Strings -> BOOLEAN] :
          MaskClock(error_bte, error_sw)
    BY DEF ClockE
  <1>2. clk_cnt' \in 0..MAX_CNT
    BY <1>1, MaskAssumption DEF MaskTypeOK, MaskClock, CntNew
  <1>3. ignore_bte' \in BOOLEAN
    BY <1>1, Zenon DEF MaskTypeOK, MaskClock
  <1>4. error_bte_diff' \in [Strings -> BOOLEAN]
    BY <1>1, Zenon DEF MaskTypeOK, MaskClock, DiffNew
  <1>5. error_bte_d' \in [Strings -> [1..3 -> BOOLEAN]]
    <2>1. ASSUME NEW s \in Strings
          PROVE  <<Unmasked(error_bte[s]), error_bte_d[s][1], error_bte_d[s][2]>>
                   \in [1..3 -> BOOLEAN]
      <3>1. error_bte_d[s][1] \in BOOLEAN /\ error_bte_d[s][2] \in BOOLEAN
        BY DEF MaskTypeOK
      <3>2. Unmasked(error_bte[s]) \in BOOLEAN
        BY Zenon DEF Unmasked
      <3> QED
        BY <3>1, <3>2, TripleType, Zenon
    <2> QED
      BY <1>1, <2>1, Zenon DEF MaskClock
  <1>6. floating' \in [Strings -> 0..(Drain + 1)]
    BY <1>1, DrainAssumption DEF MaskTypeOK, MaskClock
  <1>7. struck' \in [Strings -> 0..StruckOut]
    BY <1>1, DrainAssumption DEF MaskTypeOK, MaskClock, StruckOut, Settle
  <1> QED
    BY <1>2, <1>3, <1>4, <1>5, <1>6, <1>7 DEF MaskTypeOK

LEMMA StruckClock ==
  ASSUME Core, Core', HistoryTypeOK, HistoryTypeOK', MaskTypeOK, MaskTypeOK', Struck, ClockE
  PROVE  Struck'
  <1>0. TypeOK /\ TypeOK' /\ ObserveClock
    BY DEF Core, ClockE, ClockH
  <1>1. PICK error_bte \in [Strings -> BOOLEAN], error_sw \in [Strings -> BOOLEAN] :
          MaskClock(error_bte, error_sw)
    BY DEF ClockE
  <1> SUFFICES ASSUME NEW s \in Strings
               PROVE  /\ struck'[s] = 0 => /\ ~error_bte_d'[s][1] /\ ~error_bte_d'[s][2]
                                           /\ ~error_bte_d'[s][3] /\ ~error_bte_diff'[s]
                      /\ struck'[s] = 1 => /\ error_bte_d'[s][1] /\ ~error_bte_d'[s][2]
                                           /\ ~error_bte_d'[s][3]
                      /\ struck'[s] = 2 => error_bte_d'[s][2] /\ ~error_bte_d'[s][3]
                      /\ struck'[s] >= 3 => error_bte_diff'[s]
                      /\ struck'[s] >= 3 => \/ floating'[s] = Drain + 1
                                            \/ floating'[s] >= struck'[s] - 3
                      /\ struck'[s] >= Drain + 5 => ~health_int'[s]
                      /\ struck'[s] >= Drain + 5 => \/ age'[s] = MaxAge
                                                    \/ age'[s] >= struck'[s] - (Drain + 5)
    BY DEF Struck
  <1> DEFINE d == error_bte_d[s]
  <1>2. /\ struck[s] = 0 => ~d[1] /\ ~d[2] /\ ~d[3] /\ ~error_bte_diff[s]
        /\ struck[s] = 1 => d[1] /\ ~d[2] /\ ~d[3]
        /\ struck[s] = 2 => d[2] /\ ~d[3]
        /\ struck[s] >= 3 => error_bte_diff[s]
        /\ struck[s] >= 3 => floating[s] = Drain + 1 \/ floating[s] >= struck[s] - 3
        /\ struck[s] >= Drain + 5 => ~health_int[s]
        /\ struck[s] >= Drain + 5 => age[s] = MaxAge \/ age[s] >= struck[s] - (Drain + 5)
    BY DEF Struck
  <1>3. /\ struck[s] \in 0..StruckOut /\ struck'[s] \in 0..StruckOut
        /\ floating[s] \in 0..(Drain + 1) /\ floating'[s] \in 0..(Drain + 1)
        /\ StruckOut = Drain + 10 /\ Drain \in Nat
    BY DrainAssumption DEF MaskTypeOK, StruckOut, Settle
  <1>4. age'[s] \in 0..4 /\ MaxAge = 4
    BY DEF HistoryTypeOK, MaxAge, Settle, Events
  <1>5. struck'[s] = IF struck[s] = 0 THEN IF error_bte[s] /\ ignore_bte THEN 1 ELSE 0
                     ELSE IF struck[s] < StruckOut THEN struck[s] + 1 ELSE StruckOut
    BY <1>1, MaskStep
  <1>6. /\ error_bte_d'[s][1] = (error_bte[s] /\ ignore_bte)
        /\ error_bte_d'[s][2] = d[1] /\ error_bte_d'[s][3] = d[2]
        /\ error_bte_diff'[s] = (error_bte_diff[s] \/ (d[2] /\ ~d[3]))
    BY <1>1, MaskStep
  <1>7. struck'[s] >= 3 => struck[s] >= 2
    BY <1>3, <1>5
  <1>8. struck'[s] = 0 => struck[s] = 0 /\ ~(error_bte[s] /\ ignore_bte)
    BY <1>3, <1>5
  <1>9. struck'[s] = 1 => struck[s] = 0 /\ error_bte[s] /\ ignore_bte
    BY <1>3, <1>5
  <1>10. struck'[s] = 2 => struck[s] = 1
    BY <1>3, <1>5
  <1>11. struck[s] >= 2 => struck[s] = 2 \/ struck[s] >= 3
    BY <1>3
  <1>12. /\ struck'[s] = 0 => /\ ~error_bte_d'[s][1] /\ ~error_bte_d'[s][2]
                              /\ ~error_bte_d'[s][3] /\ ~error_bte_diff'[s]
         /\ struck'[s] = 1 => /\ error_bte_d'[s][1] /\ ~error_bte_d'[s][2]
                              /\ ~error_bte_d'[s][3]
         /\ struck'[s] = 2 => error_bte_d'[s][2] /\ ~error_bte_d'[s][3]
         /\ struck'[s] >= 3 => error_bte_diff'[s]
    BY <1>2, <1>6, <1>7, <1>8, <1>9, <1>10, <1>11, Zenon
  <1>13. struck'[s] >= 3 => floating'[s] = Drain + 1 \/ floating'[s] >= struck'[s] - 3
    <2> SUFFICES ASSUME struck'[s] >= 3
                 PROVE  floating'[s] = Drain + 1 \/ floating'[s] >= struck'[s] - 3
      OBVIOUS
    <2>1. CASE struck[s] = 2
      <3>1. struck'[s] = 3
        BY <2>1, <1>3, <1>5
      <3> QED
        BY <3>1, <1>3
    <2>2. CASE struck[s] >= 3
      <3>1. floating'[s] = IF ~error_sw[s] /\ ~error_bte_diff[s] THEN 0
                           ELSE IF floating[s] <= Drain THEN floating[s] + 1 ELSE floating[s]
        BY <1>1, MaskStep
      <3>2. floating'[s] = IF floating[s] <= Drain THEN floating[s] + 1 ELSE floating[s]
        BY <3>1, <2>2, <1>2, Zenon
      <3>3. struck'[s] = struck[s] \/ struck'[s] = struck[s] + 1
        BY <2>2, <1>3, <1>5
      <3> QED
        BY <2>2, <3>2, <3>3, <1>2, <1>3
    <2> QED
      BY <1>7, <1>11, <2>1, <2>2
  <1>14. struck'[s] >= Drain + 5 => struck[s] = Drain + 4 \/ struck[s] >= Drain + 5
    BY <1>3, <1>5
  <1>15. struck'[s] >= Drain + 5 => ~health_int'[s]
    <2> SUFFICES ASSUME struck'[s] >= Drain + 5 PROVE ~health_int'[s]
      OBVIOUS
    <2>1. struck[s] >= 3 /\ struck[s] >= Drain + 4
      BY <1>3, <1>14
    <2>2. ~(floating[s] <= Drain)
      BY <1>2, <1>3, <2>1
    <2> QED
      BY <2>2 DEF ClockE
  <1>16. struck'[s] >= Drain + 5 => age'[s] = MaxAge \/ age'[s] >= struck'[s] - (Drain + 5)
    <2> SUFFICES ASSUME struck'[s] >= Drain + 5
                 PROVE  age'[s] = MaxAge \/ age'[s] >= struck'[s] - (Drain + 5)
      OBVIOUS
    <2>1. CASE struck[s] = Drain + 4
      <3>1. struck'[s] = Drain + 5
        BY <2>1, <1>3, <1>5
      <3> QED
        BY <3>1, <1>4, <1>3
    <2>2. CASE struck[s] >= Drain + 5
      <3>1. age[s] \in 0..4 /\ age'[s] = IF age[s] < 4 THEN age[s] + 1 ELSE age[s]
        BY <2>2, <1>0, <1>2, <1>15, OutAges
      <3>2. age[s] = MaxAge \/ age[s] >= struck[s] - (Drain + 5)
        BY <2>2, <1>2
      <3>3. struck'[s] = struck[s] \/ struck'[s] = struck[s] + 1
        BY <2>2, <1>3, <1>5
      <3> QED
        BY <3>1, <3>2, <3>3, <1>3, <1>4
    <2> QED
      BY <1>14, <2>1, <2>2
  <1> QED
    BY <1>12, <1>13, <1>15, <1>16

LEMMA StruckReset ==
  ASSUME ResetE
  PROVE  Struck' /\ MaskTypeOK'
  <1>1. <<FALSE, FALSE, FALSE>> \in [1..3 -> BOOLEAN]
    BY TripleType, Zenon
  <1>2. 0 \in 0..StruckOut /\ 0 \in 0..(Drain + 1) /\ 0 \in 0..MAX_CNT
    BY DrainAssumption, MaskAssumption DEF StruckOut, Settle
  <1>3. MaskTypeOK'
    BY <1>1, <1>2, AllStringsType, Zenon DEF ResetE, MaskTypeOK
  <1>4. Struck'
    BY DrainAssumption DEF ResetE, Struck, AllStrings
  <1> QED
    BY <1>3, <1>4

LEMMA StruckInit == InitE => Struck
  BY DrainAssumption DEF InitE, Struck, AllStrings

LEMMA FduStruck == SpecE => [](Core /\ Chain /\ MaskTypeOK /\ Struck)
  <1>1. /\ Core /\ Core' /\ Chain /\ Chain' /\ MaskTypeOK /\ Struck /\ [NextE]_errVars
        => MaskTypeOK' /\ Struck'
    <2> SUFFICES ASSUME Core, Core', Chain, Chain', MaskTypeOK, Struck, [NextE]_errVars
                 PROVE  MaskTypeOK' /\ Struck'
      OBVIOUS
    <2>1. CASE ClockE
      <3>1. MaskTypeOK'
        BY <2>1, MaskTypeClock
      <3> QED
        BY <2>1, <3>1, StruckClock DEF Chain
    <2>2. CASE ResetE
      BY <2>2, StruckReset
    <2>3. CASE UNCHANGED errVars
      BY <2>3 DEF MaskTypeOK, Struck, errVars, mask, allvars, vars, history
    <2> QED
      BY <2>1, <2>2, <2>3 DEF NextE
  <1> QED
    BY <1>1, MaskTypeInit, StruckInit, FduInvariant, FduErrorsImplement, PTL DEF SpecE

\* The mask of fdu.v and clk_cntr.v stays in range.
THEOREM FduMaskTypeCorrect == SpecE => []MaskTypeOK
  BY FduStruck, PTL

\* An error of the test equipment is for good: the shortest pulse on the line,
\* once fdu.v does not mask it, ends with its string neither healthy nor prime,
\* for every length of the mask and every timeout of the watchdog.
THEOREM FduErrorForGood == SpecE => []ErrorForGood
  <1>1. Core /\ Chain /\ MaskTypeOK /\ Struck => ErrorForGood
    <2> SUFFICES ASSUME Core, Chain, MaskTypeOK, Struck, NEW s \in Strings
                 PROVE  /\ struck[s] = StruckOut => ~health_int[s] /\ prime # s
                        /\ struck[s] = 0 => ~error_bte_diff[s]
      BY DEF ErrorForGood
    <2>1. struck[s] = 0 => ~error_bte_diff[s]
      BY DEF Struck
    <2>2. ASSUME struck[s] = StruckOut PROVE ~health_int[s] /\ prime # s
      <3>1. struck[s] = Drain + 10 /\ Drain \in Nat
        BY <2>2, DrainAssumption DEF StruckOut, Settle
      <3>2. struck[s] >= Drain + 5
        BY <3>1
      <3>3. ~health_int[s] /\ (age[s] = MaxAge \/ age[s] >= struck[s] - (Drain + 5))
        BY <3>2 DEF Struck
      <3>4. age[s] \in 0..4 /\ MaxAge = 4
        BY DEF Chain, HistoryTypeOK, MaxAge, Settle, Events
      <3>5. ~(age[s] <= 3)
        BY <3>1, <3>3, <3>4
      <3> QED
        BY <3>3, <3>5 DEF Chain, Trail, Fresh
    <2> QED
      BY <2>1, <2>2
  <1> QED
    BY <1>1, FduStruck, PTL

-----------------------------------------------------------------------------
(***************************************************************************)
(* The two selections that the race on next_state makes of one: neither    *)
(* drops a string that is not in reset, both come to rest, and both fail   *)
(* over to B.                                                              *)
(***************************************************************************)
\* The selection does not change its mind.
LEMMA NextPrimeStable ==
  ASSUME NEW st \in Holders, NEW h \in [Strings -> BOOLEAN], NEW to \in BOOLEAN
  PROVE  NextPrime(NextPrime(st, h, to), h, to) = NextPrime(st, h, to)
  BY DEF NextPrime, Holders, Strings, NO_PRIME

\* Whoever is healthy is not replaced.
LEMMA NextPrimeKeeps ==
  ASSUME NEW h \in [Strings -> BOOLEAN], NEW to \in BOOLEAN, NEW s \in Strings,
         NextPrime(s, h, to) # s
  PROVE  ~h[s]
  BY DEF NextPrime, Strings, NO_PRIME

\* With B healthy, prime goes from a string to a string, and to B without A.
LEMMA NextPrimeHeir ==
  ASSUME NEW st \in Strings, NEW h \in [Strings -> BOOLEAN], NEW to \in BOOLEAN, h["B"]
  PROVE  /\ NextPrime(st, h, to) \in Strings
         /\ ~h["A"] \/ st = "B" => NextPrime(st, h, to) = "B"
  BY DEF NextPrime, Strings, NO_PRIME

\* The decisions that are final.
LEMMA FinalHolders ==
  ASSUME NEW st \in Holders, NEW h \in [Strings -> BOOLEAN], NEW to \in BOOLEAN,
         NextPrime(st, h, to) = st
  PROVE  /\ st = "A" => h["A"]
         /\ st = "B" => h["B"]
         /\ st = NO_PRIME => ~h["A"] /\ (h["B"] => ~to)
  BY DEF NextPrime, Holders, Strings, NO_PRIME

\* A clock edge, as far as the selection is concerned.
LEMMA ClockFacts ==
  ASSUME TypeOK, Clock
  PROVE  /\ health' = health_int /\ prime' = state
         /\ next_state' = NextPrime(state, health, to_reached)
         /\ state' = Read(NextPrime(state, health, to_reached))
  <1>1. PICK h \in [Strings -> BOOLEAN] : Clock!(h)
    BY DEF Clock
  <1> QED
    BY <1>1

\* What the types say of the selection.
LEMMA SelectionTypes ==
  ASSUME TypeOK
  PROVE  /\ state \in Holders /\ next_state \in Holders /\ prime \in Holders
         /\ health \in [Strings -> BOOLEAN] /\ health_int \in [Strings -> BOOLEAN]
         /\ to_reached \in BOOLEAN
  BY DEF TypeOK

\* One string over one clock edge: health, or a power-on reset under way.
LEMMA HeldStep ==
  ASSUME Core, Core', Clock, NEW s \in Strings, NEW n \in 2..4,
         HealthyOrHeld(s, n) \/ health[s]
  PROVE  HealthyOrHeld(s, n + 1)'
  <1>1. PICK h \in [Strings -> BOOLEAN] : Clock!(h)
    BY DEF Clock
  <1>2. /\ por'[s] = PorNew(por[s], por_count[s], health_int[s], health[s])
        /\ por_count'[s] = PorCountNew(por[s], por_count[s]) /\ health'[s] = health_int[s]
    BY <1>1
  <1>3. /\ por[s] \in BOOLEAN /\ por_count[s] \in Nat /\ POR_TERMINAL_COUNT \in Nat
        /\ health[s] \in BOOLEAN /\ health_int[s] \in BOOLEAN
        /\ Drain \in Nat /\ Drain + 5 < POR_TERMINAL_COUNT
    BY PorAssumption, DrainAssumption DEF Core, TypeOK
  <1>4. por[s] /\ health[s] => por_count[s] <= Drain + 2
    BY DEF Core, Drained
  <1>5. CASE health_int[s]
    BY <1>2, <1>5 DEF HealthyOrHeld
  <1>6. CASE ~health_int[s] /\ health[s]
    <2>1. por'[s]
      BY <1>2, <1>6 DEF PorNew
    <2>2. por_count'[s] <= Drain + (n + 1)
      BY <1>2, <1>3, <1>4, <1>6 DEF PorCountNew
    <2> QED
      BY <2>1, <2>2 DEF HealthyOrHeld
  <1>7. CASE ~health_int[s] /\ ~health[s]
    <2>1. por[s] /\ por_count[s] <= Drain + n
      BY <1>7 DEF HealthyOrHeld
    <2>0. por_count[s] < POR_TERMINAL_COUNT
      BY <1>3, <2>1
    <2>2. por'[s]
      BY <1>2, <2>0, <2>1, Zenon DEF PorNew
    <2>3. por_count'[s] <= Drain + (n + 1)
      BY <1>2, <1>3, <2>1 DEF PorCountNew
    <2> QED
      BY <2>2, <2>3 DEF HealthyOrHeld
  <1> QED
    BY <1>3, <1>5, <1>6, <1>7

LEMMA HeldClock ==
  ASSUME Core, Core', Held, Clock
  PROVE  Held'
  <1> DEFINE ns == NextPrime(state, health, to_reached)
  <1>0. TypeOK
    BY DEF Core
  <1>1. /\ next_state' = ns /\ state' = Read(ns) /\ prime' = state
    BY <1>0, ClockFacts
  <1>2. /\ state \in Holders /\ health \in [Strings -> BOOLEAN] /\ to_reached \in BOOLEAN
    BY <1>0, SelectionTypes
  <1>9. ReadOrder = "new" => state' = next_state'
    BY <1>1 DEF Read
  <1> SUFFICES ASSUME NEW s \in Strings
               PROVE  /\ next_state' = s => HealthyOrHeld(s, 3)'
                      /\ state' = s => HealthyOrHeld(s, 4)'
                      /\ prime' = s => HealthyOrHeld(s, 5)'
                      /\ prime' = s /\ next_state' # s => por'[s]
    BY <1>9 DEF Held
  <1>3. ns = s => HealthyOrHeld(s, 3)'
    <2> SUFFICES ASSUME ns = s PROVE HealthyOrHeld(s, 3)'
      OBVIOUS
    <2>1. health[s]
      BY <1>2, NextPrimeHealthy
    <2>2. HealthyOrHeld(s, 2 + 1)'
      BY <2>1, HeldStep
    <2> QED
      BY <2>2
  <1>4. next_state = s => HealthyOrHeld(s, 4)'
    <2> SUFFICES ASSUME next_state = s PROVE HealthyOrHeld(s, 4)'
      OBVIOUS
    <2>1. HealthyOrHeld(s, 3)
      BY DEF Held
    <2>2. HealthyOrHeld(s, 3 + 1)'
      BY <2>1, HeldStep
    <2> QED
      BY <2>2
  <1>5. state = s => HealthyOrHeld(s, 5)'
    <2> SUFFICES ASSUME state = s PROVE HealthyOrHeld(s, 5)'
      OBVIOUS
    <2>1. HealthyOrHeld(s, 4)
      BY DEF Held
    <2>2. HealthyOrHeld(s, 4 + 1)'
      BY <2>1, HeldStep
    <2> QED
      BY <2>2
  <1>6. HealthyOrHeld(s, 3)' => HealthyOrHeld(s, 4)'
    <2>1. por_count'[s] \in Nat /\ Drain \in Nat
      BY PorAssumption, DrainAssumption DEF Core, TypeOK
    <2>2. por_count'[s] <= Drain + 3 => por_count'[s] <= Drain + 4
      BY <2>1
    <2> QED
      BY <2>2, Zenon DEF HealthyOrHeld
  <1>7. ASSUME state = s, ns # s PROVE por'[s]
    <2>1. ~health[s]
      BY <1>2, <1>7, NextPrimeKeeps
    <2>2. por[s] /\ por_count[s] <= Drain + 4
      BY <1>7, <2>1 DEF Held, HealthyOrHeld
    <2>3. PICK h \in [Strings -> BOOLEAN] : Clock!(h)
      BY DEF Clock
    <2>4. por'[s] = PorNew(por[s], por_count[s], health_int[s], health[s])
      BY <2>3
    <2>5. por_count[s] < POR_TERMINAL_COUNT
      BY <2>2, PorAssumption, DrainAssumption DEF Core, TypeOK
    <2> QED
      BY <2>2, <2>4, <2>5 DEF PorNew
  <1>8. state' = s => HealthyOrHeld(s, 4)'
    BY <1>1, <1>3, <1>4, <1>6 DEF Read
  <1> QED
    BY <1>1, <1>3, <1>5, <1>7, <1>8

-----------------------------------------------------------------------------
\* What the selection has not seen change is what it was.
LEMMA CalmStep ==
  ASSUME TypeOK, TypeOK', HistoryTypeOK, ClockH, Calmed, NEW n \in 1..3, Calm(n + 1)'
  PROVE  Calm(n) /\ health' = health /\ to_reached' = to_reached
  <1>0. ObserveClock /\ Clock
    BY DEF ClockH
  <1>1. ASSUME NEW s \in Strings PROVE age[s] >= n /\ health'[s] = health[s]
    <2>1. s \in Events /\ s # "to_reached"
      BY <1>1 DEF Events, Strings
    <2>2. age'[s] >= n + 1
      BY <1>1 DEF Calm
    <2>3. age'[s] # 0
      BY <2>2
    <2>4. Level(s)' = Level(s)
      BY <1>0, <2>1, <2>3, AgeStep
    <2>5. age[s] \in 0..4 /\ age'[s] = IF age[s] < 4 THEN age[s] + 1 ELSE age[s]
      BY <1>0, <2>1, <2>4, AgeStep
    <2>6. age[s] >= n
      BY <2>2, <2>5
    <2>7. age[s] >= 1
      BY <2>5, <2>6
    <2>8. health[s] = health_int[s]
      BY <1>1, <2>7 DEF Calmed
    <2> QED
      BY <1>0, <2>6, <2>8, ClockFacts
  <1>2. age["to_reached"] >= n - 1 /\ to_reached' = to_reached
    <2>1. "to_reached" \in Events
      BY DEF Events
    <2>2. Level("to_reached") = to_reached /\ Level("to_reached")' = to_reached'
      BY DEF Level
    <2>3. age'["to_reached"] >= n
      BY DEF Calm
    <2>4. age'["to_reached"] # 0
      BY <2>3
    <2>5. Level("to_reached")' = Level("to_reached")
      BY <1>0, <2>1, <2>4, AgeStep
    <2>6. /\ age["to_reached"] \in 0..4
          /\ age'["to_reached"] = IF age["to_reached"] < 4 THEN age["to_reached"] + 1
                                                           ELSE age["to_reached"]
      BY <1>0, <2>1, <2>5, AgeStep
    <2>7. age["to_reached"] >= n - 1
      BY <2>3, <2>6
    <2> QED
      BY <2>2, <2>5, <2>7
  <1>3. health' = health
    <2>1. health \in [Strings -> BOOLEAN] /\ health' \in [Strings -> BOOLEAN]
      BY DEF TypeOK
    <2> QED
      BY <1>1, <2>1
  <1> QED
    BY <1>1, <1>2, <1>3 DEF Calm

LEMMA CalmedClock ==
  ASSUME TypeOK, TypeOK', HistoryTypeOK, Calmed, ClockH
  PROVE  Calmed'
  <1> DEFINE ns == NextPrime(state, health, to_reached)
  <1>0. ObserveClock /\ Clock
    BY DEF ClockH
  <1>1. health' = health_int /\ next_state' = ns /\ state' = Read(ns) /\ prime' = state
    BY <1>0, ClockFacts
  <1>2. /\ state \in Holders /\ next_state \in Holders /\ health \in [Strings -> BOOLEAN] /\ to_reached \in BOOLEAN
    BY SelectionTypes
  <1>3. ASSUME NEW s \in Strings, age'[s] >= 1 PROVE health'[s] = health_int'[s]
    <2>1. s \in Events /\ s # "to_reached"
      BY <1>3 DEF Events, Strings
    <2>2. Level(s) = health_int[s] /\ Level(s)' = health_int'[s]
      BY <2>1, Zenon DEF Level
    <2>3. age'[s] # 0
      BY <1>3
    <2>4. Level(s)' = Level(s)
      BY <1>0, <2>1, <2>3, AgeStep
    <2> QED
      BY <1>1, <2>2, <2>4
  <1>4. NextPrime(ns, health, to_reached) = ns
    BY <1>2, NextPrimeStable
  <1>5. ASSUME Calm(2)'
        PROVE  Final(next_state)' /\ next_state' = NextPrime(prime', health', to_reached')
    <2>1. Calm(1 + 1)'
      BY <1>5
    <2>2. health' = health /\ to_reached' = to_reached
      BY <2>1, CalmStep
    <2> QED
      BY <1>1, <1>4, <2>2 DEF Final
  <1>6. ASSUME Calm(3)' PROVE Final(state)'
    <2>1. Calm(2 + 1)'
      BY <1>6
    <2>2. Calm(2) /\ health' = health /\ to_reached' = to_reached
      BY <2>1, CalmStep
    <2>3. Final(next_state)
      BY <2>2 DEF Calmed
    <2>4. state' = ns \/ state' = next_state
      BY <1>1 DEF Read
    <2> QED
      BY <1>4, <2>2, <2>3, <2>4 DEF Final
  <1>7. ASSUME Calm(4)' PROVE Final(prime)'
    <2>1. Calm(3 + 1)'
      BY <1>7
    <2>2. Calm(3) /\ health' = health /\ to_reached' = to_reached
      BY <2>1, CalmStep
    <2> QED
      BY <1>1, <2>2 DEF Final, Calmed
  <1> QED
    BY <1>3, <1>5, <1>6, <1>7 DEF Calmed

-----------------------------------------------------------------------------
\* A string that is out, over one clock edge: it was out one edge less before.
LEMMA OutBefore ==
  ASSUME TypeOK, TypeOK', HistoryTypeOK, ObserveClock, NEW s \in Strings, NEW n \in 1..4,
         ~health_int'[s], age'[s] >= n
  PROVE  ~health_int[s] /\ age[s] >= n - 1
  <1>1. s \in Events /\ s # "to_reached"
    BY DEF Events, Strings
  <1>2. Level(s) = health_int[s] /\ Level(s)' = health_int'[s]
    BY <1>1, Zenon DEF Level
  <1>3. age'[s] # 0
    <2>1. age'[s] \in 0..4
      BY <1>1, AgeStep
    <2> QED
      BY <2>1
  <1>4. Level(s)' = Level(s)
    BY <1>1, <1>3, AgeStep
  <1>5. age[s] \in 0..4 /\ age'[s] = IF age[s] < 4 THEN age[s] + 1 ELSE age[s]
    BY <1>1, <1>4, AgeStep
  <1>6. age[s] >= n - 1
    BY <1>5
  <1> QED
    BY <1>2, <1>4, <1>6

LEMMA HeirClock ==
  ASSUME TypeOK, TypeOK', HistoryTypeOK, Charged, Calmed, HeirKept, ClockH
  PROVE  HeirKept'
  <1> DEFINE ns == NextPrime(state, health, to_reached)
  <1>0. ObserveClock /\ Clock
    BY DEF ClockH
  <1>1. health' = health_int /\ next_state' = ns /\ state' = Read(ns) /\ prime' = state
    BY <1>0, ClockFacts
  <1>2. /\ state \in Holders /\ next_state \in Holders
        /\ health \in [Strings -> BOOLEAN] /\ to_reached \in BOOLEAN
    BY SelectionTypes
  <1>3. /\ NO_PRIME \notin Strings /\ Holders = Strings \cup {NO_PRIME}
        /\ "A" \in Strings /\ "B" \in Strings /\ "A" \in Events /\ "B" \in Events
    BY DEF NO_PRIME, Strings, Holders, Events
  <1>a. age["A"] \in 0..4 /\ age["B"] \in 0..4 /\ age'["A"] \in 0..4 /\ Settle = 4
    BY <1>0, <1>3, AgeStep DEF Settle
  <1>4. heir' = IF ~health_int'["B"] THEN "no"
                ELSE IF heir = "no" /\ Healthy("A", 4) /\ Healthy("B", 1) THEN "ready"
                ELSE IF heir = "ready" /\ ~health_int["A"] /\ age["A"] >= 4 THEN "took"
                ELSE heir
    BY <1>0 DEF ObserveClock, Settle
  <1>5. SUFFICES ASSUME heir' # "no" PROVE HeirKept'
    BY Zenon DEF HeirKept
  <1>6. health_int'["B"]
    BY <1>4, <1>5
  <1>7. heir # "no" \/ (Healthy("A", 4) /\ Healthy("B", 1))
    BY <1>4, <1>5
  <1>8. /\ health_int["B"] /\ health["B"] /\ state \in Strings /\ next_state \in Strings
    <2>1. CASE heir # "no"
      BY <1>2, <1>3, <2>1 DEF HeirKept
    <2>2. CASE Healthy("A", 4) /\ Healthy("B", 1)
      <3>1. Healthy("A", 2) /\ Healthy("A", 3)
        BY <1>a, <2>2 DEF Healthy
      <3>2. Ready(2) /\ Ready(3)
        BY <3>1 DEF Ready
      <3> QED
        BY <1>2, <1>3, <2>2, <3>2 DEF Charged, Healthy
    <2> QED
      BY <1>7, <2>1, <2>2
  <1>9. ns \in Strings /\ (~health["A"] \/ state = "B" => ns = "B")
    BY <1>2, <1>8, NextPrimeHeir
  <1>10. /\ health'["B"] /\ state' # NO_PRIME /\ next_state' # NO_PRIME
    BY <1>1, <1>3, <1>8, <1>9 DEF Read
  <1>11. ASSUME heir' = "ready", ~health_int'["A"]
         PROVE  /\ age'["A"] >= 2 => next_state' = "B"
                /\ age'["A"] >= 3 => state' = "B"
                /\ age'["A"] >= 4 => prime' = "B"
    <2>1. ASSUME age'["A"] >= 1
          PROVE  ~health_int["A"] /\ heir = "ready"
      <3>1. ~health_int["A"]
        <4>1. 1 \in 1..4
          OBVIOUS
        <4> QED
          BY <1>0, <1>3, <1>11, <2>1, <4>1, OutBefore
      <3>2. ~Healthy("A", 4)
        BY <3>1 DEF Healthy
      <3> QED
        BY <1>4, <1>7, <1>11, <3>1, <3>2
    <2>2. ASSUME age'["A"] >= 2 PROVE next_state' = "B"
      <3>1. age'["A"] >= 1
        BY <1>a, <2>2
      <3>2. ~health_int["A"] /\ age["A"] >= 2 - 1
        <4>1. 2 \in 1..4
          OBVIOUS
        <4> QED
          BY <1>0, <1>3, <1>11, <2>2, <4>1, OutBefore
      <3>3. age["A"] >= 1
        BY <3>2
      <3>4. ~health["A"]
        BY <1>3, <3>2, <3>3 DEF Calmed
      <3> QED
        BY <1>1, <1>9, <3>4
    <2>3. ASSUME age'["A"] >= 3 PROVE state' = "B"
      <3>1. age'["A"] >= 1 /\ age'["A"] >= 2
        BY <1>a, <2>3
      <3>2. ~health_int["A"] /\ age["A"] >= 3 - 1
        <4>1. 3 \in 1..4
          OBVIOUS
        <4> QED
          BY <1>0, <1>3, <1>11, <2>3, <4>1, OutBefore
      <3>3. age["A"] >= 2
        BY <3>2
      <3>4. next_state = "B"
        BY <2>1, <3>1, <3>2, <3>3 DEF HeirKept
      <3> QED
        BY <1>1, <2>2, <3>1, <3>4 DEF Read
    <2>4. ASSUME age'["A"] >= 4 PROVE prime' = "B"
      <3>1. age'["A"] >= 1
        BY <1>a, <2>4
      <3>2. ~health_int["A"] /\ age["A"] >= 4 - 1
        <4>1. 4 \in 1..4
          OBVIOUS
        <4> QED
          BY <1>0, <1>3, <1>11, <2>4, <4>1, OutBefore
      <3>3. age["A"] >= 3
        BY <3>2
      <3>4. state = "B"
        BY <2>1, <3>1, <3>2, <3>3 DEF HeirKept
      <3> QED
        BY <1>1, <3>4
    <2> QED
      BY <2>2, <2>3, <2>4
  <1>12. ASSUME heir' = "took" PROVE prime' = "B" /\ state' = "B" /\ next_state' = "B"
    <2>1. state = "B" /\ next_state = "B"
      <3>1. CASE heir = "took"
        BY <3>1 DEF HeirKept
      <3>2. CASE heir # "took"
        <4>1. heir = "ready" /\ ~health_int["A"] /\ age["A"] >= 4
          BY <1>4, <1>5, <1>12, <3>2
        <4>2. age["A"] >= 2 /\ age["A"] >= 3
          BY <1>a, <4>1
        <4> QED
          BY <4>1, <4>2 DEF HeirKept
      <3> QED
        BY <3>1, <3>2
    <2> QED
      BY <1>1, <1>9, <2>1 DEF Read
  <1> QED
    BY <1>6, <1>10, <1>11, <1>12, Zenon DEF HeirKept

-----------------------------------------------------------------------------
LEMMA ChainsInit == InitH => ChainsInv
  <1> SUFFICES ASSUME InitH PROVE ChainsInv
    OBVIOUS
  <1>1. /\ health = AllStrings(FALSE) /\ health_int = AllStrings(FALSE)
        /\ state = NO_PRIME /\ next_state = NO_PRIME /\ prime = NO_PRIME
        /\ to_reached = FALSE /\ heir = "no"
    BY DEF InitH, Init
  <1>2. /\ NextPrime(NO_PRIME, AllStrings(FALSE), FALSE) = NO_PRIME /\ NO_PRIME \notin Strings
        /\ "no" # "ready" /\ "no" # "took"
    BY DEF NextPrime, AllStrings, Strings, NO_PRIME
  <1> QED
    BY <1>1, <1>2, Zenon DEF ChainsInv, Held, Calmed, Final, HeirKept

LEMMA ChainsReset ==
  ASSUME Reset, ObserveReset
  PROVE  ChainsInv'
  <1>1. /\ health' = AllStrings(FALSE) /\ health_int' = AllStrings(FALSE)
        /\ state' = NO_PRIME /\ next_state' = NO_PRIME /\ prime' = NO_PRIME
        /\ to_reached' = FALSE /\ heir' = "no"
    BY DEF Reset, ObserveReset
  <1>2. /\ NextPrime(NO_PRIME, AllStrings(FALSE), FALSE) = NO_PRIME /\ NO_PRIME \notin Strings
        /\ "no" # "ready" /\ "no" # "took"
    BY DEF NextPrime, AllStrings, Strings, NO_PRIME
  <1> QED
    BY <1>1, <1>2, Zenon DEF ChainsInv, Held, Calmed, Final, HeirKept

LEMMA FduChains == SpecH => [](Core /\ Chain /\ ChainsInv)
  <1>1. Core /\ Core' /\ Chain /\ Charged /\ ChainsInv /\ [NextH]_allvars => ChainsInv'
    <2> SUFFICES ASSUME Core, Core', Chain, Charged, ChainsInv, [NextH]_allvars
                 PROVE  ChainsInv'
      OBVIOUS
    <2>0. TypeOK /\ TypeOK' /\ HistoryTypeOK
      BY DEF Core, Chain
    <2>1. CASE ClockH
      <3>1. Held'
        BY <2>1, HeldClock DEF ChainsInv, ClockH
      <3>2. Calmed'
        BY <2>0, <2>1, CalmedClock DEF ChainsInv
      <3>3. HeirKept'
        BY <2>0, <2>1, HeirClock DEF ChainsInv
      <3> QED
        BY <3>1, <3>2, <3>3 DEF ChainsInv
    <2>2. CASE Reset /\ ObserveReset
      BY <2>2, ChainsReset
    <2>3. CASE UNCHANGED allvars
      BY <2>3 DEF ChainsInv, Held, HealthyOrHeld, Calmed, Calm, Final, HeirKept,
                  allvars, vars, history
    <2> QED
      BY <2>1, <2>2, <2>3 DEF NextH
  <1> QED
    BY <1>1, ChainsInit, FduAgedCharged, PTL DEF SpecH

\* The selection settles: four edges after the last event the registers of the
\* selection of fdu.v agree, or alternate between two healthy strings, or between
\* a healthy B and nobody until the power-up delay is over.
THEOREM FduSelectionSettles == SpecH => []SelectionSettles
  <1>1. Core /\ ChainsInv => SelectionSettles
    <2> SUFFICES ASSUME Core, ChainsInv, Steady
                 PROVE  \/ prime = state /\ state = next_state
                        \/ Divided("A", "B") /\ health_int["A"] /\ health_int["B"]
                        \/ /\ Divided("B", NO_PRIME)
                           /\ health_int["B"] /\ ~health_int["A"] /\ ~to_reached
      BY DEF SelectionSettles
    <2>1. Calm(2) /\ Calm(3) /\ Calm(4)
      BY DEF Steady, Calm, Settle, Events
    <2>2. Final(state) /\ Final(next_state) /\ prime = next_state
      BY <2>1 DEF ChainsInv, Calmed, Final
    <2>3. "A" \in Strings /\ "B" \in Strings /\ age["A"] = 4 /\ age["B"] = 4
      BY DEF Steady, Settle, Events, Strings
    <2>4. health["A"] = health_int["A"] /\ health["B"] = health_int["B"]
      BY <2>3 DEF ChainsInv, Calmed
    <2>5. /\ state \in Holders /\ next_state \in Holders
          /\ health \in [Strings -> BOOLEAN] /\ to_reached \in BOOLEAN
      BY SelectionTypes DEF Core
    <2>6. ASSUME NEW st \in Holders, Final(st)
          PROVE  /\ st = "A" => health["A"]
                 /\ st = "B" => health["B"]
                 /\ st = NO_PRIME => ~health["A"] /\ (health["B"] => ~to_reached)
      BY <2>5, <2>6, FinalHolders DEF Final
    <2>7. CASE state = next_state
      BY <2>2, <2>7
    <2>8. CASE state # next_state
      <3>1. \/ {state, next_state} = {"A", "B"}
            \/ {state, next_state} = {"B", NO_PRIME}
            \/ {state, next_state} = {"A", NO_PRIME}
        BY <2>5, <2>8 DEF Holders, Strings
      <3>2. CASE {state, next_state} = {"A", "B"}
        BY <2>2, <2>4, <2>5, <2>6, <3>2 DEF Divided
      <3>3. CASE {state, next_state} = {"B", NO_PRIME}
        BY <2>2, <2>4, <2>5, <2>6, <3>3 DEF Divided
      <3>4. CASE {state, next_state} = {"A", NO_PRIME}
        BY <2>2, <2>5, <2>6, <3>4
      <3> QED
        BY <3>1, <3>2, <3>3, <3>4
    <2> QED
      BY <2>7, <2>8
  <1> QED
    BY <1>1, FduChains, PTL

\* Failover: a B that was healthy together with A for some edges is prime, in
\* every register of fdu.v, once A has been out for four edges, and remains so
\* for as long as it is healthy, whatever A does then.
THEOREM FduFailoverToB == SpecH => []FailoverToB
  <1>1. ChainsInv => FailoverToB
    BY DEF ChainsInv, HeirKept, FailoverToB
  <1> QED
    BY <1>1, FduChains, PTL

\* The FDU keeps the promises of the abstract selector, whenever the healths
\* change: in fdu.v no register of the selection leaves a board that is not held
\* in reset, none takes another board while all agree on one that is not, and
\* por never lets go of a board that one of them names.
THEOREM FduImplementsSelector == SpecH => ImplementsSelector
  <1> DEFINE held == {prime, state, next_state}
  <1>1. InitH => Sel!InitSelector
    BY DEF InitH, Init, Sel!InitSelector, AllStrings
  <1>2. Core /\ Core' /\ ChainsInv /\ [NextH]_allvars
          => [Sel!NextSelector]_<<prime, held, por>>
    <2> SUFFICES ASSUME Core, Core', ChainsInv, NextH PROVE Sel!NextSelector
      BY DEF allvars, vars
    <2>1. CASE Reset
      <3>1. held' = {NO_PRIME}
        BY <2>1 DEF Reset
      <3> QED
        BY <2>1, <3>1 DEF Reset, AllStrings, Sel!NextSelector, Sel!ButtonReset
    <2>2. CASE Clock
      <3> DEFINE ns == NextPrime(state, health, to_reached)
      <3>1. /\ prime' = state /\ next_state' = ns /\ state' = Read(ns)
            /\ TypeOK /\ TypeOK'
        BY <2>2, ClockFacts DEF Core
      <3>2. prime' \in Sel!Holders /\ held' \in SUBSET Sel!Holders /\ por' \in [Strings -> BOOLEAN]
        BY <3>1 DEF TypeOK, Holders, Sel!Holders
      <3>3. state' = ns \/ (state' = next_state /\ ReadOrder # "new")
        BY <3>1, OrderAssumption DEF Read
      <3>4. ASSUME NEW s \in Strings, s \in held, s \notin held' PROVE por[s]
        <4>1. state # s /\ ns # s /\ state' # s
          BY <3>1, <3>4
        <4>2. next_state # s
          <5>1. CASE ReadOrder = "new"
            BY <4>1, <5>1 DEF ChainsInv, Held
          <5>2. CASE ReadOrder # "new"
            BY <3>1, <4>1, <5>2, OrderAssumption DEF Read
          <5> QED
            BY <5>1, <5>2
        <4>3. prime = s
          BY <3>4, <4>1, <4>2
        <4> QED
          BY <4>2, <4>3 DEF ChainsInv, Held
      <3>5. ASSUME NEW s \in Strings, held = {s}, held' # {s} PROVE por[s]
        <4>1. state = s /\ next_state = s /\ prime = s
          BY <3>5
        <4>2. ns # s
          BY <3>1, <3>3, <3>5, <4>1
        <4>3. ~health[s]
          BY <3>1, <4>1, <4>2, NextPrimeKeeps DEF TypeOK
        <4> QED
          BY <4>1, <4>3 DEF ChainsInv, Held, HealthyOrHeld
      <3>6. ASSUME NEW s \in Strings, por[s], ~por'[s] PROVE s \notin held /\ s \notin held'
        <4>1. PICK h \in [Strings -> BOOLEAN] : Clock!(h)
          BY <2>2 DEF Clock
        <4>2. ~PorNew(por[s], por_count[s], health_int[s], health[s])
          BY <3>6, <4>1
        <4>3. /\ por_count[s] \in Nat /\ Drain \in Nat /\ POR_TERMINAL_COUNT \in Nat
              /\ Drain + 5 < POR_TERMINAL_COUNT
          BY <3>6, PorAssumption, DrainAssumption DEF Core, TypeOK
        <4>4. por_count[s] >= POR_TERMINAL_COUNT
          BY <3>6, <4>2, <4>3 DEF PorNew
        <4>5. health[s] => por_count[s] <= Drain + 2
          BY <3>6 DEF Core, Drained
        <4>6. /\ ~health[s] /\ ~(por_count[s] <= Drain + 3)
              /\ ~(por_count[s] <= Drain + 4) /\ ~(por_count[s] <= Drain + 5)
          BY <4>3, <4>4, <4>5
        <4>7. prime # s /\ state # s /\ next_state # s
          BY <3>6, <4>6 DEF ChainsInv, Held, HealthyOrHeld
        <4>8. ns # s
          BY <3>1, <3>6, <4>6, NextPrimeHealthy DEF TypeOK
        <4> QED
          BY <3>1, <3>3, <4>7, <4>8
      <3>7. prime' \in held'
        OBVIOUS
      <3>8. Sel!Select(prime', held', por')
        BY <3>4, <3>5, <3>6, <3>7 DEF Sel!Select
      <3> QED
        BY <3>2, <3>8 DEF Sel!NextSelector
    <2> QED
      BY <2>1, <2>2 DEF NextH, ClockH
  <1> QED
    BY <1>1, <1>2, FduChains, PTL DEF SpecH, ImplementsSelector, Sel!SpecSelector

=============================================================================
