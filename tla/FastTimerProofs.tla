-------------------------- MODULE FastTimerProofs ---------------------------
(***************************************************************************)
(* The fast timer, for every set of timers and intervals: its list         *)
(* survives callbacks that set and cancel timers under the walking         *)
(* handler, and nobody in it is overslept but for the lapses it names.     *)
(***************************************************************************)
EXTENDS FastTimer, TLAPS

-----------------------------------------------------------------------------
(***************************************************************************)
(* Lists: what the pointers of a function lead to.                         *)
(***************************************************************************)
LEMMA ReachLeast ==
  ASSUME NEW f, NEW p, NEW S \in SUBSET Entries, Closed(f, S), p \in S \cup {NULL}
  PROVE  Reach(f, p) \subseteq S
  BY DEF Reach

LEMMA ReachClosed ==
  ASSUME NEW f \in [Entries -> Pointer], NEW p \in Pointer
  PROVE  /\ Reach(f, p) \in SUBSET Entries
         /\ Closed(f, Reach(f, p))
         /\ p \in Reach(f, p) \cup {NULL}
  <1>1. Reach(f, p) \in SUBSET Entries
    BY DEF Reach
  <1>2. ASSUME NEW x \in Reach(f, p), f[x] # NULL
        PROVE  f[x] \in Reach(f, p)
    <2>1. x \in Entries /\ f[x] \in Entries
      BY <1>1, <1>2 DEF Pointer
    <2>2. ASSUME NEW S \in SUBSET Entries, Closed(f, S), p \in S \cup {NULL}
          PROVE  f[x] \in S
      <3>1. x \in S
        BY <1>2, <2>2, ReachLeast
      <3> QED
        BY <1>2, <2>2, <3>1 DEF Closed
    <2> QED
      BY <2>1, <2>2 DEF Reach
  <1>3. p # NULL => p \in Reach(f, p)
    BY TimerAssumption DEF Reach, Pointer
  <1> QED
    BY <1>1, <1>2, <1>3 DEF Closed

LEMMA ReachNull ==
  ASSUME NEW f
  PROVE  Reach(f, NULL) = {}
  <1>1. Closed(f, {}) /\ NULL \in {} \cup {NULL}
    BY DEF Closed
  <1> QED
    BY <1>1, ReachLeast

\* Whoever is reached is a head of its own.
LEMMA ReachSub ==
  ASSUME NEW f \in [Entries -> Pointer], NEW p \in Pointer, NEW q \in Reach(f, p) \cup {NULL}
  PROVE  Reach(f, q) \subseteq Reach(f, p) /\ q \in Pointer
  <1>1. /\ Reach(f, p) \in SUBSET Entries
        /\ Closed(f, Reach(f, p))
    BY ReachClosed
  <1> QED
    BY <1>1, ReachLeast DEF Pointer

\* The head and the rest.
LEMMA ReachHead ==
  ASSUME NEW f \in [Entries -> Pointer], NEW p \in Entries
  PROVE  Reach(f, p) = {p} \cup Reach(f, f[p])
  <1>1. /\ p \in Pointer /\ f[p] \in Pointer /\ p # NULL
    BY TimerAssumption DEF Pointer
  <1>2. /\ Reach(f, p) \in SUBSET Entries /\ Closed(f, Reach(f, p)) /\ p \in Reach(f, p)
    BY <1>1, ReachClosed
  <1>3. /\ Reach(f, f[p]) \in SUBSET Entries /\ Closed(f, Reach(f, f[p]))
        /\ f[p] \in Reach(f, f[p]) \cup {NULL}
    BY <1>1, ReachClosed
  <1>4. f[p] \in Reach(f, p) \cup {NULL}
    BY <1>2 DEF Closed
  <1>5. Reach(f, f[p]) \subseteq Reach(f, p)
    BY <1>1, <1>4, ReachSub
  <1> DEFINE T == {p} \cup Reach(f, f[p])
  <1>6. T \in SUBSET Entries /\ Closed(f, T) /\ p \in T
    BY <1>3 DEF Closed
  <1>7. Reach(f, p) \subseteq T
    BY <1>6, ReachLeast
  <1> QED
    BY <1>2, <1>5, <1>7

\* Pointers that are not in the list do not matter.
LEMMA ReachAgree ==
  ASSUME NEW f \in [Entries -> Pointer], NEW g \in [Entries -> Pointer], NEW p \in Pointer,
         \A x \in Reach(f, p) : g[x] = f[x]
  PROVE  Reach(g, p) = Reach(f, p)
  <1>1. /\ Reach(f, p) \in SUBSET Entries /\ Closed(f, Reach(f, p))
        /\ p \in Reach(f, p) \cup {NULL}
    BY ReachClosed
  <1>2. /\ Reach(g, p) \in SUBSET Entries /\ Closed(g, Reach(g, p))
        /\ p \in Reach(g, p) \cup {NULL}
    BY ReachClosed
  <1>3. Closed(g, Reach(f, p))
    BY <1>1 DEF Closed
  <1>4. Reach(g, p) \subseteq Reach(f, p)
    BY <1>1, <1>3, ReachLeast
  <1>5. Closed(f, Reach(g, p))
    BY <1>2, <1>4 DEF Closed
  <1>6. Reach(f, p) \subseteq Reach(g, p)
    BY <1>2, <1>5, ReachLeast
  <1> QED
    BY <1>4, <1>6

\* FastTimer_Set: a new head.
LEMMA ReachPrepend ==
  ASSUME NEW f \in [Entries -> Pointer], NEW p \in Pointer, NEW e \in Entries,
         e \notin Reach(f, p),
         NEW g \in [Entries -> Pointer], g[e] = p, \A x \in Entries \ {e} : g[x] = f[x]
  PROVE  /\ Reach(g, e) = Reach(f, p) \cup {e}
         /\ \A q \in Reach(f, p) \cup {NULL} : Reach(g, q) = Reach(f, q)
  <1>1. Reach(f, p) \subseteq Entries
    BY ReachClosed
  <1>2. \A q \in Reach(f, p) \cup {NULL} : Reach(g, q) = Reach(f, q)
    <2> SUFFICES ASSUME NEW q \in Reach(f, p) \cup {NULL}
                 PROVE  Reach(g, q) = Reach(f, q)
      OBVIOUS
    <2>1. Reach(f, q) \subseteq Reach(f, p) /\ q \in Pointer
      BY ReachSub
    <2> QED
      BY <1>1, <2>1, ReachAgree
  <1>3. Reach(g, p) = Reach(f, p)
    BY <1>1, ReachAgree
  <1>4. Reach(g, e) = Reach(f, p) \cup {e}
    BY <1>3, ReachHead
  <1> QED
    BY <1>2, <1>4

\* FastTimer_Cancel: e is passed by, seen from any place of a list without cycle.
LEMMA ReachUnlink ==
  ASSUME NEW f \in [Entries -> Pointer], NEW h \in Pointer, NEW e \in Reach(f, h),
         f[e] # e, NEW p \in Reach(f, h) \cup {NULL}
  PROVE  LET g == [x \in Entries |-> IF x \in Reach(f, h) /\ f[x] = e THEN f[e] ELSE f[x]]
             q == IF p = e THEN f[e] ELSE p
         IN  g \in [Entries -> Pointer] /\ Reach(g, q) = Reach(f, p) \ {e}
  <1> DEFINE L == Reach(f, h)
             R == Reach(f, p)
             g == [x \in Entries |-> IF x \in L /\ f[x] = e THEN f[e] ELSE f[x]]
             q == IF p = e THEN f[e] ELSE p
             S == Reach(g, q)
  <1>1. L \in SUBSET Entries /\ Closed(f, L)
    BY ReachClosed
  <1>2. /\ e \in Entries /\ f[e] \in Pointer /\ p \in Pointer /\ R \subseteq L
        /\ q \in Pointer
    BY <1>1, ReachSub DEF Pointer
  <1>3. R \in SUBSET Entries /\ Closed(f, R) /\ p \in R \cup {NULL}
    BY <1>2, ReachClosed
  <1>4. /\ g \in [Entries -> Pointer]
        /\ \A x \in Entries : g[x] = IF x \in L /\ f[x] = e THEN f[e] ELSE f[x]
    BY <1>2
  <1>5. S \subseteq R \ {e}
    <2>1. ASSUME NEW x \in R \ {e}
          PROVE  g[x] \in (R \ {e}) \cup {NULL}
      <3>1. x \in L /\ x \in Entries /\ f[x] \in R \cup {NULL}
        BY <1>1, <1>2, <1>3 DEF Closed
      <3>2. CASE f[x] = e
        <4>1. e \in R
          BY <3>1, <3>2, <1>2, TimerAssumption
        <4>2. f[e] \in R \cup {NULL}
          BY <4>1, <1>3 DEF Closed
        <4> QED
          BY <1>4, <3>1, <3>2, <4>2
      <3>3. CASE f[x] # e
        BY <1>4, <3>1, <3>3
      <3> QED
        BY <3>2, <3>3
    <2>2. Closed(g, R \ {e})
      BY <2>1 DEF Closed
    <2>3. q \in (R \ {e}) \cup {NULL}
      <3>1. CASE p = e
        <4>1. e \in R
          BY <3>1, <1>2, <1>3, TimerAssumption
        <4> QED
          BY <3>1, <4>1, <1>3 DEF Closed
      <3>2. CASE p # e
        BY <3>2, <1>3
      <3> QED
        BY <3>1, <3>2
    <2>4. R \ {e} \in SUBSET Entries
      BY <1>3
    <2> HIDE DEF g, q
    <2> QED
      BY <2>2, <2>3, <2>4, ReachLeast
  <1>6. S \in SUBSET Entries /\ Closed(g, S) /\ q \in S \cup {NULL}
    <2> HIDE DEF g, q
    <2> QED
      BY <1>2, <1>4, ReachClosed
  <1>7. R \ {e} \subseteq S
    <2> HIDE DEF S, R, L
    <2>0. \A x \in S : g[x] \in S \cup {NULL}
      BY <1>6 DEF Closed
    <2>1. CASE p = e \/ \E x \in S \cap L : f[x] = e
      <3>1. f[e] \in S \cup {NULL}
        <4>1. CASE p = e
          BY <4>1, <1>6
        <4>2. ASSUME NEW x \in S \cap L, f[x] = e
              PROVE  f[e] \in S \cup {NULL}
          <5>1. g[x] = f[e]
            BY <4>2, <1>6, <1>4
          <5> QED
            BY <5>1, <2>0
        <4> QED
          BY <2>1, <4>1, <4>2
      <3>2. ASSUME NEW x \in S \cup {e}
            PROVE  f[x] \in (S \cup {e}) \cup {NULL}
        BY <1>4, <1>6, <2>0, <3>1
      <3>3. Closed(f, S \cup {e}) /\ p \in (S \cup {e}) \cup {NULL}
        BY <3>2, <1>6 DEF Closed
      <3>4. R \subseteq S \cup {e}
        BY <3>3, <1>2, <1>6, ReachLeast DEF R
      <3> QED
        BY <3>4
    <2>2. CASE p # e /\ \A x \in S \cap L : f[x] # e
      <3>1. ASSUME NEW x \in S \cap L
            PROVE  f[x] \in (S \cap L) \cup {NULL}
        <4>1. g[x] = f[x]
          BY <1>4, <1>6, <2>2
        <4>2. f[x] \in L \cup {NULL}
          BY <1>1 DEF Closed
        <4> QED
          BY <2>0, <4>1, <4>2
      <3>2. Closed(f, S \cap L) /\ p \in (S \cap L) \cup {NULL}
        BY <3>1, <1>6, <2>2 DEF Closed, L
      <3>3. R \subseteq S \cap L
        BY <3>2, <1>6, ReachLeast DEF R
      <3> QED
        BY <3>3
    <2> QED
      BY <2>1, <2>2
  <1> QED
    BY <1>4, <1>5, <1>7

-----------------------------------------------------------------------------
(***************************************************************************)
(* The list of the timers under the operations.                            *)
(***************************************************************************)
LEMMA ListFacts ==
  ASSUME TypeOK
  PROVE  /\ Listed \in SUBSET Entries
         /\ NULL \notin Listed
         /\ first \in Listed \cup {NULL}
         /\ \A e \in Listed : nxt[e] \in Listed \cup {NULL}
         /\ first = NULL => Listed = {}
  <1>1. nxt \in [Entries -> Pointer] /\ first \in Pointer
    BY DEF TypeOK
  <1>2. /\ Listed \in SUBSET Entries
        /\ Closed(nxt, Listed)
        /\ first \in Listed \cup {NULL}
    BY <1>1, ReachClosed DEF Listed
  <1>3. first = NULL => Listed = {}
    BY ReachNull DEF Listed
  <1> QED
    BY <1>2, <1>3, TimerAssumption DEF Closed

LEMMA ListPrime == Listed' = Reach(nxt', first')
  BY DEF Listed

LEMMA SetList ==
  ASSUME TypeOK, Acyclic, NEW e \in Entries \ Listed, Prepend(e)
  PROVE  /\ first' \in Pointer /\ nxt' \in [Entries -> Pointer]
         /\ Listed' = Listed \cup {e}
         /\ \A p \in Listed \cup {NULL} : Reach(nxt', p) = Reach(nxt, p)
         /\ Acyclic'
  <1>1. /\ nxt \in [Entries -> Pointer] /\ first \in Pointer
        /\ first' = e /\ e \in Entries /\ e \notin Reach(nxt, first)
        /\ nxt' \in [Entries -> Pointer] /\ nxt'[e] = first
        /\ \A x \in Entries \ {e} : nxt'[x] = nxt[x]
    BY DEF TypeOK, Prepend, Listed
  <1>2. /\ Reach(nxt', e) = Listed \cup {e}
        /\ \A p \in Listed \cup {NULL} : Reach(nxt', p) = Reach(nxt, p)
    BY <1>1, ReachPrepend DEF Listed
  <1>3. Listed' = Listed \cup {e}
    BY <1>1, <1>2, ListPrime
  <1>4. ASSUME NEW x \in Listed \cup {e}
        PROVE  x \notin Reach(nxt', nxt'[x])
    <2>1. CASE x = e
      <3>1. nxt'[x] = first
        BY <1>1, <2>1
      <3>2. Reach(nxt', first) = Reach(nxt, first)
        BY <1>2, ListFacts
      <3> QED
        BY <1>1, <2>1, <3>1, <3>2
    <2>2. CASE x \in Listed
      <3>1. x \in Entries /\ x # e /\ nxt[x] \in Listed \cup {NULL}
        BY <2>2, ListFacts
      <3>2. nxt'[x] = nxt[x]
        BY <1>1, <3>1
      <3> QED
        BY <1>2, <2>2, <3>1, <3>2 DEF Acyclic
    <2> QED
      BY <2>1, <2>2
  <1> QED
    BY <1>1, <1>2, <1>3, <1>4 DEF Acyclic, Pointer

LEMMA CancelList ==
  ASSUME TypeOK, Acyclic, NEW e \in Listed, Unlink(e)
  PROVE  /\ first' \in Pointer /\ nxt' \in [Entries -> Pointer]
         /\ Listed' = Listed \ {e}
         /\ nxt[e] # e
         /\ \A p \in Listed \cup {NULL} :
              Reach(nxt', IF p = e THEN nxt[e] ELSE p) = Reach(nxt, p) \ {e}
         /\ Acyclic'
  <1>1. /\ nxt \in [Entries -> Pointer] /\ first \in Pointer
        /\ first' = (IF first = e THEN nxt[e] ELSE first)
        /\ nxt' = [x \in Entries |-> IF x \in Reach(nxt, first) /\ nxt[x] = e THEN nxt[e]
                                     ELSE nxt[x]]
        /\ e \in Reach(nxt, first)
    BY DEF TypeOK, Unlink, Listed
  <1>2. nxt[e] # e
    <2>1. e \in Entries /\ nxt[e] \in Listed \cup {NULL} /\ NULL \notin Entries
      BY ListFacts, TimerAssumption
    <2>2. nxt[e] \in Reach(nxt, nxt[e]) \cup {NULL}
      BY <1>1, <2>1, ReachClosed
    <2> QED
      BY <2>1, <2>2 DEF Acyclic
  <1>3. ASSUME NEW p \in Listed \cup {NULL}
        PROVE  /\ nxt' \in [Entries -> Pointer]
               /\ Reach(nxt', IF p = e THEN nxt[e] ELSE p) = Reach(nxt, p) \ {e}
    BY <1>1, <1>2, ReachUnlink DEF Listed
  <1>4. Listed' = Listed \ {e}
    <2>1. Reach(nxt', first') = Reach(nxt, first) \ {e}
      BY <1>1, <1>3, ListFacts
    <2> QED
      BY <2>1, ListPrime DEF Listed
  <1>5. ASSUME NEW x \in Listed \ {e}
        PROVE  x \notin Reach(nxt', nxt'[x])
    <2>1. x \in Entries /\ x \in Reach(nxt, first) /\ nxt[x] \in Listed \cup {NULL}
      BY ListFacts DEF Listed
    <2>2. nxt'[x] = IF nxt[x] = e THEN nxt[e] ELSE nxt[x]
      BY <1>1, <2>1
    <2>3. Reach(nxt', nxt'[x]) = Reach(nxt, nxt[x]) \ {e}
      BY <1>3, <2>1, <2>2
    <2> QED
      BY <2>3 DEF Acyclic
  <1>6. first' \in Pointer
    BY <1>1, ListFacts DEF Pointer
  <1> QED
    BY <1>2, <1>3, <1>4, <1>5, <1>6 DEF Acyclic

LEMMA SameList ==
  ASSUME TypeOK, Acyclic, nxt' \in [Entries -> Pointer], first' = first,
         \A x \in Listed : nxt'[x] = nxt[x]
  PROVE  /\ Listed' = Listed
         /\ \A p \in Listed \cup {NULL} : Reach(nxt', p) = Reach(nxt, p)
         /\ Acyclic'
  <1>1. nxt \in [Entries -> Pointer] /\ first \in Pointer
    BY DEF TypeOK
  <1>2. ASSUME NEW p \in Listed \cup {NULL}
        PROVE  Reach(nxt', p) = Reach(nxt, p)
    <2>1. Reach(nxt, p) \subseteq Listed /\ p \in Pointer
      BY <1>1, ReachSub DEF Listed
    <2> QED
      BY <1>1, <2>1, ReachAgree
  <1>3. Listed' = Listed
    BY <1>2, ListPrime, ListFacts DEF Listed
  <1>4. Acyclic'
    BY <1>2, <1>3, ListFacts DEF Acyclic
  <1> QED
    BY <1>2, <1>3, <1>4

-----------------------------------------------------------------------------
(***************************************************************************)
(* FastTimer_Set and FastTimer_Cancel.                                     *)
(***************************************************************************)
LEMMA Constants ==
  /\ NULL \notin Entries
  /\ MAXCOUNT \in Nat /\ MINCOUNT \in Nat /\ MARGIN \in Nat /\ WRAP \in Nat /\ Latency \in Nat
  /\ CallbackOps \in Nat /\ HALF \in Nat
  /\ Latency + MINCOUNT <= MAXCOUNT /\ MAXCOUNT < WRAP /\ 0 < MINCOUNT /\ WRAP <= HALF
  /\ \A e \in Entries : Interval[e] \in Nat /\ 0 < Interval[e] /\ Interval[e] < HALF
  BY TimerAssumption

LEMMA Numbers ==
  ASSUME TypeOK
  PROVE  /\ \A e \in Entries : timeCurrent[e] \in Int
         /\ CV \in Nat /\ CV < WRAP /\ RC \in Nat /\ RC > 0 /\ RC <= MAXCOUNT
         /\ nextTime \in Int
         /\ timeReference \in Nat /\ timeReference <= MAXCOUNT
         /\ ops \in Nat /\ ops <= CallbackOps
         /\ timeCurrent \in [Entries -> -HALF..(HALF - 1)] /\ nxt \in [Entries -> Pointer]
  BY Constants DEF TypeOK

\* The arithmetic of an int stays within an int.
LEMMA WrappedRange ==
  ASSUME NEW x \in Int
  PROVE  Wrapped(x) \in -HALF..(HALF - 1)
  <1>1. 2 * HALF \in Nat /\ 2 * HALF > 0 /\ x + HALF \in Int
    BY Constants
  <1>2. (x + HALF) % (2 * HALF) \in 0..(2 * HALF - 1)
    BY <1>1
  <1> QED
    BY <1>2, Constants DEF Wrapped

\* The next slice is short enough for t, and no longer than before, unless a time
\* is lost.
LEMMA NextTimeFacts ==
  ASSUME nextTime \in -HALF..(HALF - 1), NEW t \in -HALF..(HALF - 1), lapse \in BOOLEAN,
         NextTimeWith(t)
  PROVE  /\ nextTime' \in -HALF..(HALF - 1) /\ lapse' \in BOOLEAN
         /\ ~lapse' => ~lapse /\ nextTime' <= nextTime /\ nextTime' <= t
  <1>1. nextTime' = (IF nextTime = -1 THEN t ELSE AtMost(nextTime, t))
    BY DEF NextTimeWith
  <1>2. lapse' = (lapse \/ (nextTime = -1 /\ t > -1))
    BY DEF NextTimeWith
  <1>3. lapse' \in BOOLEAN /\ (~lapse' => ~lapse /\ ~(nextTime = -1 /\ t > -1))
    BY <1>2
  <1>4. nextTime' \in -HALF..(HALF - 1)
    BY <1>1 DEF AtMost
  <1>5. ~(nextTime = -1 /\ t > -1) => nextTime' <= nextTime /\ nextTime' <= t
    BY <1>1, Constants DEF AtMost
  <1> QED
    BY <1>3, <1>4, <1>5

LEMMA SetStep ==
  ASSUME TimerInv, NEW e \in Entries, FastTimer_Set(e)
  PROVE  TimerInv'
  <1> USE Constants, Numbers DEF TimerInv
  <1>1. /\ isr = "off" /\ e \notin Listed /\ Prepend(e)
        /\ running' = TRUE /\ CV' = (IF running THEN CV ELSE 0)
        /\ pending' = (running /\ pending)
        /\ UNCHANGED <<isr, te, next, nextTime, timeReference, ops>>
        /\ lapse' = (lapse \/ RC' <= CV')
    BY DEF FastTimer_Set, scan
  <1>2. /\ Listed' = Listed \cup {e} /\ Acyclic'
        /\ first' \in Pointer /\ nxt' \in [Entries -> Pointer]
    BY <1>1, SetList
  <1>3. timeCurrent' = [timeCurrent EXCEPT ![e] = Interval[e]]
    <2>1. \E b \in BOOLEAN : timeCurrent' =
            [timeCurrent EXCEPT ![e] = Interval[e] + IF b THEN 0 ELSE GetTime]
      BY DEF FastTimer_Set
    <2>2. \A b \in BOOLEAN : Interval[e] + (IF b THEN 0 ELSE GetTime) = Interval[e]
      BY DEF GetTime
    <2> QED
      BY <2>1, <2>2
  <1>4. /\ RC' \in 1..MAXCOUNT /\ RC' <= Interval[e] + MARGIN
        /\ running => RC' <= RC
    <2> DEFINE target == IF running THEN RC ELSE TimeTarget(Interval[e])
    <2>1. /\ target \in 1..MAXCOUNT
          /\ running => target = RC
          /\ ~running => target <= Interval[e]
      BY DEF TimeTarget, AtMost
    <2>2. RC' = IF Interval[e] < target - GetTime - MARGIN
                THEN TimeTarget(target - (target - GetTime - Interval[e])) ELSE target
      BY DEF FastTimer_Set
    <2> HIDE DEF target
    <2>3. RC' = IF Interval[e] < target - MARGIN THEN TimeTarget(Interval[e]) ELSE target
      BY <2>1, <2>2 DEF GetTime
    <2>4. CASE Interval[e] < target - MARGIN
      BY <2>1, <2>3, <2>4 DEF TimeTarget, AtMost
    <2>5. CASE ~(Interval[e] < target - MARGIN)
      BY <2>1, <2>3, <2>5
    <2> QED
      BY <2>4, <2>5
  <1>5. TypeOK'
    <2>1. timeCurrent' \in [Entries -> -HALF..(HALF - 1)]
      BY <1>3
    <2>2. running' \in BOOLEAN /\ pending' \in BOOLEAN /\ lapse' \in BOOLEAN
      BY <1>1
    <2>3. CV' \in 0..(WRAP - 1)
      BY <1>1 DEF TypeOK
    <2> QED
      BY <1>1, <1>2, <1>4, <2>1, <2>2, <2>3 DEF TypeOK
  <1>6. Pointed'
    BY <1>1 DEF Pointed
  <1>7. Clocked'
    <2>1. lapse' \/ CV' < RC'
      <3>1. lapse' \/ ~(RC' <= CV')
        BY <1>1
      <3>2. CV' \in Nat /\ RC' \in Nat
        BY <1>1, <1>4
      <3> QED
        BY <3>1, <3>2
    <2>2. isr' # "off" \/ pending' => CV' <= Latency
      BY <1>1 DEF Clocked
    <2> QED
      BY <1>1, <2>1, <2>2 DEF Clocked
  <1>8. Accounted'
    <2>1. ASSUME NEW x \in Listed \cup {e}, ~lapse
          PROVE  RC' <= Due(x)'
      <3>1. CASE x = e
        BY <1>3, <1>4, <3>1 DEF AtLeast, Due
      <3>2. CASE x \in Listed
        <4>1. x \in Entries /\ x # e /\ running
          BY <1>1, <3>2, ListFacts DEF Clocked
        <4>2. RC <= Due(x)
          BY <1>1, <2>1, <3>2 DEF Accounted
        <4>3. timeCurrent'[x] = timeCurrent[x]
          BY <1>3, <4>1
        <4> QED
          BY <1>4, <4>1, <4>2, <4>3 DEF AtLeast, Due
      <3> QED
        BY <3>1, <3>2
    <2>2. ~lapse' => ~lapse
      BY <1>1
    <2> QED
      BY <1>1, <1>2, <2>1, <2>2 DEF Accounted
  <1> QED
    BY <1>2, <1>5, <1>6, <1>7, <1>8

LEMMA CancelStep ==
  ASSUME TimerInv, NEW e \in Entries, FastTimer_Cancel(e)
  PROVE  TimerInv'
  <1> USE Constants, Numbers DEF TimerInv
  <1>1. /\ isr = "off" /\ e \in Listed /\ Unlink(e)
        /\ timeCurrent' = [timeCurrent EXCEPT ![e] = 0]
        /\ UNCHANGED <<running, CV, RC, pending, isr, te, next, nextTime, timeReference, ops,
                       lapse>>
    BY DEF FastTimer_Cancel, scan
  <1>2. /\ Listed' = Listed \ {e} /\ Acyclic'
        /\ first' \in Pointer /\ nxt' \in [Entries -> Pointer]
    BY <1>1, CancelList
  <1>3. TypeOK'
    <2>1. timeCurrent' \in [Entries -> -HALF..(HALF - 1)]
      BY <1>1
    <2> QED
      BY <1>1, <1>2, <2>1 DEF TypeOK
  <1>4. Pointed'
    BY <1>1 DEF Pointed
  <1>5. Clocked'
    BY <1>1, <1>2 DEF Clocked
  <1>6. Accounted'
    <2>1. \A x \in Listed \ {e} : timeCurrent'[x] = timeCurrent[x]
      BY <1>1, ListFacts
    <2> QED
      BY <1>1, <1>2, <2>1 DEF Accounted, Due
  <1> QED
    BY <1>2, <1>3, <1>4, <1>5, <1>6

\* While a callback runs, Unseen and Seen are told by next and te.
LEMMA InCallback ==
  ASSUME TypeOK, Pointed, isr = "callback"
  PROVE  /\ Unseen = Reach(nxt, next) /\ Unseen \subseteq Listed
         /\ Seen = {x \in Listed \ Unseen : x # te}
         /\ te \in Entries /\ next \in Listed \cup {NULL}
  <1>1. nxt \in [Entries -> Pointer] /\ first \in Pointer
    BY DEF TypeOK
  <1>2. te \in Entries /\ next \in Listed \cup {NULL}
    BY DEF Pointed
  <1>3. Reach(nxt, next) \subseteq Listed
    BY <1>1, <1>2, ReachSub DEF Listed
  <1> QED
    BY <1>2, <1>3 DEF Unseen, Seen

LEMMA CallbackSetStep ==
  ASSUME TimerInv, NEW e \in Entries, CallbackSet(e)
  PROVE  TimerInv'
  <1> USE Constants, Numbers DEF TimerInv
  <1>1. /\ isr = "callback" /\ ops < CallbackOps /\ e \notin Listed /\ Prepend(e)
        /\ timeCurrent' = [timeCurrent EXCEPT ![e] = Interval[e]]
        /\ NextTimeWith(Interval[e]) /\ ops' = ops + 1
        /\ UNCHANGED <<running, CV, RC, pending, isr, te, next, timeReference>>
    BY DEF CallbackSet
  <1>2. /\ Listed' = Listed \cup {e} /\ Acyclic'
        /\ first' \in Pointer /\ nxt' \in [Entries -> Pointer]
        /\ \A p \in Listed \cup {NULL} : Reach(nxt', p) = Reach(nxt, p)
    BY <1>1, SetList
  <1>3. /\ Unseen = Reach(nxt, next) /\ Unseen \subseteq Listed
        /\ Seen = {x \in Listed \ Unseen : x # te}
        /\ te \in Entries /\ next \in Listed \cup {NULL}
    BY <1>1, InCallback
  <1>4. /\ nextTime' \in -HALF..(HALF - 1) /\ lapse' \in BOOLEAN
        /\ ~lapse' => ~lapse /\ nextTime' <= nextTime /\ nextTime' <= Interval[e]
    <2>1. Interval[e] \in -HALF..(HALF - 1)
      OBVIOUS
    <2> QED
      BY <1>1, <2>1, NextTimeFacts DEF TypeOK
  <1>5. TypeOK'
    <2>1. timeCurrent' \in [Entries -> -HALF..(HALF - 1)]
      BY <1>1
    <2> QED
      BY <1>1, <1>2, <1>4, <2>1 DEF TypeOK
  <1>6. Pointed'
    BY <1>1, <1>2, <1>3 DEF Pointed
  <1>7. Clocked'
    BY <1>1 DEF Clocked
  <1>8. Accounted'
    <2>1. Unseen' = Unseen
      BY <1>1, <1>2, <1>3 DEF Unseen
    <2>2. ASSUME NEW x \in Seen', ~lapse'
          PROVE  nextTime' <= timeCurrent'[x]
      <3>1. x \in Listed \cup {e} /\ x \notin Unseen /\ x # te
        BY <1>1, <1>2, <2>1 DEF Seen
      <3>2. CASE x = e
        BY <1>1, <1>4, <2>2, <3>2
      <3>3. CASE x \in Listed
        <4>1. x \in Seen /\ x \in Entries /\ x # e
          BY <1>1, <1>3, <3>1, <3>3, ListFacts
        <4>2. nextTime <= timeCurrent[x]
          BY <1>1, <1>4, <2>2, <4>1 DEF Accounted
        <4>3. timeCurrent'[x] = timeCurrent[x] /\ nextTime' <= nextTime
          BY <1>1, <1>4, <2>2, <4>1
        <4> QED
          BY <1>4, <4>1, <4>2, <4>3
      <3> QED
        BY <3>1, <3>2, <3>3
    <2> QED
      BY <1>1, <2>2 DEF Accounted
  <1> QED
    BY <1>2, <1>5, <1>6, <1>7, <1>8

LEMMA CallbackCancelStep ==
  ASSUME TimerInv, NEW e \in Entries, CallbackCancel(e)
  PROVE  TimerInv'
  <1> USE Constants, Numbers DEF TimerInv
  <1>1. /\ isr = "callback" /\ ops < CallbackOps /\ e \in Listed /\ Unlink(e)
        /\ next' = (IF next = e THEN nxt[e] ELSE next) /\ ops' = ops + 1
        /\ UNCHANGED <<timeCurrent, running, CV, RC, pending, isr, te, nextTime, timeReference,
                       lapse>>
    BY DEF CallbackCancel, NextAfterCancel
  <1>2. /\ Listed' = Listed \ {e} /\ Acyclic' /\ nxt[e] # e
        /\ first' \in Pointer /\ nxt' \in [Entries -> Pointer]
        /\ \A p \in Listed \cup {NULL} :
             Reach(nxt', IF p = e THEN nxt[e] ELSE p) = Reach(nxt, p) \ {e}
    BY <1>1, CancelList
  <1>3. /\ Unseen = Reach(nxt, next) /\ Unseen \subseteq Listed
        /\ Seen = {x \in Listed \ Unseen : x # te}
        /\ te \in Entries /\ next \in Listed \cup {NULL}
    BY <1>1, InCallback
  <1>4. next' \in Listed' \cup {NULL}
    BY <1>1, <1>2, <1>3, ListFacts
  <1>5. TypeOK'
    BY <1>1, <1>2, <1>4, ListFacts DEF TypeOK, Pointer
  <1>6. Pointed'
    BY <1>1, <1>3, <1>4 DEF Pointed
  <1>7. Clocked'
    BY <1>1 DEF Clocked
  <1>8. Accounted'
    <2>1. Unseen' = Unseen \ {e}
      BY <1>1, <1>2, <1>3 DEF Unseen
    <2>2. Seen' \subseteq Seen
      BY <1>1, <1>2, <1>3, <2>1 DEF Seen
    <2> QED
      BY <1>1, <2>2 DEF Accounted
  <1> QED
    BY <1>2, <1>5, <1>6, <1>7, <1>8

-----------------------------------------------------------------------------
(***************************************************************************)
(* The handler.                                                            *)
(***************************************************************************)
LEMMA IsrEnterStep ==
  ASSUME TimerInv, IsrEnter
  PROVE  TimerInv'
  <1> USE Constants, Numbers DEF TimerInv
  <1>1. /\ isr = "off" /\ pending /\ isr' = "scan" /\ pending' = FALSE
        /\ timeReference' = RC /\ RC' = MAXCOUNT
        /\ te' = first /\ next' = NULL /\ nextTime' = MAXCOUNT /\ lapse' = FALSE
        /\ UNCHANGED <<first, nxt, timeCurrent, running, CV, ops>>
    BY DEF IsrEnter, list
  <1>2. Listed' = Listed /\ Acyclic'
    BY <1>1, SameList
  <1>3. TypeOK'
    <2>1. pending' \in BOOLEAN /\ lapse' \in BOOLEAN
      BY <1>1
    <2>2. RC \in 0..MAXCOUNT /\ MAXCOUNT \in 1..MAXCOUNT /\ MAXCOUNT \in -HALF..(HALF - 1)
      OBVIOUS
    <2> QED
      BY <1>1, <2>1, <2>2 DEF TypeOK, Pointer
  <1>4. Pointed'
    BY <1>1, <1>2, ListFacts DEF Pointed
  <1>5. Clocked'
    BY <1>1 DEF Clocked
  <1>6. Accounted'
    <2>1. Unseen' = Listed
      BY <1>1 DEF Unseen, Listed
    <2>2. Seen' = {}
      BY <1>2, <2>1 DEF Seen
    <2> QED
      BY <1>1, <2>2 DEF Accounted
  <1> QED
    BY <1>2, <1>3, <1>4, <1>5, <1>6

\* The timer the handler looks at, and what is left of its interval.
LEMMA InScan ==
  ASSUME TimerInv, isr = "scan", te # NULL
  PROVE  /\ te \in Listed /\ te \in Entries /\ nxt[te] \in Listed \cup {NULL}
         /\ Unseen = {te} \cup Reach(nxt, nxt[te])
         /\ te \notin Reach(nxt, nxt[te])
         /\ Reach(nxt, nxt[te]) \subseteq Entries
         /\ Seen = Listed \ Unseen
         /\ Left \in -HALF..(HALF - 1)
         /\ Wrapped(Left + Interval[te]) \in -HALF..(HALF - 1)
  <1> USE Constants, Numbers DEF TimerInv
  <1>1. te \in Listed /\ te \in Entries /\ nxt[te] \in Listed \cup {NULL}
    BY ListFacts DEF Pointed
  <1>2. Unseen = Reach(nxt, te) /\ Reach(nxt, te) = {te} \cup Reach(nxt, nxt[te])
    BY <1>1, ReachHead DEF Unseen
  <1>3. Reach(nxt, nxt[te]) \subseteq Entries
    BY DEF Reach
  <1>4. Seen = Listed \ Unseen
    BY DEF Seen
  <1>5. Left \in -HALF..(HALF - 1)
    BY <1>1, WrappedRange DEF Left
  <1>6. Wrapped(Left + Interval[te]) \in -HALF..(HALF - 1)
    BY <1>1, <1>5, WrappedRange
  <1> QED
    BY <1>1, <1>2, <1>3, <1>4, <1>5, <1>6 DEF Acyclic

LEMMA IsrCallsStep ==
  ASSUME TimerInv, IsrCalls
  PROVE  TimerInv'
  <1> USE Constants, Numbers DEF TimerInv
  <1>1. /\ isr = "scan" /\ te # NULL /\ Left <= MINCOUNT /\ isr' = "callback"
        /\ next' = nxt[te]
        /\ timeCurrent' = [timeCurrent EXCEPT ![te] = Wrapped(Left + Interval[te])]
        /\ UNCHANGED <<first, nxt, running, CV, RC, pending, te, nextTime, timeReference, ops,
                       lapse>>
    BY DEF IsrCalls
  <1>2. /\ te \in Listed /\ te \in Entries /\ nxt[te] \in Listed \cup {NULL}
        /\ Unseen = {te} \cup Reach(nxt, nxt[te])
        /\ te \notin Reach(nxt, nxt[te])
        /\ Reach(nxt, nxt[te]) \subseteq Entries
        /\ Seen = Listed \ Unseen
        /\ Wrapped(Left + Interval[te]) \in -HALF..(HALF - 1)
    BY <1>1, InScan
  <1>3. Listed' = Listed /\ Acyclic'
    BY <1>1, SameList
  <1>4. TypeOK'
    <2>1. timeCurrent' \in [Entries -> -HALF..(HALF - 1)]
      BY <1>1, <1>2
    <2> QED
      BY <1>1, <1>2, <2>1, ListFacts DEF TypeOK, Pointer
  <1>5. Pointed'
    BY <1>1, <1>2, <1>3 DEF Pointed
  <1>6. Clocked'
    BY <1>1 DEF Clocked
  <1>7. Accounted'
    <2>1. Unseen' = Reach(nxt, nxt[te])
      BY <1>1 DEF Unseen
    <2>2. Seen' = Seen
      BY <1>1, <1>2, <1>3, <2>1 DEF Seen
    <2>3. \A x \in Seen : timeCurrent'[x] = timeCurrent[x]
      BY <1>1, <1>2, ListFacts
    <2> QED
      BY <1>1, <2>2, <2>3 DEF Accounted
  <1> QED
    BY <1>3, <1>4, <1>5, <1>6, <1>7

LEMMA IsrReturnsStep ==
  ASSUME TimerInv, IsrReturns
  PROVE  TimerInv'
  <1> USE Constants, Numbers DEF TimerInv
  <1>1. /\ isr = "callback" /\ isr' = "scan"
        /\ NextTimeWith(timeCurrent[te])
        /\ te' = next /\ next' = NULL /\ ops' = 0
        /\ UNCHANGED <<first, nxt, timeCurrent, running, CV, RC, pending, timeReference>>
    BY DEF IsrReturns, list
  <1>2. /\ Unseen = Reach(nxt, next) /\ Unseen \subseteq Listed
        /\ Seen = {x \in Listed \ Unseen : x # te}
        /\ te \in Entries /\ next \in Listed \cup {NULL}
    BY <1>1, InCallback
  <1>3. Listed' = Listed /\ Acyclic'
    BY <1>1, SameList
  <1>4. /\ nextTime' \in -HALF..(HALF - 1) /\ lapse' \in BOOLEAN
        /\ ~lapse' => ~lapse /\ nextTime' <= nextTime /\ nextTime' <= timeCurrent[te]
    BY <1>1, <1>2, NextTimeFacts DEF TypeOK
  <1>5. TypeOK'
    BY <1>1, <1>4 DEF TypeOK, Pointer
  <1>6. Pointed'
    BY <1>1, <1>2, <1>3 DEF Pointed
  <1>7. Clocked'
    BY <1>1 DEF Clocked
  <1>8. Accounted'
    <2>1. Unseen' = Unseen
      BY <1>1, <1>2 DEF Unseen
    <2>2. ASSUME NEW x \in Seen', ~lapse'
          PROVE  nextTime' <= timeCurrent[x]
      <3>1. x \in Seen \cup {te} /\ x \in Entries
        BY <1>1, <1>2, <1>3, <2>1, ListFacts DEF Seen
      <3>2. CASE x = te
        BY <1>4, <2>2, <3>2
      <3>3. CASE x \in Seen
        <4>1. nextTime <= timeCurrent[x] /\ nextTime' <= nextTime
          BY <1>1, <1>4, <2>2, <3>3 DEF Accounted
        <4> QED
          BY <1>4, <3>1, <4>1
      <3> QED
        BY <3>1, <3>2, <3>3
    <2> QED
      BY <1>1, <2>2 DEF Accounted
  <1> QED
    BY <1>3, <1>5, <1>6, <1>7, <1>8

LEMMA IsrPassesStep ==
  ASSUME TimerInv, IsrPasses
  PROVE  TimerInv'
  <1> USE Constants, Numbers DEF TimerInv
  <1>1. /\ isr = "scan" /\ te # NULL /\ Left > MINCOUNT
        /\ timeCurrent' = [timeCurrent EXCEPT ![te] = Left]
        /\ NextTimeWith(Left) /\ te' = nxt[te]
        /\ UNCHANGED <<first, nxt, running, CV, RC, pending, isr, next, timeReference, ops>>
    BY DEF IsrPasses
  <1>2. /\ te \in Listed /\ te \in Entries /\ nxt[te] \in Listed \cup {NULL}
        /\ Unseen = {te} \cup Reach(nxt, nxt[te])
        /\ te \notin Reach(nxt, nxt[te])
        /\ Reach(nxt, nxt[te]) \subseteq Entries
        /\ Seen = Listed \ Unseen
        /\ Left \in -HALF..(HALF - 1)
    BY <1>1, InScan
  <1>3. Listed' = Listed /\ Acyclic'
    BY <1>1, SameList
  <1>4. /\ nextTime' \in -HALF..(HALF - 1) /\ lapse' \in BOOLEAN
        /\ ~lapse' => ~lapse /\ nextTime' <= nextTime /\ nextTime' <= Left
    BY <1>1, <1>2, NextTimeFacts DEF TypeOK
  <1>5. TypeOK'
    <2>1. timeCurrent' \in [Entries -> -HALF..(HALF - 1)]
      BY <1>1, <1>2
    <2> QED
      BY <1>1, <1>2, <1>4, <2>1, ListFacts DEF TypeOK, Pointer
  <1>6. Pointed'
    BY <1>1, <1>2, <1>3 DEF Pointed
  <1>7. Clocked'
    BY <1>1 DEF Clocked
  <1>8. Accounted'
    <2>1. Unseen' = Reach(nxt, nxt[te])
      BY <1>1 DEF Unseen
    <2>2. ASSUME NEW x \in Seen', ~lapse'
          PROVE  nextTime' <= timeCurrent'[x]
      <3>1. x \in Seen \cup {te} /\ x \in Entries
        BY <1>1, <1>2, <1>3, <2>1, ListFacts DEF Seen
      <3>2. CASE x = te
        BY <1>1, <1>2, <1>4, <2>2, <3>2
      <3>3. CASE x \in Seen
        <4>1. x # te /\ nextTime <= timeCurrent[x] /\ nextTime' <= nextTime
          BY <1>1, <1>2, <1>4, <2>2, <3>3 DEF Accounted
        <4>2. timeCurrent'[x] = timeCurrent[x]
          BY <1>1, <3>1, <4>1
        <4> QED
          BY <1>4, <3>1, <4>1, <4>2
      <3> QED
        BY <3>1, <3>2, <3>3
    <2> QED
      BY <1>1, <2>2 DEF Accounted
  <1> QED
    BY <1>3, <1>5, <1>6, <1>7, <1>8

LEMMA IsrExitStep ==
  ASSUME TimerInv, IsrExit
  PROVE  TimerInv' /\ Listed' = Listed
  <1> USE Constants, Numbers DEF TimerInv
  <1>1. /\ isr = "scan" /\ te = NULL /\ isr' = "off"
        /\ Forget(Entries \ Listed)
        /\ nextTime' = MAXCOUNT /\ timeReference' = 0
        /\ UNCHANGED <<first, pending, te, next, ops>>
    BY DEF IsrExit
  <1>2. /\ nxt' \in [Entries -> Pointer] /\ timeCurrent' \in [Entries -> -HALF..(HALF - 1)]
        /\ \A x \in Listed : nxt'[x] = nxt[x] /\ timeCurrent'[x] = timeCurrent[x]
    BY <1>1, ListFacts DEF Forget, Pointer
  <1>3. Listed' = Listed /\ Acyclic'
    BY <1>1, <1>2, SameList
  <1>4. CV <= Latency /\ ~pending /\ running /\ CV' \in 0..CV /\ RC' \in 1..MAXCOUNT
    <2>1. CV <= Latency /\ ~pending /\ running
      BY <1>1 DEF Clocked
    <2>2. CASE first # NULL
      BY <2>1, <2>2 DEF IsrExit, Slice, AtMost, AtLeast
    <2>3. CASE first = NULL
      BY <2>1, <2>3 DEF IsrExit
    <2> QED
      BY <2>1, <2>2, <2>3
  <1>5. /\ running' = (first # NULL)
        /\ lapse' \in BOOLEAN /\ (lapse' => lapse /\ first # NULL)
        /\ first # NULL => lapse' = lapse /\ CV' = CV /\ RC' = Slice
        /\ first = NULL => CV' = 0 /\ RC' = MAXCOUNT /\ Listed = {}
    BY <1>4, ListFacts DEF IsrExit, TypeOK
  <1>6. TypeOK'
    <2>1. running' \in BOOLEAN /\ lapse' \in BOOLEAN
      BY <1>5
    <2>2. CV' \in 0..(WRAP - 1) /\ MAXCOUNT \in -HALF..(HALF - 1)
      BY <1>4
    <2> QED
      BY <1>1, <1>2, <1>4, <2>1, <2>2 DEF TypeOK
  <1>7. Pointed'
    BY <1>1 DEF Pointed
  <1>8. Clocked'
    <2>1. CV' < RC'
      <3>1. CASE first # NULL
        BY <1>4, <1>5, <3>1 DEF Slice, AtMost, AtLeast
      <3>2. CASE first = NULL
        BY <1>5, <3>2
      <3> QED
        BY <3>1, <3>2
    <2>2. ~running' => CV' = 0 /\ ~lapse'
      BY <1>5
    <2>3. ~pending' /\ (Listed' # {} => running')
      BY <1>1, <1>3, <1>4, <1>5
    <2> QED
      BY <1>1, <2>1, <2>2, <2>3 DEF Clocked
  <1>9. Accounted'
    <2>1. ASSUME NEW x \in Listed, ~lapse
          PROVE  RC' <= Due(x)'
      <3>1. first # NULL /\ x \in Entries
        BY ListFacts
      <3>2. Unseen = {}
        BY <1>1, ReachNull DEF Unseen
      <3>3. nextTime <= timeCurrent[x]
        BY <1>1, <2>1, <3>2 DEF Accounted, Seen
      <3>4. RC' = AtLeast(AtMost(nextTime, MAXCOUNT), CV + MINCOUNT)
        BY <1>5, <3>1 DEF Slice
      <3>5. RC' <= AtLeast(timeCurrent[x] + MARGIN, Latency + MINCOUNT)
        BY <1>4, <3>1, <3>3, <3>4 DEF AtLeast, AtMost
      <3> QED
        BY <1>2, <3>1, <3>5 DEF Due
    <2>2. Listed # {} /\ ~lapse' => ~lapse
      BY <1>5
    <2> QED
      BY <1>1, <1>3, <2>1, <2>2 DEF Accounted
  <1> QED
    BY <1>3, <1>6, <1>7, <1>8, <1>9

LEMMA TickStep ==
  ASSUME TimerInv, Tick
  PROVE  TimerInv'
  <1> USE Constants, Numbers DEF TimerInv
  <1>1. /\ running /\ (isr # "off" \/ pending => CV < Latency)
        /\ CV' = (IF CV + 1 = RC THEN 0 ELSE (CV + 1) % WRAP)
        /\ UNCHANGED <<first, nxt, timeCurrent, running, RC, isr, te, next, nextTime,
                       timeReference, ops, lapse>>
    BY DEF Tick, list, scan
  <1>2. pending' = (pending \/ CV + 1 = RC)
    BY DEF Tick
  <1>3. Listed' = Listed /\ Acyclic'
    BY <1>1, SameList
  <1>4. CV' \in 0..(WRAP - 1) /\ (CV < Latency => CV' <= Latency) /\ (CV + 1 = RC => CV' = 0)
    BY <1>1
  <1>5. TypeOK'
    <2>1. pending' \in BOOLEAN
      BY <1>2
    <2> QED
      BY <1>1, <1>4, <2>1 DEF TypeOK
  <1>6. Pointed'
    BY <1>1, <1>3 DEF Pointed
  <1>7. Clocked'
    <2>1. isr # "off" => ~pending' /\ RC = MAXCOUNT
      <3> SUFFICES ASSUME isr # "off" PROVE ~pending' /\ RC = MAXCOUNT
        OBVIOUS
      <3>1. RC = MAXCOUNT /\ ~pending /\ CV < Latency
        BY <1>1 DEF Clocked
      <3>2. ~(CV + 1 = RC)
        BY <3>1
      <3> QED
        BY <1>2, <3>1, <3>2
    <2>2. pending' => pending \/ CV + 1 = RC
      BY <1>2
    <2>3. isr # "off" \/ pending' => CV' <= Latency
      BY <1>1, <1>4, <2>2
    <2>4. CV < RC => CV' < RC
      BY <1>1
    <2>5. isr = "off" => CV' < RC \/ lapse
      BY <2>4 DEF Clocked
    <2>6. running'
      BY <1>1
    <2> QED
      BY <1>1, <1>3, <2>1, <2>3, <2>5, <2>6 DEF Clocked
  <1>8. Accounted'
    <2>1. Unseen' = Unseen /\ Seen' = Seen
      BY <1>1, <1>3 DEF Unseen, Seen
    <2> QED
      BY <1>1, <1>3, <2>1 DEF Accounted, Due
  <1> QED
    BY <1>3, <1>5, <1>6, <1>7, <1>8

-----------------------------------------------------------------------------
LEMMA TimerInvariant == Spec => []TimerInv
  <1>1. Init => TimerInv
    <2> SUFFICES ASSUME Init PROVE TimerInv
      OBVIOUS
    <2>1. TypeOK
      <3>1. /\ running \in BOOLEAN /\ pending \in BOOLEAN /\ lapse \in BOOLEAN
        BY DEF Init
      <3>2. /\ nxt \in [Entries -> Pointer] /\ first \in Pointer
            /\ timeCurrent \in [Entries -> -HALF..(HALF - 1)]
        BY Constants DEF Init, Pointer
      <3>3. /\ CV \in 0..(WRAP - 1) /\ RC \in 1..MAXCOUNT /\ nextTime \in -HALF..(HALF - 1)
            /\ timeReference \in 0..MAXCOUNT /\ ops \in 0..CallbackOps
        BY Constants DEF Init
      <3> QED
        BY <3>1, <3>2, <3>3 DEF Init, TypeOK, Pointer
    <2>2. Listed = {}
      BY <2>1, ListFacts DEF Init
    <2> QED
      BY <2>1, <2>2, Constants DEF Init, TimerInv, Acyclic, Pointed, Clocked, Accounted
  <1>2. TimerInv /\ [Next]_vars => TimerInv'
    <2> SUFFICES ASSUME TimerInv, [Next]_vars PROVE TimerInv'
      OBVIOUS
    <2>1. CASE UNCHANGED vars
      <3>1. UNCHANGED <<first, nxt, timeCurrent, running, CV, RC, pending, isr, te, next,
                        nextTime, timeReference, ops, lapse>>
        BY <2>1 DEF vars, list, scan
      <3>2. UNCHANGED <<Listed, Unseen, Seen>>
        BY <3>1 DEF Listed, Unseen, Seen
      <3> QED
        BY <3>1, <3>2 DEF TimerInv, TypeOK, Acyclic, Pointed, Clocked, Accounted, Due
    <2> QED
      BY <2>1, SetStep, CancelStep, CallbackSetStep, CallbackCancelStep, IsrEnterStep,
         IsrCallsStep, IsrReturnsStep, IsrPassesStep, IsrExitStep, TickStep
      DEF Next, Isr
  <1> QED
    BY <1>1, <1>2, PTL DEF Spec

(***************************************************************************)
(* The times in fasttimer.c stay in range for timers of any length: the    *)
(* compare register within a slice, whatever a timer that falls behind     *)
(* makes of the next time of fasttimer_isr.c.                              *)
(***************************************************************************)
THEOREM TimerTypeCorrect == Spec => []TypeOK
  BY TimerInvariant, PTL DEF TimerInv

(***************************************************************************)
(* The counter does not pass the time a timer of fasttimer.c is due, for   *)
(* timers of any length and whatever their callbacks set and cancel, but   *)
(* for the two lapses that NotOverslept names.                             *)
(***************************************************************************)
THEOREM TimerNotOverslept == Spec => []NotOverslept
  <1>1. TimerInv => NotOverslept
    <2> SUFFICES ASSUME TimerInv, isr = "off", NEW e \in Listed
                 PROVE  running /\ (CV <= Due(e) \/ lapse)
      BY DEF NotOverslept
    <2> USE DEF TimerInv
    <2>1. running /\ (CV < RC \/ lapse) /\ (RC <= Due(e) \/ lapse)
      BY DEF Clocked, Accounted
    <2>2. CV \in Nat /\ RC \in Nat /\ Due(e) \in Int
      BY Numbers, Constants, ListFacts DEF Due, AtLeast
    <2>3. CV < RC /\ RC <= Due(e) => CV <= Due(e)
      BY <2>2
    <2> QED
      BY <2>1, <2>3
  <1> QED
    BY <1>1, TimerInvariant, PTL

(***************************************************************************)
(* The list of fasttimer.c implements the service its users rely on:       *)
(* nobody who is set is lost and nobody else is called, one callback at a  *)
(* time.                                                                   *)
(***************************************************************************)
THEOREM TimerImplementsService == Spec => ImplementsService
  <1> DEFINE calling == IF isr = "callback" THEN te ELSE NULL
  <1>1. Init => Service!InitService
    BY ReachNull DEF Init, Service!InitService, Listed
  <1>2. TimerInv /\ [Next]_vars => [Service!NextService]_<<Listed, calling>>
    <2> SUFFICES ASSUME TimerInv, [Next]_vars
                 PROVE  Service!NextService \/ UNCHANGED <<Listed, calling>>
      OBVIOUS
    <2> USE DEF TimerInv
    <2>1. ASSUME NEW e \in Entries, FastTimer_Set(e) \/ CallbackSet(e)
          PROVE  Service!SetTimer(e)
      <3>1. e \notin Listed /\ Prepend(e) /\ UNCHANGED <<isr, te>>
        BY <2>1 DEF FastTimer_Set, CallbackSet, scan
      <3>2. Listed' = Listed \cup {e}
        BY <3>1, SetList
      <3> QED
        BY <3>1, <3>2 DEF Service!SetTimer
    <2>2. ASSUME NEW e \in Entries, FastTimer_Cancel(e) \/ CallbackCancel(e)
          PROVE  Service!CancelTimer(e)
      <3>1. e \in Listed /\ Unlink(e) /\ UNCHANGED <<isr, te>>
        BY <2>2 DEF FastTimer_Cancel, CallbackCancel, scan
      <3>2. Listed' = Listed \ {e}
        BY <3>1, CancelList
      <3> QED
        BY <3>1, <3>2 DEF Service!CancelTimer
    <2>3. CASE IsrCalls
      <3>1. te \in Listed /\ te \in Entries
        BY <2>3, InScan DEF IsrCalls
      <3>2. Listed' = Listed
        BY <2>3 DEF IsrCalls, Listed
      <3>3. Service!Call(te)
        BY <2>3, <3>1, <3>2 DEF IsrCalls, Service!Call
      <3> QED
        BY <3>1, <3>3 DEF Service!NextService
    <2>4. CASE IsrReturns
      <3>1. te \in Entries
        BY <2>4 DEF IsrReturns, Pointed
      <3>2. Listed' = Listed
        BY <2>4 DEF IsrReturns, Listed, list
      <3>3. Service!Return
        BY <2>4, <3>1, <3>2, Constants DEF IsrReturns, Service!Return
      <3> QED
        BY <3>3 DEF Service!NextService
    <2>5. CASE IsrEnter \/ IsrPasses \/ Tick \/ UNCHANGED vars
      <3>1. UNCHANGED <<first, nxt>>
        BY <2>5 DEF IsrEnter, IsrPasses, Tick, vars, list
      <3>2. calling' = calling
        BY <2>5 DEF IsrEnter, IsrPasses, Tick, vars, scan
      <3> QED
        BY <3>1, <3>2 DEF Listed
    <2>6. CASE IsrExit
      <3>1. Listed' = Listed
        BY <2>6, IsrExitStep
      <3>2. calling' = calling
        BY <2>6 DEF IsrExit
      <3> QED
        BY <3>1, <3>2
    <2> QED
      BY <2>1, <2>2, <2>3, <2>4, <2>5, <2>6 DEF Next, Isr, Service!NextService
  <1> QED
    BY <1>1, <1>2, TimerInvariant, PTL DEF Spec, ImplementsService, Service!SpecService

=============================================================================
