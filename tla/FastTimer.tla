----------------------------- MODULE FastTimer ------------------------------
(***************************************************************************)
(* The fast timer of src/firmware/core/makingthings/fasttimer.c and its    *)
(* interrupt handler fasttimer_isr.c: a linked list of repeating timers    *)
(* multiplexed on the compare register of one hardware counter (TC2).  The *)
(* handler walks the list a timer at a time while the counter runs on, and *)
(* the callbacks it makes may set and cancel any timer, which moves the    *)
(* pointers under it.                                                      *)
(*                                                                         *)
(* FastTimer_Set and FastTimer_Cancel called by a task are one step: the   *)
(* stepper driver switches the fast interrupt off around them, and the     *)
(* other users set their timer when the list is empty and the clock stands *)
(* still.  No caller asks for a timer that does not repeat.                *)
(***************************************************************************)
EXTENDS Integers

CONSTANTS
  Entries, NULL,
  Interval,            \* per timer: timeInitial
  MAXCOUNT,            \* longest slice (fasttimer_internal.h: 0xFF00)
  MINCOUNT,            \* a timer this close is due (fasttimer_internal.h: 20)
  MARGIN,              \* a slice is not shortened by less (fasttimer_internal.h: 2)
  WRAP,                \* the counter counts modulo this (2^16)
  HALF,                \* an int is at least -HALF and below HALF (2^31)
  Latency,             \* bound: ticks from the interrupt to the end of its handler
  CallbackOps          \* bound: calls of FastTimer_Set and _Cancel in one callback

ASSUME TimerAssumption ==
  /\ NULL \notin Entries
  /\ {MAXCOUNT, MINCOUNT, MARGIN, WRAP, HALF, Latency, CallbackOps} \subseteq Nat
  /\ 0 < MINCOUNT /\ Latency + MINCOUNT <= MAXCOUNT /\ MAXCOUNT < WRAP /\ WRAP <= HALF
  /\ Interval \in [Entries -> 1..(HALF - 1)]

VARIABLES
  first, nxt,          \* the list: its head, and per timer the pointer next
  timeCurrent,         \* per timer: what is left of its interval; less than none
                       \* if it is so short that the slices are longer
  running,             \* FastTimer.running: the clock of the counter is on
  CV, RC,              \* the counter and its compare register
  pending,             \* the compare interrupt has been raised
  isr,                 \* the handler: "off", "scan" the list, in a "callback"
  te, next, nextTime,  \* its current timer, the one after, the next slice
  timeReference,       \* and the length of the slice that just ended
  ops,                 \* calls the present callback has made
  lapse                \* history: since the last interrupt a time has been lost

list == <<first, nxt, timeCurrent>>
scan == <<te, next, nextTime, timeReference>>
vars == <<list, running, CV, RC, pending, isr, scan, ops, lapse>>

Pointer == Entries \cup {NULL}

TypeOK ==
  /\ first \in Pointer /\ nxt \in [Entries -> Pointer]
  /\ timeCurrent \in [Entries -> -HALF..(HALF - 1)]
  /\ running \in BOOLEAN /\ pending \in BOOLEAN
  /\ CV \in 0..(WRAP - 1) /\ RC \in 1..MAXCOUNT
  /\ isr \in {"off", "scan", "callback"}
  /\ te \in Pointer /\ next \in Pointer
  /\ nextTime \in -HALF..(HALF - 1) /\ timeReference \in 0..MAXCOUNT
  /\ ops \in 0..CallbackOps /\ lapse \in BOOLEAN

Init ==
  /\ first = NULL /\ nxt = [e \in Entries |-> NULL]
  /\ timeCurrent = [e \in Entries |-> 0]
  /\ running = FALSE /\ CV = 0 /\ RC = MAXCOUNT /\ pending = FALSE
  /\ isr = "off" /\ te = NULL /\ next = NULL /\ nextTime = MAXCOUNT /\ timeReference = 0
  /\ ops = 0 /\ lapse = FALSE

\* What the pointers of f lead to from p: the least set that has p and is closed.
Closed(f, S) == \A x \in S : f[x] \in S \cup {NULL}
Reach(f, p) ==
  LET Lists == {S \in SUBSET Entries : p \in S \cup {NULL} /\ Closed(f, S)}
  IN {e \in Entries : \A S \in Lists : e \in S}

\* The timers in the list.
Listed == Reach(nxt, first)

AtMost(a, b) == IF a < b THEN a ELSE b
AtLeast(a, b) == IF a < b THEN b ELSE a

\* The int that the processor makes of x.
Wrapped(x) == ((x + HALF) % (2 * HALF)) - HALF

-----------------------------------------------------------------------------
(***************************************************************************)
(* Mutated forms, used to confirm that the properties notice a mistake.    *)
(***************************************************************************)
\* The compare register is loaded without a limit.
TimeTargetUncapped(t) == t

\* The next slice may be over before it is programmed.
SliceTooShort == AtLeast(AtMost(nextTime, MAXCOUNT), 1)

\* The handler goes to a timer its callback has cancelled.
NextAfterCancelKept(e) == next

\* Only the time since the interrupt is debited.
LeftSinceInterrupt == Wrapped(timeCurrent[te] - CV)

-----------------------------------------------------------------------------
\* FastTimer_GetTimeTarget reads the compare register of TC2, but
\* FastTimer_GetTime reads the counter of TC0, which nobody has started.
GetTime == 0

\* FastTimer_SetTimeTarget.
TimeTarget(t) == AtMost(t, MAXCOUNT)

\* FastTimer_Set, the list: e becomes the head.
Prepend(e) == first' = e /\ nxt' = [nxt EXCEPT ![e] = first]

\* FastTimer_Set outside the handler: start the clock if it stands, and shorten
\* the slice if e is due before its end.
FastTimer_Set(e) ==
  /\ isr = "off" /\ e \notin Listed
  /\ LET target == IF running THEN RC ELSE TimeTarget(Interval[e])
         remaining == target - GetTime
         shorter == Interval[e] < remaining - MARGIN
     IN /\ RC' = IF shorter THEN TimeTarget(target - (remaining - Interval[e])) ELSE target
        /\ timeCurrent' = [timeCurrent EXCEPT
                             ![e] = Interval[e] + IF shorter THEN 0 ELSE GetTime]
  /\ running' = TRUE
  /\ CV' = IF running THEN CV ELSE 0
  /\ lapse' = (lapse \/ RC' <= CV')
  /\ pending' = (running /\ pending)
  /\ Prepend(e)
  /\ UNCHANGED <<isr, scan, ops>>

\* The next slice is to be no longer than t: FastTimer.nextTime is lowered to t,
\* but -1 stands for no slice yet and gives way, also when a timer has really
\* fallen behind to -1.
NextTimeWith(t) ==
  /\ nextTime' = IF nextTime = -1 THEN t ELSE AtMost(nextTime, t)
  /\ lapse' = (lapse \/ (nextTime = -1 /\ t > -1))

\* FastTimer_Set by a callback: the handler has gone past the head already.
CallbackSet(e) ==
  /\ isr = "callback" /\ ops < CallbackOps /\ e \notin Listed
  /\ Prepend(e)
  /\ timeCurrent' = [timeCurrent EXCEPT ![e] = Interval[e]]
  /\ NextTimeWith(Interval[e])
  /\ ops' = ops + 1
  /\ UNCHANGED <<running, CV, RC, pending, isr, te, next, timeReference>>

\* The fields of a timer that is not in the list have no meaning.
Forget(S) ==
  /\ nxt' = [x \in Entries |-> IF x \in S THEN NULL ELSE nxt[x]]
  /\ timeCurrent' = [x \in Entries |-> IF x \in S THEN 0 ELSE timeCurrent[x]]

\* FastTimer_Cancel, the list: whoever points to e points past it.
Unlink(e) ==
  /\ first' = IF first = e THEN nxt[e] ELSE first
  /\ nxt' = [x \in Entries |-> IF x \in Listed /\ nxt[x] = e THEN nxt[e] ELSE nxt[x]]

FastTimer_Cancel(e) ==
  /\ isr = "off" /\ e \in Listed
  /\ Unlink(e)
  /\ timeCurrent' = [timeCurrent EXCEPT ![e] = 0]
  /\ UNCHANGED <<running, CV, RC, pending, isr, scan, ops, lapse>>

\* FastTimer_Cancel by a callback, which also moves the handler on if e is the
\* timer it would go to.
NextAfterCancel(e) == IF next = e THEN nxt[e] ELSE next

CallbackCancel(e) ==
  /\ isr = "callback" /\ ops < CallbackOps /\ e \in Listed
  /\ Unlink(e)
  /\ next' = NextAfterCancel(e)
  /\ ops' = ops + 1
  /\ UNCHANGED <<timeCurrent, running, CV, RC, pending, isr, te, nextTime, timeReference, lapse>>

-----------------------------------------------------------------------------
\* The handler starts: the slice that has ended is remembered and the compare
\* register put out of the way.
IsrEnter ==
  /\ isr = "off" /\ pending
  /\ isr' = "scan" /\ pending' = FALSE
  /\ timeReference' = RC /\ RC' = MAXCOUNT
  /\ te' = first /\ next' = NULL /\ nextTime' = MAXCOUNT /\ lapse' = FALSE
  /\ UNCHANGED <<list, running, CV, ops>>

\* What is left of te's interval after the slice.
Left == Wrapped(timeCurrent[te] - (timeReference + CV))

\* A timer that is due is wound up again and called back.
IsrCalls ==
  /\ isr = "scan" /\ te # NULL /\ Left <= MINCOUNT
  /\ next' = nxt[te]
  /\ timeCurrent' = [timeCurrent EXCEPT ![te] = Wrapped(Left + Interval[te])]
  /\ isr' = "callback"
  /\ UNCHANGED <<first, nxt, running, CV, RC, pending, te, nextTime, timeReference, ops, lapse>>

\* After the callback, whatever it did: on to the next timer.
IsrReturns ==
  /\ isr = "callback" /\ isr' = "scan"
  /\ NextTimeWith(timeCurrent[te])
  /\ te' = next /\ next' = NULL /\ ops' = 0
  /\ UNCHANGED <<list, running, CV, RC, pending, timeReference>>

\* A timer that is not due.
IsrPasses ==
  /\ isr = "scan" /\ te # NULL /\ Left > MINCOUNT
  /\ timeCurrent' = [timeCurrent EXCEPT ![te] = Left]
  /\ NextTimeWith(Left)
  /\ te' = nxt[te]
  /\ UNCHANGED <<first, nxt, running, CV, RC, pending, isr, next, timeReference, ops>>

\* The next slice, neither too long nor already over.
Slice == AtLeast(AtMost(nextTime, MAXCOUNT), CV + MINCOUNT)

\* The handler ends: the next slice is programmed, or the clock is stopped.
\* Values that are written before they are read again are forgotten.
IsrExit ==
  /\ isr = "scan" /\ te = NULL
  /\ isr' = "off"
  /\ IF first # NULL
       THEN RC' = Slice /\ UNCHANGED <<running, CV, lapse>>
       ELSE running' = FALSE /\ RC' = MAXCOUNT /\ CV' = 0 /\ lapse' = FALSE
  /\ Forget(Entries \ Listed)
  /\ nextTime' = MAXCOUNT /\ timeReference' = 0
  /\ UNCHANGED <<first, pending, te, next, ops>>

\* A tick of the counter, external: a compare starts it over and interrupts.
Tick ==
  /\ running
  /\ isr # "off" \/ pending => CV < Latency
  /\ CV' = IF CV + 1 = RC THEN 0 ELSE (CV + 1) % WRAP
  /\ pending' = (pending \/ CV + 1 = RC)
  /\ UNCHANGED <<list, running, RC, isr, scan, ops, lapse>>

Isr == IsrEnter \/ IsrCalls \/ IsrReturns \/ IsrPasses \/ IsrExit

Next ==
  \/ \E e \in Entries : FastTimer_Set(e) \/ FastTimer_Cancel(e)
  \/ \E e \in Entries : CallbackSet(e) \/ CallbackCancel(e)
  \/ Isr \/ Tick

Spec == Init /\ [][Next]_vars

\* The counter counts, and an interrupt handler runs until it is through.
FairSpec == Spec /\ WF_vars(Tick) /\ WF_vars(Isr)

-----------------------------------------------------------------------------
\* The list keeps its promise: whatever callbacks do to the list while the
\* handler of fasttimer_isr.c walks it, nobody is lost, and nobody is called
\* that is not set.
Service == INSTANCE TimerService WITH
             active <- Listed, calling <- IF isr = "callback" THEN te ELSE NULL
ImplementsService == Service!SpecService

\* When e is due, on the counter of the present slice: up to the margin of
\* FastTimer_Set and the shortest slice of the handler.
Due(e) == AtLeast(timeCurrent[e] + MARGIN, Latency + MINCOUNT)

\* Nobody is overslept but for two lapses of the code: while a timer is set the
\* clock runs, and between two interrupts the counter does not pass the time a
\* timer is due, unless FastTimer_Set has put the compare register behind the
\* counter, or a timer that had fallen behind to -1 was taken for none.
NotOverslept ==
  isr = "off" => \A e \in Listed : running /\ (CV <= Due(e) \/ lapse)

\* A timer that is set is called back or cancelled in the end, even if
\* FastTimer_Set has put the compare register behind the counter.
Served == \A e \in Entries : e \in Listed ~> e \notin Listed \/ (isr = "callback" /\ te = e)

-----------------------------------------------------------------------------
(***************************************************************************)
(* The inductive invariants behind the theorems of FastTimerProofs.        *)
(***************************************************************************)
\* The list has no cycle.
Acyclic == \A e \in Listed : e \notin Reach(nxt, nxt[e])

\* The handler's pointers stay on the list: the timer it calls may have been
\* cancelled by its callback, the one after is in the list.
Pointed ==
  /\ isr = "off" => te = NULL
  /\ isr = "scan" => te \in Listed \cup {NULL}
  /\ isr = "callback" => te \in Entries /\ next \in Listed \cup {NULL}

\* The clock runs while it is needed, a handler is in time, and the compare is
\* ahead of the counter.
Clocked ==
  /\ isr # "off" \/ pending \/ Listed # {} => running
  /\ ~running => CV = 0 /\ ~lapse
  /\ isr # "off" \/ pending => CV <= Latency
  /\ isr # "off" => RC = MAXCOUNT /\ ~pending
  /\ isr = "off" => CV < RC \/ lapse

\* The timers the handler has still to look at, and those it is through with.
Unseen == IF isr = "scan" THEN Reach(nxt, te) ELSE Reach(nxt, next)
Seen == {e \in Listed \ Unseen : isr = "callback" => e # te}

\* Unless something has been lost, the present slice is short enough for all, and
\* the next one for those the handler is through with.
Accounted ==
  ~lapse =>
    /\ isr = "off" => \A e \in Listed : RC <= Due(e)
    /\ isr # "off" => \A e \in Seen : nextTime <= timeCurrent[e]

TimerInv == TypeOK /\ Acyclic /\ Pointed /\ Clocked /\ Accounted

=============================================================================
