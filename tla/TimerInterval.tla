--------------------------- MODULE TimerInterval ----------------------------
(***************************************************************************)
(* The fast timer of module FastTimer with a clock for every timer, and    *)
(* what fasttimer.c says about the interval.  The instance is a controller *)
(* board: aliveTimer repeats, and run_away of fdu.c sets a shorter timer.  *)
(***************************************************************************)
EXTENDS FastTimer, TLC

CONSTANTS aliveTimer, dietimer

Intervals == (aliveTimer :> 6) @@ (dietimer :> 3)

VARIABLE waited   \* per timer: ticks since it was set or called back, up to WRAP

InitW == Init /\ waited = [e \in Entries |-> 0]

TickW ==
  /\ Tick
  /\ waited' = [e \in Entries |-> IF e \in Listed THEN AtMost(waited[e] + 1, WRAP) ELSE 0]

CallsW == IsrCalls /\ waited' = [waited EXCEPT ![te] = 0]

OtherW ==
  /\ \/ \E e \in Entries : FastTimer_Set(e)
     \/ IsrEnter \/ IsrReturns \/ IsrPasses \/ IsrExit
  /\ UNCHANGED waited

SpecW == InitW /\ [][TickW \/ CallsW \/ OtherW]_<<vars, waited>>

\* What fasttimer.c says of FastTimer_InitializeEntry: "The event is signified
\* by a callback to the function provided, after the interval specified", here
\* with an allowance for the margin, the shortest slice and the handler.
AfterTheInterval ==
  \A e \in Listed : waited[e] <= Interval[e] + MARGIN + MINCOUNT + Latency

=============================================================================
