---------------------------- MODULE TimerService ----------------------------
(***************************************************************************)
(* What the users of the fast timer rely on, whatever its timing: a timer  *)
(* that has been set is called back again and again until it is cancelled, *)
(* one callback at a time, and a timer that is not set is never called.    *)
(* Module FastTimer implements this specification.                         *)
(***************************************************************************)
CONSTANTS
  Entries,     \* the timers
  NULL         \* no timer

VARIABLES
  active,      \* the timers that are set
  calling      \* the timer whose callback runs

InitService == active = {} /\ calling = NULL

SetTimer(e) == e \notin active /\ active' = active \cup {e} /\ UNCHANGED calling
CancelTimer(e) == e \in active /\ active' = active \ {e} /\ UNCHANGED calling
Call(e) == calling = NULL /\ e \in active /\ calling' = e /\ UNCHANGED active
Return == calling # NULL /\ calling' = NULL /\ UNCHANGED active

NextService ==
  \/ \E e \in Entries : SetTimer(e) \/ CancelTimer(e) \/ Call(e)
  \/ Return

SpecService == InitService /\ [][NextService]_<<active, calling>>

=============================================================================
