\* Timers longer than the longest slice, between, and too short for the shortest;
\* a callback may set or cancel any one.
CONSTANTS
  alive = alive
  stepper = stepper
  die = die
  NULL = NULL
  Entries = {alive, stepper, die}
  Interval <- Intervals
  MAXCOUNT = 4
  MINCOUNT = 1
  MARGIN = 1
  WRAP = 5
  HALF = 6
  Latency = 1
  CallbackOps = 1
SPECIFICATION FairSpec
INVARIANTS
  TypeOK
  
PROPERTIES
  ImplementsService
  Served
