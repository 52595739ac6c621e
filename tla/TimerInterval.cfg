\* The alive timer and run_away's timer, half as long.
CONSTANTS
  aliveTimer = aliveTimer
  dietimer = dietimer
  NULL = NULL
  Entries = {aliveTimer, dietimer}
  Interval <- Intervals
  MAXCOUNT = 10
  MINCOUNT = 1
  MARGIN = 1
  WRAP = 12
  HALF = 16
  Latency = 0
  CallbackOps = 0
SPECIFICATION SpecW
INVARIANT AfterTheInterval
