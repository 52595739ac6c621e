\* The synthesised FPGA, with a power-up delay long enough for a failover and the
\* return of the failed string.
CONSTANTS
  TIMEOUT = 25
  POR_TERMINAL_COUNT = 6
  Drain = 0
  ReadOrder = "old"
SPECIFICATION SpecRace
INVARIANT OnlyPrime1
