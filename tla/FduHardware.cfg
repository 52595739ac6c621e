\* The synthesised FPGA with watchdogs that report at any edge, errors injected into A.
CONSTANTS
  TIMEOUT = 10
  POR_TERMINAL_COUNT = 6
  Drain = 0
  ReadOrder = "old"
  MAX_CNT = 1
  Injectable = {"A"}
SPECIFICATION SpecE
INVARIANTS
  TypeOK
  PrimeIsHealthy
  StringBWaits
  SomebodyInCharge
  SelectionSettles
  FailoverToB
  ErrorForGood
PROPERTIES
  ImplementsSelector
  FreshStart
