\* One string of the synthesised FPGA; naps shorter than the timeout, slow ones longer.
CONSTANTS
  TIMEOUT = 72
  ReadOrder = "old"
  MinHold = 1
  Inputs = {0, 1, 2, 3, 4, 5, 6, 7, 8}
  POR_TERMINAL_COUNT = 80
  SLEEP = 30
  JITTER = 1
  WRITE = 1
  ROUNDS = 4
SPECIFICATION FairSpecS
INVARIANT StrokeTypeOK
PROPERTIES
  NoFalseReset
  FaultsEnd
  ServiceResumes
