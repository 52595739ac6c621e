\* One controller whose lines change as often as they can; a big FIFO that overflows.
CONSTANTS
  Controllers = {A}
  STABLE = 5
  TIMEOUT = 4
  SMALL = 3
  DEPTH = 2
  NIBBLES = 1
  BAUD_PERIOD = 1
  CHAR = 2
  LoadGap = 8
  PressGap = 7
SPECIFICATION Spec
INVARIANTS
  TypeOK
  LogComplete
  ServedInTime
  LogTellsState
PROPERTIES
  LinesWhole
