\* Packets of three bits; a packet may follow the last one before the watchdog ends.
CONSTANTS
  BITS = 3
  WATCHDOG = 8
  PERIOD = 3
  SETUP = 1
  JITTER = 1
SPECIFICATION Spec
INVARIANTS
  TypeOK
  PromptlyRecorded
PROPERTIES
  Faithful
