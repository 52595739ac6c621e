\* Two controllers under any FDU that keeps the promises of Selector.
CONSTANTS
  Strings = {A, B}
  NO_PRIME = none
SPECIFICATION Spec
INVARIANTS
  TypeOK
  OneMaster
  OneAlive
