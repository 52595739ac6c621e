\* The watchdog as synthesised: next_state is a flip-flop, codes last two edges.
CONSTANTS
  TIMEOUT = 36
  ReadOrder = "old"
  MinHold = 2
  Inputs = {0, 1, 2, 3, 4, 5, 6, 7, 8}
SPECIFICATION SpecH
INVARIANTS TypeOK HealthNeedsStroke StrokeRaisesHealth
PROPERTY NoFalseAlarm
