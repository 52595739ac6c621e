\* What make.c says of waiting_for_response, over a network that loses packets.
CONSTANTS
  DISCARDED = 4
  NO_RESPONSE_LIMIT = 2
  ERROR_LIMIT = 2
  Faults = {}
  Losses = 1
  Backlog = 1
SPECIFICATION Spec
PROPERTY NoResponseDetected
