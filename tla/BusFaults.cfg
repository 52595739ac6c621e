\* The protocol under every fault, with the proportions of make.c: twice as many
\* packets thrown away after boot as a sender may find unanswered.
CONSTANTS
  DISCARDED = 2
  NO_RESPONSE_LIMIT = 1
  ERROR_LIMIT = 2
  Faults = {"corrupt", "silence", "button", "passing"}
  Losses = 1
  Backlog = 1
SPECIFICATION FairSpec
INVARIANTS
  TypeOK
  NoFalseGiveUp
PROPERTIES
  CorruptionNoticed
  SilenceNoticed
  TimeoutsNoticed
