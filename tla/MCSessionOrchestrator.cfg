SPECIFICATION FairSpec
CONSTANTS
  MaxAttempts = 2
  IdlePollLimit = 2
  MaxSurprises = 2
INVARIANTS
  RemovesOnlyItsOwn
  NothingLeftQueued
  OneStream
PROPERTIES
  EveryAttemptIsDecided
CHECK_DEADLOCK FALSE
