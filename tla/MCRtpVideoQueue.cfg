SPECIFICATION Spec
CONSTANTS
  Stream <- Mixed
  SeqModulus = 16
  MaxLate = 3
  MaxOutage = 3
  RecoveryMayFail = TRUE
INVARIANTS
  MissingIsExact
PROPERTIES
  FramesSubmittedWhole
  DeliversFrames
CHECK_DEADLOCK FALSE
