SPECIFICATION FairPacerSpec
CONSTANTS
  Modes <- MCModes
  MaxFrames = 5
  MaxQueuedFrames = 4
  PacingWindow = 2
  RenderWindow = 2
INVARIANTS
  FramesConserved
  EventForEveryFrame
PROPERTIES
  NewestIsShown
  StopEnds
CHECK_DEADLOCK FALSE
