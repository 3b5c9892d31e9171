SPECIFICATION FairSpec
CONSTANTS
  Producers = {"p", "q"}
  Scenarios <- MCScenarios
  QueueBound = 2
  DeltaMax = 1
  WheelDelta = 2
INVARIANTS
  AcceptedIsSent
  ButtonsFollowMotion
  RestIsSure
  MotionIsConserved
PROPERTIES
  MergingKeepsChanges
  InputIsDelivered
CHECK_DEADLOCK FALSE
