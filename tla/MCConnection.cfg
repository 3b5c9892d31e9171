SPECIFICATION FairSpec
CONSTANTS
  Setups <- MCSetups
  MaxSessions = 1
  MaxEvents = 2
INVARIANTS
  NothingIsLeft
  NothingIsUsedAfterwards
PROPERTIES
  StartsAndStopsReturn
CHECK_DEADLOCK FALSE
