SPECIFICATION FairSpec
CONSTANTS
  Users = {"a", "b"}
  FirstUser = "a"
  MaxStarts = 2
  MaxAccounts = 2
  MaxSurprises = 1
INVARIANTS
  NoEntryIsLeft
  NothingOutlivesItsAttempt
PROPERTIES
  CleanupTakesItsOwn
  StartupsEnd
CHECK_DEADLOCK FALSE
