SPECIFICATION FairSpec
CONSTANTS
  Pacings = {TRUE, FALSE}
  MaxTries = 1
  QueueLimit = 1
  Budgets <- MCBudgets
INVARIANTS
  RecoveryIsExclusive
  BuffersAreTheCodecs
  FirstFrameIsIdr
PROPERTIES
  RecoveriesAndStopsEnd
CHECK_DEADLOCK FALSE
