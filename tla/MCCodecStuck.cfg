SPECIFICATION FairSpec
CONSTANTS
  Pacings = {FALSE}
  MaxTries = 1
  QueueLimit = 1
  Budgets <- MCBudgets
PROPERTIES
  QuiescedThreadsWake
CHECK_DEADLOCK FALSE
