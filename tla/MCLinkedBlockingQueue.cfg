SPECIFICATION LbqFairSpec
CONSTANTS
  Callers = {t1, t2}
  Items = {x1, x2, x3}
  SizeBound = 2
  MaxWakes = 2
  NoItem = NoItem
INVARIANTS
  NoLostWakeup
PROPERTIES
  StopReleasesConsumer
  AcceptedIsServed
  ImplementsFifo
CHECK_DEADLOCK FALSE
