SPECIFICATION Spec
CONSTANTS
  DataShards = 2
  FecShards = 2
  Blocks = 14
  FirstBase = 24
  MaxAhead = 3
  MaxReorder = 1
  MaxWait = 2
  WrapsEarly = FALSE
PROPERTIES
  PlayedInOrder
  SkipsOnlyTheUnseen
