SPECIFICATION FairRecoverySpec
CONSTANTS
  CorruptFrames = FALSE
  FrameNumbers = {1,2,3,4,5,6,7,8,9,10}
  QueueBound = 2
  RfiBound = 2
  DropLimit = 3
  MaxFrame = 9
  MaxLossy = 4
  MaxLosses = 3
  Lead = 3
  LastBlock = 1
PROPERTIES
  DepacketizerSpec
  ReferencesAreDecoded
  VideoRecovers
CHECK_DEADLOCK FALSE
