SPECIFICATION Spec
CONSTANTS
  CorruptFrames = TRUE
  FrameNumbers = {1,2,3,4}
  QueueBound = 2
  RfiBound = 2
  DropLimit = 2
INVARIANTS
  NoReferenceGap
  IdrDecodedBeforeP
PROPERTIES
  DecoderSeesNoGap
CHECK_DEADLOCK FALSE
