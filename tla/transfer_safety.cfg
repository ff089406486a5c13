SPECIFICATION Spec
CONSTANTS
  MAX_DATA_SIZE = 2
  GO_BACK_N = 2
  FileSizes <- Sizes
  ReceiverStarts = {"listening"}
INVARIANTS
  TypeOK
  OutputIsPrefix
  AckedIsHeld
  DoneImpliesDelivered
PROPERTIES
  EndsOnlyByError
  CopySpec
\* both programs end
CHECK_DEADLOCK FALSE
