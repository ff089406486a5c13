SPECIFICATION LoopbackSpec
CONSTANTS
  MAX_DATA_SIZE = 2
  GO_BACK_N = 2
  FileSizes <- FewSizes
  ReceiverStarts = {"listening"}
PROPERTIES
  SenderTerminates
CHECK_DEADLOCK FALSE
