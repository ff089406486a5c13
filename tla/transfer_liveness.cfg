SPECIFICATION FairSpec
CONSTANTS
  MAX_DATA_SIZE = 2
  GO_BACK_N = 2
  FileSizes <- FewSizes
  ReceiverStarts = {"unbound", "listening"}
INVARIANTS
  IInv
PROPERTIES
  ReceiverFinishes
  SenderTerminates
\* both programs end
CHECK_DEADLOCK FALSE
