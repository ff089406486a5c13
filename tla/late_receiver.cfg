SPECIFICATION Spec
CONSTANTS
  MAX_DATA_SIZE = 2
  GO_BACK_N = 2
  FileSizes <- FewSizes
  ReceiverStarts = {"unbound", "listening"}
INVARIANTS
  DoneImpliesDelivered
CHECK_DEADLOCK FALSE
