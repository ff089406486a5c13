SPECIFICATION Spec
CONSTANTS
  Clients = {c1, c2}
  Threads = {t1, t2, t3}
  MAX_CONCURRENT_SESSION = 2
  Limit = 2
  Numbers <- TypedNumbers
  SpuriousWakeups = TRUE
  MaxTyped = 2
  MaxBox = 1
INVARIANTS
  OneWorker
  OneSession
  NoLostWakeup
  WorkersInv
SYMMETRY ThreadSymmetry
CHECK_DEADLOCK FALSE
