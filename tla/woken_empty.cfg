SPECIFICATION Spec
CONSTANTS
  Clients = {c1, c2}
  Threads = {t1, t2, t3}
  MAX_CONCURRENT_SESSION = 2
  Limit = 3
  Numbers = {1}
  SpuriousWakeups = FALSE
  MaxTyped = 3
  MaxBox = 1
INVARIANTS
  SignalMeansData
SYMMETRY ThreadSymmetry
CHECK_DEADLOCK FALSE
