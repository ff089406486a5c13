SPECIFICATION Spec
CONSTANTS
  Clients = {c1, c2}
  Threads = {t1, t2, t3}
  MAX_CONCURRENT_SESSION = 2
  Limit = 2
  Numbers <- TypedNumbers
  SpuriousWakeups = FALSE
  MaxTyped = 4
  MaxBox = 1
INVARIANTS
  SumIsOwn
SYMMETRY ThreadSymmetry
CHECK_DEADLOCK FALSE
