SPECIFICATION FairSpec
CONSTANTS
  Clients = {c1, c2}
  Threads = {t1, t2}
  MAX_CONCURRENT_SESSION = 1
  Limit = 3
  Numbers = {1}
  SpuriousWakeups = TRUE
  MaxTyped = 2
  MaxBox = 1
INVARIANTS
  TypeOK
PROPERTIES
  SessionsEnd
CHECK_DEADLOCK FALSE
