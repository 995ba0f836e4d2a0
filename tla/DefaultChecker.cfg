CONSTANTS
  t1 = t1
  t2 = t2
  a1 = a1
  s1 = s1
  s2 = s2
  Timers = {t1, t2}
  Requests = {a1}
  ServerOf <- MCServerOf
  Loans = {1, 2}
  Term = 0
  Window = 1
  MaxPerRun = 1
  BatchSize = 1
  Concurrency = 2
  None = None
  MaxLedger = 3
  MaxRequests = 1
  MaxMoves = 1
  MaxFaults = 1
SPECIFICATION FairSpec
CHECK_DEADLOCK FALSE
INVARIANTS
  OverlapOnlyAfterExpiry
  LocksSound
PROPERTIES
  DefaultedOnce
  NoneLeftOut
