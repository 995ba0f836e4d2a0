CONSTANTS
  Chain <- MCChain
  Pollers = {p1, p2}
  Admins = {a1}
  Ranges <- MCRanges
  BatchSize = 1
  MaxRetries = 3
  MaxLedger = 2
  MaxFaults = 2
SPECIFICATION FairSpec
CHECK_DEADLOCK FALSE
INVARIANTS
  RecordsAgree
  CursorCovers
PROPERTIES
  CursorNeverBack
  CatchesUp
