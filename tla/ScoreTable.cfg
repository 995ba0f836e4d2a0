CONSTANTS
  Readers = {r1}
  Moves <- MCMoves
  Threshold = 50
  AutoCorrect = TRUE
  MaxBorrowers = 1
  NoScore = NoScore
  MaxEvents = 2
  MaxLoans = 1
  MaxAhead = 1
  MaxUpdates = 1
  MaxFailures = 1
SPECIFICATION FairScoreSpec
CHECK_DEADLOCK FALSE
PROPERTIES
  BulkAddsDeltas
  CacheComesRight
  TableComesNear
