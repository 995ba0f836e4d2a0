CONSTANTS
  u1 = u1
  u2 = u2
  a = a
  b = b
  c = c
  Users <- MCUsers
  People <- MCPeople
  NoOne = NoOne
  MaxMinters = 2
  MinCreditScore = 1
  MaxScore = 2
  MaxHistory = 2
  TransferCooldown = 1
  PointUnit = 2
  DefaultThreshold = 2
  Thresholds = {0, 1}
  MinRepayments <- MCMinRepayments
  MintScores = {0, 3}
  Amounts = {0, 2}
  Penalties = {1}
  Deltas <- MCDeltas
  MaxTokens = 2
  MaxDefaults = 3
  MaxLedger = 2
  NoToken = NoToken
  NoLedger = NoLedger
SYMMETRY MCSymmetry
SPECIFICATION MCSpec
INVARIANTS
  RecordsAgree
  RegistrySound
PROPERTIES
  SeizureOutlivesTransfer
  MintRules
