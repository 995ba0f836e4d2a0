CONSTANTS
  BpsScale = 10000
  Precision = 1
  PenaltyMultiplier = 2
  ExtensionFeeBps = 100
  b1 = b1
  b2 = b2
  p1 = p1
  Borrowers = {b1}
  Principals = {2}
  Payments = {1, 2}
  Posted = {5}
  Terms = {1}
  Refinanced = {1, 3}
  QuotedRates = {1}
  Settings <- AdminSettings
  Configured <- AdminConfigured
  Switches = {"pool", "manager", "nft", "score", "seized", "reports", "oracle"}
  MaxLoans = 2
  MaxExtensions = 3
  MaxLateFeeBps = 2500
  MaxBonusBps = 2000
  MinDefaultWindow = 1
  NoLoan = NoLoan
  Providers = {p1}
  DepositAmounts = {4}
  Redeemed = {}
  MinDeposit = 2
  MinimumHold = 1
  MaxCooldown = 2
  DefaultCooldown = 1
  Supply = 8
  MaxInt = 200
  MaxLedger = 4
  NoStamp = NoStamp
SPECIFICATION MCSpec
CHECK_DEADLOCK FALSE
INVARIANTS
  BooksBalance
PROPERTIES
  ImplementsBook
  PauseFreezesLending
  PriceFallsOnlyAtClose
