CONSTANTS
  BpsScale = 10000
  Precision = 10
  PenaltyMultiplier = 2
  ExtensionFeeBps = 100
  b1 = b1
  b2 = b2
  p1 = p1
  Borrowers = {b1}
  Principals = {4}
  Payments = {1, 3, 4}
  Posted = {}
  Terms = {2}
  Refinanced = {}
  QuotedRates = {3000, 10000}
  Settings <- NoSettings
  Configured <- DebtConfigured
  Switches = {}
  MaxLoans = 1
  MaxExtensions = 3
  MaxLateFeeBps = 2500
  MaxBonusBps = 2000
  MinDefaultWindow = 1
  NoLoan = NoLoan
  Providers = {p1}
  DepositAmounts = {4}
  Redeemed = {}
  MinDeposit = 2
  MinimumHold = 1
  MaxCooldown = 2
  DefaultCooldown = 1
  Supply = 16
  MaxInt = 200
  MaxLedger = 6
  NoStamp = NoStamp
  MaxDue = 7
SPECIFICATION DebtSpec
CHECK_DEADLOCK FALSE
INVARIANTS
  DebtSound
  SplitSound
  ComputesSplit
PROPERTIES
  LateFeesRespectCap
