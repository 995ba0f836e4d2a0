CONSTANTS
  p1 = p1
  p2 = p2
  Providers <- MCProviders
  Amounts = {0, 2, 3}
  MinDeposit = 2
  MinimumHold = 1
  MaxCooldown = 2
  DefaultCooldown = 1
  Cooldowns = {0, 2, 3}
  Caps = {0, 3}
  Supply = 6
  MaxInt = 14
  MaxLedger = 3
  NoStamp = NoStamp
SYMMETRY MCSymmetry
SPECIFICATION MCSpec
INVARIANTS
  LedgersAgree
  ClaimsCovered
  RoundTripNeverProfits
PROPERTIES
  OnlyWriteOffsLowerPrice
  NoSameLedgerExit
