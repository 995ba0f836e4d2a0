CONSTANTS
  a = a
  b = b
  People = {a, b}
  NoOne = NoOne
  Gov = Gov
  MinTimelock = 1
  Ttl = 3
  Cooldown = 1
  MaxSigners = 2
  MaxProposals = 2
  MaxTime = 4
  NoTransfer = NoTransfer
  NoTime = NoTime
SPECIFICATION GovernanceSpec
CHECK_DEADLOCK FALSE
INVARIANTS
  ProposalsSound
PROPERTIES
  AdminChangesByQuorum
