CONSTANTS
  r1 = r1
  r2 = r2
  r3 = r3
  Requests <- MCRequests
  NoHolder = NoHolder
  MaxFaults = 2
SYMMETRY MCSymmetry
SPECIFICATION Spec
CHECK_DEADLOCK FALSE
INVARIANTS
  ClaimSound
  DoubleClickRefused
  LateRetryIsReplayed
