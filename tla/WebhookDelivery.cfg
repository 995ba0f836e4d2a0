CONSTANTS
  Hooks = {h1}
  Events = {e1}
  Passes = {p1, p2}
  MaxAttempts = 4
  SelectWorks = TRUE
  MaxFaults = 2
SPECIFICATION FairSpec
CHECK_DEADLOCK FALSE
INVARIANTS
  DeliveriesSound
PROPERTIES
  DrainsOnceMuted
