CONSTANTS
  Hooks = {h1}
  Events = {e1}
  Passes = {p1}
  MaxAttempts = 4
  SelectWorks = FALSE
  MaxFaults = 0
SPECIFICATION FairSpec
CHECK_DEADLOCK FALSE
PROPERTIES
  EverySettles
