CONSTANTS
  r1 = r1
  r2 = r2
  c1 = c1
  Creates = {r1, r2}
  Asked <- MCAsked
  Calls = {c1}
  Submits = {q1, q2}
  Posted <- MCPosted
  Window = 1
  None = None
  MaxClock = 2
  MaxFaults = 1
SPECIFICATION FairSpec
CHECK_DEADLOCK FALSE
INVARIANTS
  TablesSound
  OnlyRacesRepeat
PROPERTIES
  NoneStaysProcessing
