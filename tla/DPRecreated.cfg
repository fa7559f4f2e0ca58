SPECIFICATION Spec
CONSTANTS
  Ranks = {0, 1}
  Modes = {"chain"}
  MaxAdmits = 3
  MaxChains = 4
  MaxRows = 2
  MaxTombstones = 1
  MaxFaults = 0
CHECK_DEADLOCK FALSE
INVARIANT RunningKnown
