SPECIFICATION FairSpec
CONSTANTS
  Ranks = {0, 1}
  Modes = {"chain", "radix"}
  MaxAdmits = 3
  MaxChains = 4
  MaxRows = 2
  MaxTombstones = 1
  MaxFaults = 1
CHECK_DEADLOCK FALSE
INVARIANTS   OneWriter
PROPERTIES TornDownForCause CallEnds
