\* A failure after active.pop.
SPECIFICATION Spec
CONSTANTS
  r1 = r1
  r2 = r2
  Requests = {r1, r2}
  NoRequest = NoRequest
  Previous <- Turns
  Controls = {}
  ChainMode = TRUE
  MaxTokens <- TurnTokens
  MaxFaults = 1
  FinishFaults = TRUE
INVARIANTS
  NobodyLeftWaiting
