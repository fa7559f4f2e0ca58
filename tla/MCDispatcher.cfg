\* Two turns of a chain, a control call, and one failure anywhere.
SPECIFICATION Spec
CONSTANTS
  r1 = r1
  r2 = r2
  Requests = {r1, r2}
  NoRequest = NoRequest
  Previous <- Turns
  Controls = {"c1"}
  ChainMode = TRUE
  MaxTokens <- TurnTokens
  MaxFaults = 1
  FinishFaults = TRUE
INVARIANTS EngineFollows CancelsArrive OneAnswerEach
PROPERTIES AbortsHitTheirTarget EveryoneAnswered
