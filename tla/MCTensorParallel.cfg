\* Synchronous, decode graph and asynchronous engines; two failures.
SPECIFICATION FairSpec
CONSTANTS
  r0 = r0
  w1 = w1
  w2 = w2
  q1 = q1
  q2 = q2
  Leader = r0
  Workers <- MCWorkers
  Ids <- MCIds
  Setups <- MCSetups
  SlowTimeouts = FALSE
  MaxCalls = 3
  MaxFailures = 2
CHECK_DEADLOCK FALSE
INVARIANTS ReleasesSound 
PROPERTY CallReturns
