\* Two tickets in flight, one failure, with and without committed history.
SPECIFICATION AsyncFairSpec
CONSTANTS
  r1 = r1
  r2 = r2
  r3 = r3
  Req = {r1, r2, r3}
  NoReq = NoReq
  Prompt <- MCPrompt
  MaxTokens <- MCMaxTokens
  MaxModelLen = 6
  NumSlots = 6
  MaxResident = 3
  ChunkSize = 2
  MaxBatchedTokens = 3
  MaxSeqsInBatch = 2
  MaxDecoding = 2
  Window = 2
  FavorMin = 1
  MaxFaults = 1
  MaxInflight = 2
  CommittedHistories = {FALSE, TRUE}
INVARIANTS AsyncAccounted AsyncProgress NoCapacityError
PROPERTIES ReleasedAfterTickets ImplementsService AsyncEnds
