\* Failed runs and releases, followed by retries.
SPECIFICATION Spec
CONSTANTS
  r1 = r1
  r2 = r2
  r3 = r3
  Req = {r1, r2, r3}
  NoReq = NoReq
  Prompt <- MCPrompt
  MaxTokens <- MCMaxTokens
  MaxModelLen = 6
  NumSlots = 6
  MaxResident = 3
  ChunkSize = 2
  MaxBatchedTokens = 3
  MaxSeqsInBatch = 2
  MaxDecoding = 2
  Window = 2
  FavorMin = 0
  MaxFaults = 2
INVARIANTS TypeOK SlotLedger BatchFits RequestsAccounted ReplayFaithful
