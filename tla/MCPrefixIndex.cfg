SPECIFICATION Spec
CONSTANTS
  b1 = b1
  b2 = b2
  b3 = b3
  r1 = r1
  r2 = r2
  Root = Root
  Blocks <- TwigBlocks
  ParentOf <- TwigParentOf
  PathOf <- TwigPathOf
  Requests <- TwigRequests
  PromptOf <- TwigPromptOf
  MaxBlocks = 3
  Offload = TRUE
  Queries = {"freeable", "evictable", "device_reclaimable"}
INVARIANTS TypeOK ResidencyContiguous HeldBlocksLive CapacityExact MemoSound
