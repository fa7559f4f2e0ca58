SPECIFICATION MCSpec
CONSTANTS
  b1 = b1
  b2 = b2
  b3 = b3
  b4 = b4
  b5 = b5
  b6 = b6
  b7 = b7
  b8 = b8
  b9 = b9
  b10 = b10
  Root = Root
  Blocks <- MCBlocks
  ParentOf <- MCParentOf
  Ids = {1, 2, 3, 4, 5, 6, 7}
INVARIANTS TreeExact LookupIsLongest RoutingExact
PROPERTY ImplementsPrefixTree
