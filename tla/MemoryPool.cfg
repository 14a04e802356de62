SPECIFICATION Spec
CONSTANTS
  NumBlocks = 4
  HasTail = TRUE
  Holders = {h1, h2}
INVARIANTS
  TypeOK
  UsedCountsBlocks
  BlocksBelongToOneHolder
  FreeBlocksHoldNoData
PROPERTIES
  ImplementsAllocator
