SPECIFICATION FairSpec
CONSTANTS
  Threads = {t1}
  None = None
  Ops <- AllOps
  Sizes = {0, 1, 4, 9}
  Aligns = {3, 4, 8}
  LibcBlocks = {b1}
  Table = FALSE
  MinAllocLog = 1
  NumRegions = 3
  WordBits = 6
  RegionSize = 8
  HeapRegionSize = 4
  MaxHeapAlloc = 8
  PageSize = 4
  PointerBytes = 2
  MaxListed = 0
INVARIANTS ExclusiveSlots NoSlotLost GrantSuits ObjectsBounded
PROPERTY CriticalSectionEnds
