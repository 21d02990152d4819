SPECIFICATION FairSpec
CONSTANTS
  Threads = {t1, t2}
  None = None
  Ops = {"malloc", "realloc", "free"}
  Sizes = {3, 5}
  Aligns = {}
  LibcBlocks = {b1}
  Table = TRUE
  MinAllocLog = 1
  NumRegions = 3
  WordBits = 6
  RegionSize = 8
  HeapRegionSize = 4
  MaxHeapAlloc = 8
  PageSize = 4
  PointerBytes = 2
  MaxListed = 0
INVARIANTS TypeOK HolderBypassesHooks ExclusiveSlots NoSlotLost  ObjectsBounded
PROPERTIES ReallocKeepsOld CallsKeepReturning
