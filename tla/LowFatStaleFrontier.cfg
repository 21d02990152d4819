SPECIFICATION Spec
CONSTANTS
  Threads = {t1}
  None = None
  Ops = {"malloc", "valloc", "free"}
  Sizes = {1}
  Aligns = {}
  LibcBlocks = {b1}
  Table = TRUE
  MinAllocLog = 1
  NumRegions = 3
  WordBits = 6
  RegionSize = 8
  HeapRegionSize = 4
  MaxHeapAlloc = 8
  PageSize = 4
  PointerBytes = 2
  MaxListed = 0
INVARIANT RegionsPointAtFreeSpace
