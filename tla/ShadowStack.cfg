SPECIFICATION Spec
CONSTANTS
  Entries = 12
  NumFields = 2
  Metadata <- TwoPointers
  Proxies = {p1, p2}
  MaxSlots = 2
  None = None
INVARIANTS TypeOK FramesFit CallersRestored ArgumentsIntact ProxyReadsItsCall RefusedOnlyWhenFull
CHECK_DEADLOCK FALSE
