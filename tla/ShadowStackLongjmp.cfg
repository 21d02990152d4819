SPECIFICATION JumpSpec
CONSTANTS
  Entries = 12
  NumFields = 2
  Metadata <- OnePointer
  Proxies = {}
  MaxSlots = 2
  None = None
INVARIANTS RefusedOnlyWhenFull
CHECK_DEADLOCK FALSE
