SPECIFICATION Spec
CONSTANTS
  Table = TRUE
  NumRegions = 2
  OldTop = 10
  NewBase = 40
  StackSize = 8
  PageSize = 4
  FrameWords = 2
  MaxVariables = 2
INVARIANT StackPointersMoved
CHECK_DEADLOCK FALSE
