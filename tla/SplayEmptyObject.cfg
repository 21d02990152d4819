SPECIFICATION Spec
CONSTANTS
  Top = 12
  NullBound = 1
  Increase = 1
  HeapArea <- Heap
  StackArea <- ProgramStack
  Symbols <- BinarySymbols
  LibraryObjects = {}
  Argv <- Arguments
  Mappings = {}
  Requests = {0, 1, 2}
  Members = {2}
  Alignments = {2}
  Witnesses = {0, 1, 3, 6, 11}
  AccessSizes = {1, 2}
  Absent = Absent
  None = None
INVARIANTS
  NoConflict
CHECK_DEADLOCK FALSE
