SPECIFICATION Spec
CONSTANTS
  Top = 12
  NullBound = 1
  Increase = 1
  HeapArea <- Heap
  StackArea <- ProgramStack
  Symbols <- BinarySymbols
  LibraryObjects <- Libraries
  Argv <- Arguments
  Mappings <- Files
  Requests = {0, 1, 2}
  Members = {0, 2}
  Alignments = {2}
  Witnesses = {0, 1, 3, 6, 11}
  AccessSizes = {1, 2}
  Absent = Absent
  None = None
INVARIANTS
  TypeOK
  LiveTracked
  NoStaleHeap
  
  ChecksExact
  PairsAgree
CHECK_DEADLOCK FALSE
