SPECIFICATION Spec
CONSTANTS
  Addresses <- SixAddresses
  NodeIds = {n1, n2, n3, n4}
  Null = Null
  Absent = Absent
  Conflict = Conflict
SYMMETRY Symmetry
INVARIANTS TypeOK ValidTree
PROPERTIES LoopsAdvance 
CHECK_DEADLOCK FALSE
