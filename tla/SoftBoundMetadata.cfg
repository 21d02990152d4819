SPECIFICATION Spec
CONSTANTS
  Words <- UsedWords
  TableWords = 4
  Environment = 6
  CopySizes = {3, 4}
  RefusedSizes = {3, 4}
  ElementSizes = {2, 3}
  Own = Own
  Library = Library
  VaList = VaList
  Loose = Loose
  Inexact = Inexact
  NullBounds = NullBounds
INVARIANTS TypeOK  ProxiesFound 
PROPERTY NeighboursKept
