SPECIFICATION Spec

CONSTANTS
  NResults = 3
  Sizes = {1, 2}
  FileLength = 6
  ViewSize = 8

INVARIANTS
  OutputInOrder

CHECK_DEADLOCK FALSE
