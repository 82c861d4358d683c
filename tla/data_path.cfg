SPECIFICATION PathSpec

CONSTANTS
  NResults = 3
  Sizes = {1, 2}
  FileLength = 6
  DesiredChunkSize = 2
  ViewSize = 6
  Values = {0, 1}
  Inputs <- MCInputs
  WordSize = 2
  Algorithm <- MCAlgorithm
  buffSize = 4

INVARIANTS
  PathTypeOK
  IssuedBytes
  HandleInFile
  WrittenInPlace
  ReorderCopies
  StaysInView
  VerifiedIsOrdered
  OrderedIsVerified

CHECK_DEADLOCK FALSE
