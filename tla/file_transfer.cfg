SPECIFICATION FairSpec

CONSTANTS
  Clients = {c1, c2}
  MAXCLIENTS = 4
  Breakable = {c1, c2}
  MaxSessions = 2
  NFiles = 3
  FileBytes <- MCFileBytes
  ActualBytes <- MCActualBytes
  OldBytes <- MCOldBytes
  BlockBytes = 2
  SizeModulus = 8
  MaxUnderWay = 3
  ExitAllowed = TRUE

INVARIANTS
  TypeOK
  ReadyHasFiles
  DatedIsWhole
  NoStaleFile

PROPERTIES
  ServedOrGone
  StopEnds

CHECK_DEADLOCK FALSE
