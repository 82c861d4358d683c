SPECIFICATION FairSpec

CONSTANTS
  FileSize = 3
  DesiredChunkSize = 2
  Clients = {c1, c2}
  NoClient = NoClient
  MAXCLIENTS = 2
  SlowClients = {}
  NWorkers = 2
  Breakable = {}
  ShutdownAllowed = TRUE

INVARIANTS
  NoNullTime
  AnswerExpected
  RecordsMatch

PROPERTIES
  ImplementsWorkPool
  JobEnds
  SoleClientFinishes
  ShutdownEnds

CHECK_DEADLOCK FALSE
