SPECIFICATION Spec

CONSTANTS
  FileSize = 3
  DesiredChunkSize = 2
  Clients = {c1, c2}
  NoClient = NoClient
  MAXCLIENTS = 2
  SlowClients = {}
  NWorkers = 1
  Breakable = {c1, c2}
  ShutdownAllowed = FALSE

SYMMETRY ClientSymmetry

INVARIANTS
  NoNullStamp

CHECK_DEADLOCK FALSE
