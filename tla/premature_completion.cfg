SPECIFICATION Spec

CONSTANTS
  FileSize = 3
  DesiredChunkSize = 2
  Clients = {c1, c2}
  NoClient = NoClient
  MAXCLIENTS = 2
  SlowClients = {}
  NWorkers = 2
  Breakable = {}
  ShutdownAllowed = FALSE

SYMMETRY ClientSymmetry

INVARIANTS
  AllDataReceived

CHECK_DEADLOCK FALSE
