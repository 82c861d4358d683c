SPECIFICATION FairSpec

CONSTANTS
  FileSize = 1
  DesiredChunkSize = 1
  Clients = {c1, c2, c3}
  NoClient = NoClient
  MAXCLIENTS = 3
  SlowClients = {}
  NWorkers = 1
  Breakable = {c1}
  ShutdownAllowed = FALSE

PROPERTIES
  StoredWorkGivenOut

CHECK_DEADLOCK FALSE
