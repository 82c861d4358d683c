SPECIFICATION Spec

CONSTANTS
  FileSize = 2
  DesiredChunkSize = 1
  Clients = {c1, c2, c3}
  NoClient = NoClient
  MAXCLIENTS = 2
  SlowClients = {c1, c2, c3}
  NWorkers = 2
  Breakable = {c1, c2, c3}
  ShutdownAllowed = FALSE

SYMMETRY ClientSymmetry

INVARIANTS
  TypeOK
  ChunkOwnedOnce
  ClientFreeOnce
  AssignToFreeClient
  ReorderedOnce

PROPERTIES
  LossOnlyByWorker
  ImplementsWorkPool

CHECK_DEADLOCK FALSE
