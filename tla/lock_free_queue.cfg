SPECIFICATION FairSpec

CONSTANTS
  Threads = {t1, t2}
  Stalled = {t2}
  Capacity = 2
  TagModulus = 65536
  Garbage = {65535}
  MaxCalls = 5

INVARIANTS
  TypeOK
  NodesApart

PROPERTIES
  ImplementsBoundedQueue
  CallsReturn

CHECK_DEADLOCK FALSE
