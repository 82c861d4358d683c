SPECIFICATION Spec

CONSTANTS
  Clients = {c1, c2}
  NoClient = NoClient
  MAXCLIENTS = 1
  SlowClients = {}
  Workers = {w1, w2}
  Times = {12, 24, 144}
  maxResults = 2
  nSDHigh = 2
  nSDLow = 4
  MaxReady = 2
  MaxAnswers = 5

SYMMETRY Symmetry

INVARIANTS
  TypeOK
  TimePointsApart
  TimeIsOwn
  ExactMoments
  VerdictsAreOutliers

CHECK_DEADLOCK FALSE
