SPECIFICATION FairSpec
CONSTANT
  Lingering = TRUE
CHECK_DEADLOCK FALSE
INVARIANTS
  TypeOK
  SessionAsReported
PROPERTIES
  OpenSessionReturns
  EndIsNoticed
  LeaderGoesWithAuth
