SPECIFICATION Spec
CONSTANTS
  g1 = g1
  g2 = g2
  NoGreeter = none
  Greeters = {g1, g2}
  Users = {u1, u2}
  Backends <- MCBackends
  RequestTypes = {"Connect", "Login", "Unlock", "Power", "Other"}
  Ops = {"Suspend"}
  MaxRequests = 3
  MaxSessions = 2
SYMMETRY GreetersSymmetry
CHECK_DEADLOCK FALSE
INVARIANTS
  TypeOK
  GreetersListed
  GreetersKnowSessions
  PowerPromiseKept
  NoRequestLeftBehind
