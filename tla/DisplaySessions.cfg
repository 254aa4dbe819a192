SPECIFICATION Spec
CONSTANTS
  u1 = u1
  u2 = u2
  NoUser = NoUser
  Users = {u1, u2}
  Sockets = {s1}
  InitialVt = 1
  MaxVt = 3
  DesktopSessions = {"treeland", "x11", "wayland", "invalid"}
  AutologinUser = NoUser
  AutologinSession = "unset"
  RememberLastUser = FALSE
  RememberLastSession = FALSE
  SavedUser = NoUser
  SavedSession = "unset"
  MaxSid = 2
  MaxDisplays = 2
CHECK_DEADLOCK FALSE
SYMMETRY UsersSymmetry
INVARIANTS
  TypeOK
  RegistryCorrect
  VtsApart
  LiveTreelandVtGrouped
  ScreenCorrect
PROPERTIES
  FailedStartAnswered
  SessionsEndInOrder
  PromiseSpec
