SPECIFICATION FairSpec
CONSTANTS
  u1 = u1
  u2 = u2
  NoUser = NoUser
  Users = {u1, u2}
  Sockets = {s1}
  InitialVt = 1
  MaxVt = 2
  DesktopSessions = {"treeland", "x11", "wayland", "invalid"}
  AutologinUser = u1
  AutologinSession = "unset"
  RememberLastUser = TRUE
  RememberLastSession = TRUE
  SavedUser = u1
  SavedSession = "x11"
  MaxSid = 2
  MaxDisplays = 2
CHECK_DEADLOCK FALSE
INVARIANTS
  OneSessionPerUser
PROPERTIES
  LogoutCompletes
  XServerExitRestartsGreeter
