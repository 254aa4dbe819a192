CONSTANTS
  u1 = u1
  u2 = u2
  v1 = v1
  v2 = v2
  v3 = v3
  NoVt = NoVt
  Users = {u1, u2}
  Vts = {v1, v2, v3}
  GreeterVt = v1
  MaxSwitches = 2
  MaxStops = 1
  MaxLate = 1
SPECIFICATION Spec
SYMMETRY Symmetry
INVARIANTS TypeOK ActiveVtFollowed TreelandShowsOwner GroupsFollowSessions
