SPECIFICATION FairSpec
CONSTANTS
  seat0 = seat0
  seat1 = seat1
  Seats = {seat0, seat1}
  StartupRace = FALSE
  MaxChanges <- Changes
CHECK_DEADLOCK FALSE
INVARIANTS
  TypeOK
  NothingTwice
  DisplaysFollowLogind
PROPERTY
  DisplaysCatchUp
