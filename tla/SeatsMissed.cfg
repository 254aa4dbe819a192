SPECIFICATION Spec
CONSTANTS
  seat0 = seat0
  seat1 = seat1
  Seats = {seat0, seat1}
  StartupRace = TRUE
  MaxChanges <- OneChangeEach
CHECK_DEADLOCK FALSE
SYMMETRY SeatsSymmetry
INVARIANT
  SystemSeatsForAllSeats
