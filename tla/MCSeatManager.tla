--------------------------- MODULE MCSeatManager ---------------------------
(* Instances of SeatManager for TLC.                                       *)
EXTENDS SeatManager, TLC

CONSTANTS seat0, seat1

(* Changes enough for a seat to change unheard and to suffer from it, and  *)
(* another seat beside it that stays as it is; or a change of each.        *)
Changes == [s \in Seats |-> IF s = seat0 THEN 5 ELSE 0]
OneChangeEach == [s \in Seats |-> 1]

SeatsSymmetry == Permutations({seat0, seat1})
=============================================================================
