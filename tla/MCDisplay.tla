------------------------------ MODULE MCDisplay ------------------------------
(* Instances of Display for TLC.                                           *)
EXTENDS Display, TLC

CONSTANTS u1, u2

UsersSymmetry == Permutations({u1, u2})
=============================================================================
