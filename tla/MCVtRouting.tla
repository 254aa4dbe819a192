----------------------------- MODULE MCVtRouting -----------------------------
(* An instance of VtRouting for TLC.  Users are alike, and so are the VTs  *)
(* but the greeter's.                                                      *)
EXTENDS VtRouting, TLC

CONSTANTS u1, u2, v1, v2, v3

Symmetry == Permutations({u1, u2}) \cup Permutations({v2, v3})
==============================================================================
