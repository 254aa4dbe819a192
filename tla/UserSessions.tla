---------------------------- MODULE UserSessions ----------------------------
(***************************************************************************)
(* What a display promises about user sessions, whatever happens to VTs,   *)
(* display servers and the greeter: a user has at most one open session,   *)
(* every session gets an id no session had before, attempts that fail use  *)
(* up an id and open nothing, and a session stays open, as the session of  *)
(* the same user, until it is closed, alone or with all others.            *)
(***************************************************************************)
EXTENDS Naturals

CONSTANT Users
VARIABLES open, next

Init == open = {} /\ next = 0

Open(u) ==
  /\ \A s \in open : s.user # u
  /\ open' = open \cup {[sid |-> next, user |-> u]}
  /\ next' = next + 1

Fail == next' = next + 1 /\ UNCHANGED open

Close(s) == open' = open \ {s} /\ UNCHANGED next

CloseAll == open' = {} /\ UNCHANGED next

Next ==
  \/ \E u \in Users : Open(u)
  \/ Fail
  \/ \E s \in open : Close(s)
  \/ CloseAll

Spec == Init /\ [][Next]_<<open, next>>
=============================================================================
