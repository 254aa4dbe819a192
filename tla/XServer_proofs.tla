---------------------------- MODULE XServer_proofs ----------------------------
(***************************************************************************)
(* Proofs about XServer, for every set of XorgDisplayServer objects and    *)
(* any number of displays.                                                 *)
(***************************************************************************)
EXTENDS XServer, TLAPS

(* start() and stop() run for the server m_x11Server names, which is       *)
(* there; stop() is nested only in the end of another server, which has    *)
(* been dealt with but for the rest of its handler.                        *)
ThreadInv ==
  /\ pc # "idle" => x11 = cur
  /\ pc # "stopping" => outer = NoServer
  /\ outer # NoServer => /\ outer # cur /\ xproc[outer] = "dead"
                         /\ started[outer] = FALSE

(* A start() that has not read a display number has what it began with.    *)
StartingInv ==
  /\ pc = "launching" =>
       xproc[cur] = "none" /\ process[cur] = TRUE /\ started[cur] = FALSE
  /\ pc = "reading" => authority[cur] = ":0" /\ started[cur] = FALSE
  /\ pc = "launching" => authority[cur] = ":0"

(* An object that start() was not called for has no process.               *)
UnusedInv ==
  \A s \in Servers :
    object[s] = "new" =>
      xproc[s] = "none" /\ process[s] = FALSE /\ started[s] = FALSE

(* The inductive invariant.                                                *)
IInv ==
  /\ TypeOK /\ ThreadInv /\ StartingInv /\ UnusedInv
  /\ AuthorityNamesDisplay /\ NoOrphan

USE ServersAssumption

-----------------------------------------------------------------------------
(* What an X server does by itself: it never comes back from the dead, and *)
(* does not start unasked.                                                 *)
LEMMA XServerInv ==
  ASSUME IInv, NEW s \in Servers,
         XServerReady(s) \/ HelperStarts(s) \/ HelperEnds(s) \/ XServerDies(s)
  PROVE  IInv'
<1> USE DEF objects, seat, thread
<1>1. UNCHANGED <<objects, seat, thread>>
  BY DEF XServerReady, HelperStarts, HelperEnds, XServerDies
<1>2. \/ xproc' = xproc
      \/ /\ xproc[s] \in {"starting", "ready"}
         /\ \E to \in {"ready", "dead"} : xproc' = [xproc EXCEPT ![s] = to]
  BY DEF XServerReady, HelperStarts, HelperEnds, XServerDies
<1>3. TypeOK'
  <2>1. writers' \in [Servers -> SUBSET {"daemon", "X", "helper"}]
    BY DEF IInv, TypeOK, XServerReady, HelperStarts, HelperEnds, XServerDies
  <2>2. printed' \in [Servers -> Numbers \cup {"nothing", "blank"}]
    BY DEF IInv, TypeOK, XServerReady, HelperStarts, HelperEnds, XServerDies
  <2>3. xproc' \in [Servers -> {"none", "starting", "ready", "dead"}]
    BY <1>2 DEF IInv, TypeOK
  <2> QED BY <1>1, <2>1, <2>2, <2>3 DEF IInv, TypeOK
<1>4. \A t \in Servers :
        /\ xproc[t] = "none" <=> xproc'[t] = "none"
        /\ xproc[t] = "dead" => xproc'[t] = "dead"
        /\ xproc'[t] \in {"starting", "ready"} => xproc[t] \in {"starting", "ready"}
  BY <1>2 DEF IInv, TypeOK
<1>5. ThreadInv'
  BY <1>1, <1>4 DEF IInv, TypeOK, ThreadInv
<1>6. StartingInv'
  BY <1>1, <1>4 DEF IInv, TypeOK, StartingInv
<1>7. UnusedInv'
  BY <1>1, <1>4 DEF IInv, UnusedInv
<1>8. AuthorityNamesDisplay'
  BY <1>1 DEF IInv, AuthorityNamesDisplay
<1>9. NoOrphan'
  BY <1>1, <1>4 DEF IInv, NoOrphan
<1> QED BY <1>3, <1>5, <1>6, <1>7, <1>8, <1>9 DEF IInv

(* A start that failed deletes an object whose server does not run.        *)
LEMMA DiscardInv ==
  ASSUME IInv, NEW s \in Servers, Discard(s),
         xproc[s] \in {"none", "dead"},
         pc = "idle" \/ s = cur,
         writers' \in [Servers -> SUBSET {"daemon", "X", "helper"}],
         authority' = authority,
         UNCHANGED <<xproc, printed, started, display, generation>>
  PROVE  IInv'
<1>1. /\ pc' = "idle" /\ cur' = NoServer /\ outer' = NoServer /\ x11' = NoServer
      /\ object' = [object EXCEPT ![s] = "deleted"]
      /\ process' = [process EXCEPT ![s] = FALSE]
  BY DEF Discard, Idle
<1>2. TypeOK'
  BY <1>1 DEF IInv, TypeOK
<1>3. ThreadInv' /\ StartingInv'
  BY <1>1 DEF ThreadInv, StartingInv
<1>4. UnusedInv'
  BY <1>1 DEF IInv, TypeOK, UnusedInv
<1>5. AuthorityNamesDisplay'
  BY <1>1 DEF IInv, AuthorityNamesDisplay
<1>6. NoOrphan'
  BY <1>1 DEF IInv, TypeOK, NoOrphan
<1> QED BY <1>2, <1>3, <1>4, <1>5, <1>6 DEF IInv

(* A display that is replaced takes the objects that are alive with it,    *)
(* and with each of them its server.                                       *)
LEMMA ReplacedInv ==
  ASSUME IInv, NEW n \in Nat, DisplayReplaced(n),
         UNCHANGED <<printed, display, authority>>
  PROVE  IInv'
<1>1. /\ pc' = "idle" /\ cur' = NoServer /\ outer' = NoServer /\ x11' = NoServer
      /\ generation' = generation + n
  BY DEF DisplayReplaced, Idle
<1>2. /\ object' = [s \in Servers |-> IF object[s] = "alive" THEN "deleted" ELSE object[s]]
      /\ process' = [s \in Servers |-> IF object[s] = "alive" THEN FALSE ELSE process[s]]
      /\ started' = [s \in Servers |-> IF object[s] = "alive" THEN FALSE ELSE started[s]]
      /\ xproc' = [s \in Servers |-> IF object[s] = "alive" THEN "dead" ELSE xproc[s]]
      /\ writers' = [s \in Servers |-> IF object[s] = "alive" THEN writers[s] \ {"X"} ELSE writers[s]]
  BY DEF DisplayReplaced, StoppedByDeletion
<1>3. TypeOK'
  <2>1. writers' \in [Servers -> SUBSET {"daemon", "X", "helper"}]
    BY <1>2 DEF IInv, TypeOK
  <2>2. /\ object' \in [Servers -> {"new", "alive", "deleted"}]
        /\ process' \in [Servers -> BOOLEAN] /\ started' \in [Servers -> BOOLEAN]
        /\ xproc' \in [Servers -> {"none", "starting", "ready", "dead"}]
    BY <1>2 DEF IInv, TypeOK
  <2> QED BY <1>1, <2>1, <2>2 DEF IInv, TypeOK
<1>4. ThreadInv' /\ StartingInv'
  BY <1>1 DEF ThreadInv, StartingInv
<1>5. UnusedInv'
  BY <1>2 DEF IInv, UnusedInv
<1>6. AuthorityNamesDisplay'
  BY <1>2 DEF IInv, AuthorityNamesDisplay
<1>7. NoOrphan'
  BY <1>2 DEF IInv, NoOrphan
<1> QED BY <1>3, <1>4, <1>5, <1>6, <1>7 DEF IInv

(* The steps of XorgDisplayServer::start.                                  *)
LEMMA StartInv ==
  ASSUME IInv, Launch \/ ReadNumber \/ ReadNothing \/ SetupDone
               \/ \E s \in Servers : StartServer(s)
  PROVE  IInv'
<1>1. ASSUME NEW s \in Servers, StartServer(s) PROVE IInv'
  <2>1. CASE Discard(s) /\ UNCHANGED authority
    BY <1>1, <2>1, DiscardInv DEF StartServer, IInv, UnusedInv, xserver, TypeOK
  <2>2. CASE /\ object' = [object EXCEPT ![s] = "alive"]
             /\ process' = [process EXCEPT ![s] = TRUE]
             /\ authority' = [authority EXCEPT ![s] = ":0"]
             /\ x11' = s /\ pc' = "launching" /\ cur' = s /\ outer' = NoServer
    <3> USE DEF xserver
    <3>1. /\ UNCHANGED <<xproc, printed, writers, started, display, generation>>
          /\ xproc[s] = "none" /\ started[s] = FALSE
      BY <1>1 DEF StartServer, IInv, UnusedInv
    <3>2. TypeOK'
      BY <2>2, <3>1 DEF IInv, TypeOK, Numbers
    <3>3. ThreadInv' /\ StartingInv'
      BY <2>2, <3>1 DEF IInv, TypeOK, ThreadInv, StartingInv
    <3>4. UnusedInv'
      BY <2>2, <3>1 DEF IInv, TypeOK, UnusedInv
    <3>5. AuthorityNamesDisplay'
      BY <2>2, <3>1 DEF IInv, TypeOK, AuthorityNamesDisplay
    <3>6. NoOrphan'
      BY <2>2, <3>1 DEF IInv, TypeOK, NoOrphan
    <3> QED BY <3>2, <3>3, <3>4, <3>5, <3>6 DEF IInv
  <2> QED BY <1>1, <2>1, <2>2 DEF StartServer
<1>2. CASE Launch
  <2>1. cur \in Servers /\ object[cur] = "alive" /\ xproc[cur] = "none"
    BY <1>2 DEF Launch, IInv, TypeOK, ThreadInv, StartingInv
  <2>2. CASE /\ writers' = [writers EXCEPT ![cur] = {"daemon"}]
             /\ Discard(cur)
             /\ UNCHANGED <<xproc, printed, started, display, authority, generation>>
    <3>1. writers' \in [Servers -> SUBSET {"daemon", "X", "helper"}]
      BY <2>1, <2>2 DEF IInv, TypeOK
    <3> QED BY <2>1, <2>2, <3>1, DiscardInv
  <2>3. CASE /\ xproc' = [xproc EXCEPT ![cur] = "starting"]
             /\ writers' = [writers EXCEPT ![cur] = WriteEnds]
             /\ pc' = "reading"
             /\ UNCHANGED <<printed, objects, seat, cur, outer>>
    <3> USE DEF objects, seat
    <3>1. TypeOK'
      <4>1. writers' \in [Servers -> SUBSET {"daemon", "X", "helper"}]
        BY <2>1, <2>3 DEF IInv, TypeOK, WriteEnds
      <4> QED BY <1>2, <2>1, <2>3, <4>1 DEF Launch, IInv, TypeOK
    <3>2. ThreadInv' /\ StartingInv'
      BY <1>2, <2>1, <2>3 DEF Launch, IInv, TypeOK, ThreadInv, StartingInv
    <3>3. UnusedInv'
      BY <2>1, <2>3 DEF IInv, TypeOK, UnusedInv
    <3>4. AuthorityNamesDisplay'
      BY <2>3 DEF IInv, AuthorityNamesDisplay
    <3>5. NoOrphan'
      BY <1>2, <2>1, <2>3 DEF Launch, IInv, TypeOK, StartingInv, NoOrphan
    <3> QED BY <3>1, <3>2, <3>3, <3>4, <3>5 DEF IInv
  <2> QED BY <1>2, <2>2, <2>3 DEF Launch
<1>3. CASE ReadNumber
  <2> DEFINE n == printed[cur]
  <2>1. PICK ok \in BOOLEAN :
          /\ n = ":0" => ok
          /\ display' = [display EXCEPT ![cur] = n]
          /\ authority' = [authority EXCEPT ![cur] = AuthorityOf(n, ok)]
          /\ started' = [started EXCEPT ![cur] = ok]
          /\ IF ok THEN pc' = "setup" /\ UNCHANGED <<cur, outer>>
             ELSE Stopping(cur, NoServer)
    BY <1>3 DEF ReadNumber
  <2>2. /\ cur \in Servers /\ object[cur] = "alive" /\ x11 = cur
        /\ outer = NoServer /\ authority[cur] = ":0"
        /\ pc' \in {"setup", "stopping"} /\ cur' = cur /\ outer' = outer
    BY <1>3, <2>1 DEF ReadNumber, Stopping, IInv, TypeOK, ThreadInv, StartingInv
  <2>3. /\ n \in Numbers /\ AuthorityOf(n, ok) \in Numbers \cup {"none"}
        /\ ok => AuthorityOf(n, ok) = n
    BY <1>3, <2>1, <2>2 DEF ReadNumber, AuthorityOf, Numbers
  <2>4. /\ printed' = [printed EXCEPT ![cur] = "nothing"]
        /\ UNCHANGED <<xproc, writers, object, process, x11, generation>>
    BY <1>3 DEF ReadNumber, seat
  <2> HIDE DEF n
  <2>5. TypeOK'
    BY <2>1, <2>2, <2>3, <2>4 DEF IInv, TypeOK
  <2>6. ThreadInv' /\ StartingInv'
    BY <2>2, <2>4 DEF ThreadInv, StartingInv
  <2>7. UnusedInv'
    BY <2>1, <2>2, <2>4 DEF IInv, TypeOK, UnusedInv
  <2>8. AuthorityNamesDisplay'
    BY <2>1, <2>2, <2>3 DEF IInv, TypeOK, AuthorityNamesDisplay
  <2>9. NoOrphan'
    BY <2>4 DEF IInv, NoOrphan
  <2> QED BY <2>5, <2>6, <2>7, <2>8, <2>9 DEF IInv
<1>4. CASE ReadNothing
  <2>1. /\ cur \in Servers /\ outer = NoServer /\ x11 = cur
        /\ pc' = "stopping" /\ cur' = cur /\ outer' = NoServer
        /\ UNCHANGED <<xproc, writers, objects, seat>>
    BY <1>4 DEF ReadNothing, Stopping, IInv, TypeOK, ThreadInv
  <2>2. TypeOK'
    BY <1>4, <2>1 DEF ReadNothing, IInv, TypeOK, objects, seat
  <2>3. ThreadInv' /\ StartingInv'
    BY <2>1 DEF ThreadInv, StartingInv, seat
  <2>4. UnusedInv' /\ AuthorityNamesDisplay' /\ NoOrphan'
    BY <2>1 DEF IInv, UnusedInv, AuthorityNamesDisplay, NoOrphan, objects
  <2> QED BY <2>2, <2>3, <2>4 DEF IInv
<1>5. CASE SetupDone
  <2>1. TypeOK'
    BY <1>5 DEF SetupDone, Idle, IInv, TypeOK, xserver, objects, seat
  <2>2. ThreadInv' /\ StartingInv'
    BY <1>5 DEF SetupDone, Idle, ThreadInv, StartingInv
  <2>3. UnusedInv' /\ AuthorityNamesDisplay' /\ NoOrphan'
    BY <1>5 DEF SetupDone, IInv, UnusedInv, AuthorityNamesDisplay, NoOrphan,
                xserver, objects
  <2> QED BY <2>1, <2>2, <2>3 DEF IInv
<1> QED BY <1>1, <1>2, <1>3, <1>4, <1>5

(* The steps of XorgDisplayServer::stop and finished.                      *)
LEMMA StopInv ==
  ASSUME IInv, StopEnds \/ FinishedInStop \/ \E s \in Servers : Finished(s)
  PROVE  IInv'
<1>1. CASE StopEnds
  <2> USE DEF objects, seat, thread
  <2>1. /\ cur \in Servers /\ xproc' = [xproc EXCEPT ![cur] = "dead"]
        /\ pc = "stopping" /\ object[cur] = "alive"
        /\ UNCHANGED <<printed, objects, seat, thread>>
    BY <1>1 DEF StopEnds, IInv, TypeOK, ThreadInv
  <2>2. TypeOK'
    <3>1. writers' \in [Servers -> SUBSET {"daemon", "X", "helper"}]
      BY <1>1, <2>1 DEF StopEnds, IInv, TypeOK
    <3> QED BY <2>1, <3>1 DEF IInv, TypeOK
  <2>3. ThreadInv' /\ StartingInv'
    BY <2>1 DEF IInv, TypeOK, ThreadInv, StartingInv
  <2>4. UnusedInv'
    BY <2>1 DEF IInv, TypeOK, UnusedInv
  <2>5. AuthorityNamesDisplay' /\ NoOrphan'
    BY <2>1 DEF IInv, TypeOK, AuthorityNamesDisplay, NoOrphan
  <2> QED BY <2>2, <2>3, <2>4, <2>5 DEF IInv
<1>2. CASE FinishedInStop
  <2>1. cur \in Servers /\ xproc[cur] = "dead"
    BY <1>2 DEF FinishedInStop, IInv, TypeOK
  <2>2. CASE outer = NoServer /\ ~Emits(cur)
    <3>1. Discard(cur) /\ UNCHANGED <<xproc, printed, writers, started, display, authority, generation>>
      BY <1>2, <2>2 DEF FinishedInStop
    <3> QED BY <2>1, <3>1, DiscardInv DEF IInv, TypeOK
  <2>3. CASE outer # NoServer \/ Emits(cur)
    <3>1. PICK n \in Nat : DisplayReplaced(n)
      BY <1>2, <2>3 DEF FinishedInStop
    <3> QED BY <1>2, <3>1, ReplacedInv DEF FinishedInStop
  <2> QED BY <2>2, <2>3
<1>3. ASSUME NEW s \in Servers, Finished(s) PROVE IInv'
  <2>1. /\ pc = "idle" /\ object[s] = "alive" /\ xproc[s] = "dead"
        /\ cur = NoServer /\ outer = NoServer
    BY <1>3 DEF Finished, IInv, TypeOK, ThreadInv
  <2>2. CASE DisplayReplaced(1)
    BY <1>3, <2>2, ReplacedInv DEF Finished
  <2>3. CASE /\ ~Emits(s)
             /\ process' = [process EXCEPT ![s] = FALSE]
             /\ UNCHANGED <<xproc, writers, object, started, seat, thread>>
    <3> USE DEF seat, thread
    <3>1. UNCHANGED <<printed, display, authority>>
      BY <1>3 DEF Finished
    <3>2. TypeOK'
      BY <2>3, <3>1 DEF IInv, TypeOK
    <3>3. ThreadInv' /\ StartingInv'
      BY <2>1, <2>3 DEF IInv, ThreadInv, StartingInv
    <3>4. UnusedInv' /\ AuthorityNamesDisplay' /\ NoOrphan'
      BY <2>1, <2>3, <3>1
         DEF IInv, TypeOK, UnusedInv, AuthorityNamesDisplay, NoOrphan
    <3> QED BY <3>2, <3>3, <3>4 DEF IInv
  <2>4. CASE /\ x11 \notin {s, NoServer}
             /\ process' = [process EXCEPT ![s] = FALSE]
             /\ started' = [started EXCEPT ![s] = FALSE]
             /\ Stopping(x11, s)
             /\ UNCHANGED <<xproc, writers, object, seat>>
    <3> USE DEF seat, Stopping
    <3>1. UNCHANGED <<printed, display, authority>>
      BY <1>3 DEF Finished
    <3>2. TypeOK'
      BY <2>4, <3>1 DEF IInv, TypeOK
    <3>3. ThreadInv' /\ StartingInv'
      BY <2>1, <2>4 DEF IInv, TypeOK, ThreadInv, StartingInv
    <3>4. UnusedInv' /\ NoOrphan'
      BY <2>1, <2>4 DEF IInv, TypeOK, UnusedInv, NoOrphan
    <3>5. AuthorityNamesDisplay'
      BY <2>4, <3>1 DEF IInv, TypeOK, AuthorityNamesDisplay
    <3> QED BY <3>2, <3>3, <3>4, <3>5 DEF IInv
  <2> QED BY <1>3, <2>2, <2>3, <2>4 DEF Finished
<1> QED BY <1>1, <1>2, <1>3

-----------------------------------------------------------------------------
(* The invariant holds at first, and every step keeps it.                  *)
THEOREM Invariance == Spec => []IInv
<1>1. Init => IInv
  <2> SUFFICES ASSUME Init PROVE IInv
    OBVIOUS
  <2>1. TypeOK
    BY DEF Init, TypeOK, Numbers
  <2>2. ThreadInv /\ StartingInv /\ UnusedInv
    BY DEF Init, ThreadInv, StartingInv, UnusedInv
  <2>3. AuthorityNamesDisplay /\ NoOrphan
    BY DEF Init, AuthorityNamesDisplay, NoOrphan
  <2> QED BY <2>1, <2>2, <2>3 DEF IInv
<1>2. IInv /\ [Next]_vars => IInv'
  <2> SUFFICES ASSUME IInv, [Next]_vars PROVE IInv'
    OBVIOUS
  <2>1. CASE UNCHANGED vars
    <3> USE <2>1 DEF vars, xserver, objects, seat, thread
    <3>1. TypeOK'
      BY DEF IInv, TypeOK
    <3>2. ThreadInv' /\ StartingInv' /\ UnusedInv'
      BY DEF IInv, ThreadInv, StartingInv, UnusedInv
    <3>3. AuthorityNamesDisplay' /\ NoOrphan'
      BY DEF IInv, AuthorityNamesDisplay, NoOrphan
    <3> QED BY <3>1, <3>2, <3>3 DEF IInv
  <2> QED BY <2>1, XServerInv, StartInv, StopInv DEF Next
<1> QED BY <1>1, <1>2, PTL DEF Spec

(* The values of the variables; m_x11Server names an object that is there, *)
(* or none: it never dangles.                                              *)
THEOREM TypeCorrect == Spec => []TypeOK
<1>1. IInv => TypeOK
  BY DEF IInv
<1> QED BY <1>1, Invariance, PTL

(* The authority file a session is given names the display its server      *)
(* chose (XorgDisplayServer::start, which writes the file again if that is *)
(* not the display it had guessed).                                        *)
THEOREM AuthorityAlwaysNamesDisplay == Spec => []AuthorityNamesDisplay
<1>1. IInv => AuthorityNamesDisplay
  BY DEF IInv
<1> QED BY <1>1, Invariance, PTL

(* No X server runs without an object that would notice its end.           *)
THEOREM NeverAnOrphan == Spec => []NoOrphan
<1>1. IInv => NoOrphan
  BY DEF IInv
<1> QED BY <1>1, Invariance, PTL

(* A display is replaced only at the end of a server that had started.     *)
THEOREM ReplacedOnlyAfterEnd == Spec => ReplacedAfterEnd
<1> DEFINE Step ==
      generation' # generation =>
        \E s \in Servers : xproc[s] = "dead" /\ (started[s] \/ s = outer)
<1>1. IInv /\ [Next]_vars => [Step]_vars
  <2> SUFFICES ASSUME IInv, Next, generation' # generation
               PROVE  \E s \in Servers : xproc[s] = "dead" /\ (started[s] \/ s = outer)
    BY DEF vars, seat
  <2>1. CASE FinishedInStop
    <3>1. CASE outer # NoServer
      BY <3>1 DEF IInv, TypeOK, ThreadInv
    <3>2. CASE outer = NoServer
      <4>1. Emits(cur) /\ xproc[cur] = "dead" /\ cur \in Servers
        BY <2>1, <3>2 DEF FinishedInStop, IInv, TypeOK
      <4> QED BY <4>1 DEF Emits
    <3> QED BY <3>1, <3>2
  <2>2. CASE \E s \in Servers : Finished(s)
    BY <2>2 DEF Finished, Emits, seat
  <2>3. ASSUME NEW s \in Servers PROVE ~StartServer(s)
    BY DEF StartServer
  <2>4. ~(Launch \/ ReadNumber \/ ReadNothing \/ SetupDone \/ StopEnds)
    BY DEF Launch, ReadNumber, ReadNothing, SetupDone, StopEnds, seat
  <2>5. ASSUME NEW s \in Servers
        PROVE ~(XServerReady(s) \/ HelperStarts(s) \/ HelperEnds(s) \/ XServerDies(s))
    BY DEF XServerReady, HelperStarts, HelperEnds, XServerDies, seat
  <2> QED BY <2>1, <2>2, <2>3, <2>4, <2>5 DEF Next
<1> QED BY <1>1, Invariance, PTL DEF Spec, ReplacedAfterEnd
=============================================================================
