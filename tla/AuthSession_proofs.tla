-------------------------- MODULE AuthSession_proofs --------------------------
(***************************************************************************)
(* Proofs about AuthSession: for any session, lingering processes or not,  *)
(* and any order in which its processes end.                               *)
(***************************************************************************)
EXTENDS AuthSession, TLAPS

(* What the leader has written by now.                                     *)
Written ==
  CASE leader \in {"startProcess", "reportPid"} -> <<"id">>
    [] leader = "wait" -> <<"id", "pid">>
    [] OTHER -> <<>>

(* A process holds the write end of the pipe exactly as long as it runs:   *)
(* end of file therefore means that no process of the session is left.     *)
HoldersAlive == writers = alive

(* There is no leader before openSession forked one.                       *)
NotForked == stage \in {"new", "authenticated"} => leader = "none" /\ alive = {}

(* What is in the pipe is what was written and not read.  A daemon that    *)
(* read the end of file instead of an id will never find anything in it.   *)
PipeFramed ==
  /\ stage \in {"new", "authenticated", "readingId"} => pipe = Written
  /\ stage = "readingPid" =>
       \/ pipe = <<>> /\ Written = <<"id">>
       \/ pipe = <<"pid">> /\ Written = <<"id", "pid">>
       \/ pipe = <<>> /\ alive = {}
  /\ leader \in {"none", "openPam"} => pipe = <<>>
  /\ leader \in {"startProcess", "reportPid"} => pipe \in {<<>>, <<"id">>}
  /\ pipe \in {<<>>, <<"id">>, <<"pid">>, <<"id", "pid">>}

(* A session counts as open between openSession and the end of its Auth;   *)
(* it is reported as finished by an Auth that is then deleted, with no     *)
(* process left.                                                           *)
Reported ==
  /\ sessionOpened <=> stage = "open"
  /\ utmp["tty"] = "login" <=> stage = "open"
  /\ finished => stage = "deleted" /\ alive = {}

(* The part of the type invariant that is inductive by itself.             *)
Types ==
  /\ stage \in Stages /\ sessionOpened \in BOOLEAN /\ finished \in BOOLEAN
  /\ xdgSessionId \in {0, 1} /\ sessionPid \in {0, 1}
  /\ reading \in BOOLEAN
  /\ alive \subseteq Processes /\ ended \subseteq Processes
  /\ leader \in LeaderSteps /\ prepared \in BOOLEAN /\ told \subseteq Processes
  /\ utmp \in [{"none", "tty"} -> {"empty", "login", "dead"}]

(* The inductive invariant.                                                *)
IInv == Types /\ HoldersAlive /\ NotForked /\ PipeFramed /\ Reported

(* openSession reads the id before the process id: a read never meets the  *)
(* other value, which would leave the daemon with nothing to go on.        *)
ReadsInStep ==
  /\ stage = "readingId" /\ pipe # <<>> => Head(pipe) = "id"
  /\ stage = "readingPid" /\ pipe # <<>> => Head(pipe) = "pid"

-----------------------------------------------------------------------------
(* The few values a pipe takes, and what Head, Tail and Append make of     *)
(* them.                                                                   *)
LEMMA PipeValues ==
  /\ Head(<<"id">>) = "id" /\ Tail(<<"id">>) = <<>>
  /\ Head(<<"pid">>) = "pid" /\ Tail(<<"pid">>) = <<>>
  /\ Head(<<"id", "pid">>) = "id" /\ Tail(<<"id", "pid">>) = <<"pid">>
  /\ Append(<<>>, "id") = <<"id">> /\ Append(<<>>, "pid") = <<"pid">>
  /\ Append(<<"id">>, "pid") = <<"id", "pid">>
  /\ <<"id">> # <<>> /\ <<"pid">> # <<>> /\ <<"id", "pid">> # <<>>
  /\ <<"id">> # <<"pid">> /\ <<"id">> # <<"id", "pid">>
  /\ <<"pid">> # <<"id", "pid">>
<1>1. \A e : Head(<<e>>) = e /\ Tail(<<e>>) = <<>> /\ Append(<<>>, e) = <<e>>
             /\ <<e>> # <<>>
  OBVIOUS
<1>2. Head(<<"id", "pid">>) = "id" /\ <<"id", "pid">> # <<>>
  OBVIOUS
<1> DEFINE both == <<"id", "pid">>
           tail == Tail(both)
           appended == Append(<<"id">>, "pid")
<1>3. tail = <<"pid">>
  <2>1. tail \in Seq({"id", "pid"}) /\ Len(tail) = 1 /\ tail[1] = "pid"
    OBVIOUS
  <2> HIDE DEF tail
  <2> QED BY <2>1
<1>4. appended = both
  <2>1. /\ appended \in Seq({"id", "pid"}) /\ Len(appended) = 2
        /\ appended[1] = "id" /\ appended[2] = "pid"
    OBVIOUS
  <2>2. /\ both \in Seq({"id", "pid"}) /\ Len(both) = 2
        /\ both[1] = "id" /\ both[2] = "pid"
    OBVIOUS
  <2> HIDE DEF appended, both
  <2> QED BY <2>1, <2>2
<1>5. <<"id">> # <<"pid">>
  OBVIOUS
<1>6. <<"id">> # <<"id", "pid">> /\ <<"pid">> # <<"id", "pid">>
  OBVIOUS
<1> QED BY <1>1, <1>2, <1>3, <1>4, <1>5, <1>6

(* An action that leaves the Auth and utmp alone, and in which the leader  *)
(* writes nothing, keeps the inductive invariant if it keeps the holders   *)
(* of the pipe alive, starts a process only in a session that lives, and   *)
(* lets the leader go no further than to report.                           *)
LEMMA QuietStep ==
  ASSUME IInv, UNCHANGED <<auth, pipe, utmp>>,
         reading' \in BOOLEAN, prepared' \in BOOLEAN,
         told' \subseteq Processes,
         alive' \subseteq Processes, ended' \subseteq Processes,
         writers' = alive',
         alive = {} => alive' = {},
         \/ leader' = leader
         \/ leader = "startProcess" /\ leader' = "reportPid"
  PROVE  IInv'
<1>1. Types'
  BY DEF IInv, Types, auth, LeaderSteps
<1>2. HoldersAlive'
  BY DEF HoldersAlive
<1>3. NotForked'
  BY DEF IInv, NotForked, auth
<1>4. Written' = Written
  BY DEF Written
<1>5. PipeFramed'
  BY <1>4 DEF IInv, PipeFramed, auth
<1>6. Reported'
  BY DEF IInv, Reported, auth
<1> QED BY <1>1, <1>2, <1>3, <1>5, <1>6 DEF IInv

(* Deleting the Auth keeps it too: nothing of the pipe or of the processes *)
(* changes, and an open session's record ends with it.                     *)
LEMMA DeletedStep ==
  ASSUME IInv, NEW isOpen \in BOOLEAN, Deleted(isOpen),
         stage = "open" => isOpen = TRUE,
         reading' \in BOOLEAN, sessionPid' \in {0, 1},
         finished' \in BOOLEAN,
         finished' => finished \/ alive = {},
         pipe' = pipe \/ (pipe # <<>> /\ pipe' = Tail(pipe)),
         UNCHANGED <<xdgSessionId, writers, alive, ended, leader, prepared>>
  PROVE  IInv'
<1>1. Types'
  <2>1. told' \subseteq Processes
    BY DEF IInv, Types, Deleted, ToldAtEnd, Processes
  <2>2. utmp' \in [{"none", "tty"} -> {"empty", "login", "dead"}]
    BY DEF IInv, Types, Deleted, UtmpLogout
  <2> QED BY <2>1, <2>2 DEF IInv, Types, Deleted, Stages
<1>2. HoldersAlive' /\ NotForked'
  BY DEF IInv, HoldersAlive, NotForked, Deleted
<1>3. PipeFramed'
  <2>1. stage' = "deleted"
    BY DEF Deleted
  <2>2. pipe \in {<<>>, <<"id">>, <<"pid">>, <<"id", "pid">>}
    BY DEF IInv, PipeFramed
  <2>3. CASE pipe' = pipe
    BY <2>1, <2>3 DEF IInv, PipeFramed
  <2>4. CASE pipe # <<>> /\ pipe' = Tail(pipe)
    BY <2>1, <2>2, <2>4, PipeValues DEF IInv, PipeFramed
  <2> QED BY <2>3, <2>4
<1>4. Reported'
  BY DEF IInv, Types, Reported, Deleted, UtmpLogout
<1> QED BY <1>1, <1>2, <1>3, <1>4 DEF IInv

-----------------------------------------------------------------------------
(* The steps of the daemon.                                                *)
LEMMA DaemonInv == IInv /\ Daemon => IInv'
<1> SUFFICES ASSUME IInv, Daemon PROVE IInv'
  OBVIOUS
<1>1. CASE Authenticate
  <2>1. Types'
    BY <1>1 DEF IInv, Types, Authenticate, UtmpLogin, processes, Stages
  <2>2. HoldersAlive' /\ NotForked'
    BY <1>1 DEF IInv, HoldersAlive, NotForked, Authenticate, processes
  <2>3. Written' = Written
    BY <1>1 DEF Authenticate, processes, Written
  <2>4. PipeFramed'
    BY <1>1, <2>3 DEF IInv, PipeFramed, Authenticate, processes
  <2>5. Reported'
    BY <1>1 DEF IInv, Types, Reported, Authenticate, UtmpLogin, processes
  <2> QED BY <2>1, <2>2, <2>4, <2>5 DEF IInv
<1>2. CASE Abandon
  BY <1>2, DeletedStep DEF Abandon, IInv, Types
<1>3. CASE OpenSession
  <2>1. CASE Deleted(FALSE) /\ UNCHANGED <<reading, writers, alive, leader>>
    BY <1>3, <2>1, DeletedStep DEF OpenSession, IInv, Types
  <2>2. CASE /\ stage' = "readingId" /\ reading' = TRUE /\ writers' = WriteEnds
             /\ alive' = {"leader"} /\ leader' = "openPam"
             /\ UNCHANGED <<sessionOpened, told, utmp>>
    <3>1. Types'
      BY <1>3, <2>2 DEF OpenSession, IInv, Types, Stages, Processes, LeaderSteps
    <3>2. HoldersAlive' /\ NotForked'
      BY <2>2 DEF HoldersAlive, NotForked, WriteEnds
    <3>3. pipe' = <<>> /\ Written' = <<>>
      BY <1>3, <2>2 DEF OpenSession, IInv, NotForked, PipeFramed, Written
    <3>4. PipeFramed'
      BY <2>2, <3>3 DEF PipeFramed
    <3>5. Reported'
      BY <1>3, <2>2 DEF OpenSession, IInv, Reported
    <3> QED BY <3>1, <3>2, <3>4, <3>5 DEF IInv
  <2> QED BY <1>3, <2>1, <2>2 DEF OpenSession
<1>4. CASE ReadFails
  BY <1>4, DeletedStep DEF ReadFails, IInv, Types
<1>5. CASE ReadId
  <2>1. Types'
    BY <1>5 DEF ReadId, IInv, Types, Stages, processes
  <2>2. HoldersAlive' /\ NotForked'
    BY <1>5 DEF ReadId, IInv, HoldersAlive, NotForked, processes
  <2>3. Written' = Written
    BY <1>5 DEF ReadId, processes, Written
  <2>4. pipe = Written
    BY <1>5 DEF ReadId, IInv, PipeFramed
  <2>5. PipeFramed'
    <3>1. CASE EndOfFile /\ UNCHANGED pipe
      BY <1>5, <3>1 DEF ReadId, EndOfFile, IInv, PipeFramed, HoldersAlive, processes
    <3>2. CASE pipe # <<>> /\ Head(pipe) = "id" /\ pipe' = Tail(pipe)
      BY <1>5, <2>3, <2>4, <3>2, PipeValues
         DEF ReadId, IInv, PipeFramed, processes
    <3> QED BY <1>5, <3>1, <3>2 DEF ReadId, ReadOnce
  <2>6. Reported'
    BY <1>5 DEF ReadId, IInv, Reported, processes
  <2> QED BY <2>1, <2>2, <2>5, <2>6 DEF IInv
<1>6. CASE ReadPid
  <2>1. pipe' = pipe \/ (pipe # <<>> /\ pipe' = Tail(pipe))
    BY <1>6 DEF ReadPid, ReadOnce
  <2>2. CASE Deleted(TRUE)
    BY <1>6, <2>1, <2>2, DeletedStep DEF ReadPid, IInv, Types
  <2>3. CASE /\ stage' = "open" /\ sessionOpened' = TRUE
             /\ UtmpLogin("tty") /\ UNCHANGED told
    <3>1. Types'
      BY <1>6, <2>3 DEF ReadPid, IInv, Types, Stages, UtmpLogin
    <3>2. HoldersAlive' /\ NotForked'
      BY <1>6, <2>3 DEF ReadPid, IInv, HoldersAlive, NotForked
    <3>3. PipeFramed'
      BY <1>6, <2>1, <2>3, PipeValues DEF ReadPid, IInv, PipeFramed
    <3>4. Reported'
      BY <1>6, <2>3 DEF ReadPid, IInv, Types, Reported, UtmpLogin
    <3> QED BY <3>1, <3>2, <3>3, <3>4 DEF IInv
  <2> QED BY <1>6, <2>2, <2>3 DEF ReadPid
<1>7. CASE SessionFinished
  BY <1>7, DeletedStep DEF SessionFinished, EndOfFile, IInv, Types, HoldersAlive
<1>8. CASE DisplayStops
  BY <1>8, DeletedStep DEF DisplayStops, IInv, Types
<1> QED BY <1>1, <1>2, <1>3, <1>4, <1>5, <1>6, <1>7, <1>8 DEF Daemon

(* A process ends.                                                         *)
LEMMA ExitInv ==
  ASSUME IInv, NEW p \in Processes, Exit(p),
         prepared' \in BOOLEAN,
         UNCHANGED <<auth, pipe, reading, leader, told, utmp>>
  PROVE  IInv'
<1>1. /\ alive' \subseteq alive /\ ended' \subseteq Processes
      /\ writers' = alive'
  BY DEF IInv, Types, HoldersAlive, Exit
<1> QED BY <1>1, QuietStep DEF IInv, Types

(* The leader writes: the reader finds the values in their order.          *)
LEMMA WriteInv ==
  ASSUME IInv, "leader" \in alive,
         NEW what, NEW step, Write(what, step),
         \/ leader = "openPam" /\ what = "id" /\ step = "startProcess"
         \/ leader = "reportPid" /\ what = "pid" /\ step = "wait",
         UNCHANGED <<auth, reading, prepared, told, utmp>>
  PROVE  IInv'
<1>1. CASE ~reading /\ Exit("leader") /\ UNCHANGED <<pipe, leader>>
  BY <1>1, ExitInv DEF IInv, Types, Processes
<1>2. CASE /\ reading /\ pipe' = Append(pipe, what) /\ leader' = step
           /\ UNCHANGED <<alive, ended, writers>>
  <2>1. Types'
    BY <1>2 DEF IInv, Types, auth, LeaderSteps
  <2>2. HoldersAlive' /\ Reported'
    BY <1>2 DEF IInv, HoldersAlive, Reported, auth
  <2>3. NotForked' /\ stage \notin {"new", "authenticated"}
    BY <1>2 DEF IInv, NotForked, auth
  <2>4. PipeFramed'
    <3>1. CASE leader = "openPam"
      <4>1. pipe' = <<"id">> /\ Written' = <<"id">> /\ Written = <<>>
        BY <1>2, <3>1, PipeValues DEF IInv, PipeFramed, Written
      <4>2. stage # "readingPid"
        BY <3>1, <4>1, PipeValues DEF IInv, PipeFramed
      <4> QED BY <1>2, <2>3, <3>1, <4>1, <4>2 DEF PipeFramed, auth
    <3>2. CASE leader = "reportPid"
      <4>1. Written = <<"id">> /\ Written' = <<"id", "pid">>
        BY <1>2, <3>2 DEF Written
      <4>2. \/ pipe = <<>> /\ pipe' = <<"pid">>
            \/ pipe = <<"id">> /\ pipe' = <<"id", "pid">>
        BY <1>2, <3>2, PipeValues DEF IInv, PipeFramed
      <4>3. stage = "readingPid" => pipe = <<>>
        BY <4>1, PipeValues DEF IInv, PipeFramed
      <4> QED BY <1>2, <2>3, <3>2, <4>1, <4>2, <4>3, PipeValues
              DEF IInv, PipeFramed, auth
    <3> QED BY <3>1, <3>2
  <2> QED BY <2>1, <2>2, <2>3, <2>4 DEF IInv
<1> QED BY <1>1, <1>2 DEF Write

(* The steps of the leader and of the session's other processes.           *)
LEMMA ProcessesInv ==
  ASSUME IInv, Leader \/ ChildModifier \/ HelperStarts
               \/ \E p \in Processes : Ends(p)
  PROVE  IInv'
<1> USE DEF Processes
<1>1. CASE LeaderOpensPam
  <2>1. CASE PamFails
    BY <1>1, <2>1, ExitInv DEF LeaderOpensPam, PamFails, IInv, Types
  <2> QED BY <1>1, <2>1, WriteInv DEF LeaderOpensPam
<1>2. CASE LeaderStartsSession
  <2>1. CASE Exit("leader") /\ UNCHANGED leader
    BY <1>2, <2>1, ExitInv DEF LeaderStartsSession, IInv, Types
  <2>2. CASE /\ Start("session") /\ writers' = writers \cup Inherited("session")
             /\ leader' = "reportPid"
    <3>1. /\ alive' = alive \cup {"session"} /\ writers' = alive'
          /\ ended' = ended /\ alive # {}
      BY <1>2, <2>2 DEF LeaderStartsSession, Start, Inherited, IInv, HoldersAlive
    <3> QED BY <1>2, <2>2, <3>1, QuietStep DEF LeaderStartsSession, IInv, Types
  <2> QED BY <1>2, <2>1, <2>2 DEF LeaderStartsSession
<1>3. CASE LeaderReportsPid
  BY <1>3, WriteInv DEF LeaderReportsPid
<1>4. CASE LeaderSeesEnd
  BY <1>4, ExitInv DEF LeaderSeesEnd, IInv, Types
<1>5. CASE ChildModifier
  <2>1. CASE Exit("session") /\ UNCHANGED prepared
    BY <1>5, <2>1, ExitInv DEF ChildModifier, IInv, Types
  <2>2. CASE prepared' = TRUE /\ UNCHANGED <<alive, ended, writers>>
    BY <1>5, <2>2, QuietStep DEF ChildModifier, IInv, Types, HoldersAlive
  <2> QED BY <1>5, <2>1, <2>2 DEF ChildModifier
<1>6. CASE HelperStarts
  <2>1. /\ alive' = alive \cup {"helper"} /\ writers' = alive'
        /\ ended' = ended /\ alive # {}
    BY <1>6 DEF HelperStarts, Start, Inherited, IInv, HoldersAlive
  <2> QED BY <1>6, <2>1, QuietStep DEF HelperStarts, IInv, Types
<1>7. ASSUME NEW p \in Processes, Ends(p) PROVE IInv'
  BY <1>7, ExitInv DEF Ends, IInv, Types
<1> QED BY <1>1, <1>2, <1>3, <1>4, <1>5, <1>6, <1>7 DEF Leader

-----------------------------------------------------------------------------
(* The invariant holds at first, and every step keeps it.                  *)
THEOREM Invariance == Spec => []IInv
<1>1. Init => IInv
  <2> SUFFICES ASSUME Init PROVE IInv
    OBVIOUS
  <2>1. Types
    BY DEF Init, Types, Stages, LeaderSteps, Processes
  <2>2. HoldersAlive /\ NotForked /\ PipeFramed
    BY DEF Init, HoldersAlive, NotForked, PipeFramed, Written
  <2>3. Reported
    BY DEF Init, Reported
  <2> QED BY <2>1, <2>2, <2>3 DEF IInv
<1>2. IInv /\ [Next]_vars => IInv'
  <2> SUFFICES ASSUME IInv, [Next]_vars PROVE IInv'
    OBVIOUS
  <2>1. CASE UNCHANGED vars
    BY <2>1, QuietStep DEF vars, processes, IInv, Types, HoldersAlive
  <2> QED BY <2>1, DaemonInv, ProcessesInv DEF Next
<1> QED BY <1>1, <1>2, PTL DEF Spec

(* The values of the variables, and the bound on the pipe: the leader      *)
(* never writes more than the two values, however often it is asked.       *)
THEOREM TypeCorrect == Spec => []TypeOK
<1>1. IInv => TypeOK
  <2> DEFINE Ok(p) == p \in Seq({"id", "pid"}) /\ Len(p) <= 2
  <2>1. Ok(<<>>) /\ Ok(<<"id">>) /\ Ok(<<"pid">>) /\ Ok(<<"id", "pid">>)
    OBVIOUS
  <2>2. PipeFramed => Ok(pipe)
    <3> HIDE DEF Ok
    <3> QED BY <2>1 DEF PipeFramed
  <2> QED BY <2>2 DEF IInv, Types, HoldersAlive, TypeOK
<1> QED BY <1>1, Invariance, PTL

(* The daemon reports the end of a session only when its leader and its    *)
(* process are gone, and utmp shows the login of exactly the session that  *)
(* is open (Auth::openSession, Auth::~Auth and the pipe's notifier).       *)
THEOREM SessionAsReportedAlways == Spec => []SessionAsReported
<1>1. IInv => SessionAsReported
  BY DEF IInv, Reported, SessionAsReported, FinishedAfterExit, UtmpShowsOpenSession
<1> QED BY <1>1, Invariance, PTL

(* Each blocking read of openSession finds its own value or none.          *)
THEOREM ReadsAlwaysInStep == Spec => []ReadsInStep
<1>1. IInv => ReadsInStep
  BY PipeValues DEF IInv, PipeFramed, Written, ReadsInStep
<1> QED BY <1>1, Invariance, PTL
=============================================================================
