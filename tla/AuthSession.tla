---------------------------- MODULE AuthSession ----------------------------
(***************************************************************************)
(* One Auth of the daemon and the processes of the session it opens        *)
(* (src/src/daemon/Auth.cpp, src/src/daemon/UserSession.cpp).              *)
(*                                                                         *)
(* The daemon forks a session leader, which opens the PAM session, starts  *)
(* the session process and waits for it.  A pipe takes the logind session  *)
(* id and the process id to the daemon, which blocks until it has read     *)
(* both; afterwards the pipe tells it that the session is over, by end of  *)
(* file.  Nothing marks the pipe close-on-exec, so that the session        *)
(* process, and what it starts, hold its write end too.                    *)
(*                                                                         *)
(* Operators that no definition uses are wrong versions of the next one    *)
(* with their parameters, as in Display.                                   *)
(***************************************************************************)
EXTENDS Naturals, Sequences, FiniteSets

CONSTANT Lingering   \* may the session start a process that outlives it?

ASSUME LingeringAssumption == Lingering \in BOOLEAN

Processes == {"leader", "session", "helper"}

VARIABLES
  \* The daemon's Auth.
  stage,          \* what the Auth is doing, see Stages
  sessionOpened,
  xdgSessionId,   \* 0 until the leader reported one
  sessionPid,     \* 0 until the leader reported one
  finished,       \* sessionFinished was emitted
  \* The pipe.
  pipe,           \* written and not read: "id", "pid"
  writers,        \* who holds its write end
  reading,        \* the daemon holds its read end
  \* The other processes.
  alive,          \* those that run
  ended,          \* those that ran and ended
  leader,         \* what the leader does next
  prepared,       \* the session process got through childModifier
  told,           \* processes that were sent SIGTERM
  \* utmp: line |-> kind of its last record.  Nobody has set Auth::tty when
  \* a password is checked: refusals are recorded for the empty line.
  utmp

auth == <<stage, sessionOpened, xdgSessionId, sessionPid, finished>>
processes == <<alive, ended, leader, prepared, told>>
vars == <<auth, pipe, writers, reading, processes, utmp>>

Stages == {"new", "authenticated", "readingId", "readingPid", "open", "deleted"}
LeaderSteps == {"none", "openPam", "startProcess", "reportPid", "wait"}

Init ==
  /\ stage = "new" /\ sessionOpened = FALSE /\ finished = FALSE
  /\ xdgSessionId = 0 /\ sessionPid = 0
  /\ pipe = <<>> /\ writers = {} /\ reading = FALSE
  /\ alive = {} /\ ended = {} /\ leader = "none" /\ told = {}
  /\ prepared = FALSE
  /\ utmp = [line \in {"none", "tty"} |-> "empty"]

-----------------------------------------------------------------------------
(* Records of utmp, which keeps the last one of a line.                    *)
UtmpLogin(line) == utmp' = [utmp EXCEPT ![line] = "login"]
UtmpLogout == utmp' = [utmp EXCEPT !["tty"] = "dead"]

(* Auth::~Auth.  An open session is closed: its processes are told to end, *)
(* unless their ids are not known, and its record ends.                    *)

ToldSessionOnly == IF sessionPid > 0 THEN {"session"} ELSE {}
ToldAtEnd == (IF sessionPid > 0 THEN {"session"} ELSE {}) \cup {"leader"}

DeletedUnrecorded(isOpen) ==
  /\ stage' = "deleted" /\ sessionOpened' = FALSE
  /\ told' = told \cup (IF isOpen THEN ToldAtEnd ELSE {})
  /\ UNCHANGED utmp
Deleted(isOpen) ==
  /\ stage' = "deleted" /\ sessionOpened' = FALSE
  /\ told' = told \cup (IF isOpen THEN ToldAtEnd ELSE {})
  /\ IF isOpen THEN UtmpLogout ELSE UNCHANGED utmp

(* Auth::authenticate; Display deletes an Auth that was refused.           *)
Authenticate ==
  /\ stage = "new"
  /\ \/ stage' = "authenticated" /\ UNCHANGED utmp
     \/ stage' = "deleted" /\ UtmpLogin("none")
  /\ UNCHANGED <<sessionOpened, xdgSessionId, sessionPid, finished, pipe,
                 writers, reading, processes>>

(* Display deletes an Auth whose session it cannot prepare.                *)
Abandon ==
  /\ stage = "authenticated" /\ Deleted(FALSE)
  /\ UNCHANGED <<xdgSessionId, sessionPid, finished, pipe, writers, reading,
                 alive, ended, leader, prepared>>

-----------------------------------------------------------------------------
(* Auth::openSession.                                                      *)

(* After the fork the daemon closes its copy of the write end.             *)
WriteEndsKept == {"leader", "daemon"}
WriteEnds == {"leader"}

(* No pipe, no VT or no process: openSession fails, and Display deletes    *)
(* the Auth.                                                               *)
OpenSession ==
  /\ stage = "authenticated"
  /\ \/ /\ stage' = "readingId" /\ reading' = TRUE /\ writers' = WriteEnds
        /\ alive' = {"leader"} /\ leader' = "openPam"
        /\ UNCHANGED <<sessionOpened, told, utmp>>
     \/ Deleted(FALSE) /\ UNCHANGED <<reading, writers, alive, leader>>
  /\ UNCHANGED <<xdgSessionId, sessionPid, finished, pipe, ended, prepared>>

(* The blocking reads: what was written, or end of file, which leaves the  *)
(* value as it was.                                                        *)
EndOfFile == pipe = <<>> /\ writers = {}
ReadOnce(what) ==
  \/ pipe # <<>> /\ Head(pipe) = what /\ pipe' = Tail(pipe)
  \/ EndOfFile /\ UNCHANGED pipe

(* A read that fails: openSession gives up, and nothing ends the leader.   *)
ReadFails ==
  /\ stage \in {"readingId", "readingPid"}
  /\ reading' = FALSE /\ Deleted(FALSE)
  /\ UNCHANGED <<xdgSessionId, sessionPid, finished, pipe, writers, alive,
                 ended, leader, prepared>>

ReadId ==
  /\ stage = "readingId" /\ ReadOnce("id")
  /\ xdgSessionId' = IF pipe # <<>> THEN 1 ELSE xdgSessionId
  /\ stage' = "readingPid"
  /\ UNCHANGED <<sessionOpened, sessionPid, finished, writers, reading,
                 processes, utmp>>

(* Then the session counts as open and its login is recorded, even if no   *)
(* id came; for want of a session id, Display deletes the Auth at once,    *)
(* with its notifier, and the read end is never closed.                    *)
ReadPid ==
  /\ stage = "readingPid" /\ ReadOnce("pid")
  /\ sessionPid' = IF pipe # <<>> THEN 1 ELSE sessionPid
  /\ IF xdgSessionId > 0
     THEN /\ stage' = "open" /\ sessionOpened' = TRUE
          /\ UtmpLogin("tty")
          /\ UNCHANGED told
     ELSE Deleted(TRUE)
  /\ UNCHANGED <<xdgSessionId, finished, writers, reading, alive,
                 ended, leader, prepared>>

(* The notifier: end of file, once the event loop looks at the pipe again. *)
(* Display deletes the Auth in its handler of sessionFinished.             *)
SessionFinished ==
  /\ stage = "open" /\ EndOfFile
  /\ finished' = TRUE /\ reading' = FALSE
  /\ Deleted(TRUE)
  /\ UNCHANGED <<xdgSessionId, sessionPid, pipe, writers, alive, ended,
                 leader, prepared>>

(* Display::stop.                                                          *)
DisplayStops ==
  /\ stage = "open" /\ Deleted(TRUE)
  /\ UNCHANGED <<xdgSessionId, sessionPid, finished, pipe, writers, reading,
                 alive, ended, leader, prepared>>

-----------------------------------------------------------------------------
(* The session leader and the processes of the session.                    *)

Exit(p) ==
  /\ alive' = alive \ {p} /\ ended' = ended \cup {p}
  /\ writers' = writers \ {p}

Start(p) == alive' = alive \cup {p} /\ UNCHANGED ended

(* A write to a pipe nobody reads ends the leader.                         *)
Write(what, step) ==
  \/ /\ reading /\ pipe' = Append(pipe, what) /\ leader' = step
     /\ UNCHANGED <<alive, ended, writers>>
  \/ ~reading /\ Exit("leader") /\ UNCHANGED <<pipe, leader>>

(* Any step of opening the PAM session may fail, or give no session id.    *)
PamFails == Exit("leader") /\ UNCHANGED <<pipe, leader>>

LeaderOpensPam ==
  /\ "leader" \in alive /\ leader = "openPam"
  /\ Write("id", "startProcess") \/ PamFails
  /\ UNCHANGED <<auth, reading, prepared, told, utmp>>

(* UserSession::start; the child inherits the write end of the pipe.       *)
InheritedNone(p) == {}
Inherited(p) == {p}

LeaderStartsSession ==
  /\ "leader" \in alive /\ leader = "startProcess"
  /\ \/ /\ Start("session") /\ writers' = writers \cup Inherited("session")
        /\ leader' = "reportPid"
     \/ Exit("leader") /\ UNCHANGED leader
  /\ UNCHANGED <<auth, pipe, reading, prepared, told, utmp>>

(* Between fork and exec the process gets its terminal, namespaces, user,  *)
(* groups, directory and log file, or exits: the leader cannot tell that   *)
(* from a process that started.                                            *)
ChildModifier ==
  /\ "session" \in alive /\ ~prepared
  /\ \/ prepared' = TRUE /\ UNCHANGED <<alive, ended, writers>>
     \/ Exit("session") /\ UNCHANGED prepared
  /\ UNCHANGED <<auth, pipe, reading, leader, told, utmp>>

LeaderReportsPid ==
  /\ "leader" \in alive /\ leader = "reportPid"
  /\ prepared \/ "session" \notin alive
  /\ Write("pid", "wait")
  /\ UNCHANGED <<auth, reading, prepared, told, utmp>>

LeaderSeesEnd ==
  /\ "leader" \in alive /\ leader = "wait" /\ "session" \notin alive
  /\ Exit("leader")
  /\ UNCHANGED <<auth, pipe, reading, leader, prepared, told, utmp>>

(* A process ends by itself, of a signal, or because logind ends them all. *)
Ends(p) ==
  /\ p \in alive /\ Exit(p)
  /\ UNCHANGED <<auth, pipe, reading, leader, prepared, told, utmp>>

HelperStarts ==
  /\ Lingering /\ prepared /\ "session" \in alive
  /\ "helper" \notin alive \cup ended
  /\ Start("helper") /\ writers' = writers \cup Inherited("helper")
  /\ UNCHANGED <<auth, pipe, reading, leader, prepared, told, utmp>>

Daemon ==
  \/ Authenticate \/ Abandon \/ OpenSession \/ ReadFails \/ ReadId \/ ReadPid
  \/ SessionFinished \/ DisplayStops
Leader ==
  LeaderOpensPam \/ LeaderStartsSession \/ LeaderReportsPid \/ LeaderSeesEnd
Next ==
  \/ Daemon \/ Leader \/ ChildModifier \/ HelperStarts
  \/ \E p \in Processes : Ends(p)

Spec == Init /\ [][Next]_vars

(* The event loop runs, PAM and exec return, and a leader that gets        *)
(* SIGTERM ends.  Sessions need not end, nor heed SIGTERM.                 *)
LeaderTerminated == "leader" \in told /\ Ends("leader")
FairSpec ==
  /\ Spec
  /\ WF_vars(ReadId \/ ReadPid) /\ WF_vars(SessionFinished)
  /\ WF_vars(Leader) /\ WF_vars(ChildModifier)
  /\ WF_vars(LeaderTerminated)

-----------------------------------------------------------------------------
(* Properties.                                                             *)

TypeOK ==
  /\ stage \in Stages /\ sessionOpened \in BOOLEAN /\ finished \in BOOLEAN
  /\ xdgSessionId \in {0, 1} /\ sessionPid \in {0, 1}
  /\ pipe \in Seq({"id", "pid"}) /\ Len(pipe) <= 2
  /\ writers \subseteq alive /\ reading \in BOOLEAN
  /\ alive \subseteq Processes /\ ended \subseteq Processes
  /\ leader \in LeaderSteps /\ prepared \in BOOLEAN /\ told \subseteq Processes
  /\ utmp \in [{"none", "tty"} -> {"empty", "login", "dead"}]

(* sessionFinished is never early: the leader and the session process are  *)
(* gone by then, whichever of them ended first and however.                *)
FinishedAfterExit == finished => alive \cap {"leader", "session"} = {}

(* utmp shows the login of exactly the open session.                       *)
UtmpShowsOpenSession == sessionOpened <=> utmp["tty"] = "login"

(* What the daemon tells others of a session is so: in utmp, and by the    *)
(* signal that makes Display clean up.                                     *)
SessionAsReported == FinishedAfterExit /\ UtmpShowsOpenSession

(* openSession blocks the daemon's only thread on the leader.  It returns, *)
(* also when the leader dies without a word: except when the leader dies   *)
(* before it reports the process it started, which holds the pipe open.    *)
HeldByOrphan == "leader" \notin alive /\ writers # {}
OpenSessionReturns ==
  stage \in {"readingId", "readingPid"} ~>
    \/ stage \in {"open", "deleted"}
    \/ stage = "readingPid" /\ HeldByOrphan

(* The daemon gets to know that all processes of the session are gone.     *)
EndIsNoticed ==
  stage = "open" /\ alive = {} ~> stage = "deleted"

(* A leader whose session process is known does not survive the Auth, even *)
(* if the session process ignores SIGTERM.                                 *)
LeaderGoesWithAuth ==
  stage = "deleted" /\ sessionPid > 0 ~> "leader" \notin alive

(* Auth.h, of sessionFinished: "Emitted when the session process ends."    *)
FinishedWhenSessionEnds ==
  stage = "open" /\ "session" \in ended ~> finished \/ stage = "deleted"
=============================================================================
