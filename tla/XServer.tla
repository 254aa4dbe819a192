-------------------------------- MODULE XServer --------------------------------
(***************************************************************************)
(* The X servers of one seat: XorgDisplayServer.cpp in src/src/daemon with *)
(* the authority file of src/src/common/XAuth.cpp, and what Display does   *)
(* with them.  Display models a start and an end as one step each; here    *)
(* they take the steps during which the X server may act.                  *)
(*                                                                         *)
(* start() launches the server and waits on a pipe for the number of its   *)
(* display; setupDisplay() runs scripts; stop() waits for the server to    *)
(* end.  The daemon's only thread is in one of these (`pc') or in the      *)
(* event loop.  Waits for scripts are limited to 36 s in all and decide    *)
(* nothing.  SIGKILL ends an X server at once.                             *)
(*                                                                         *)
(* Operators before another one with its parameters that no definition     *)
(* uses are wrong versions of it, as in Display.                           *)
(***************************************************************************)
EXTENDS Naturals, FiniteSets

CONSTANTS
  Servers,      \* XorgDisplayServer objects, one for each X11 session
  NoServer,     \* the null pointer
  MaxDisplays   \* bound: displays after which no X server ends by itself

ASSUME ServersAssumption == NoServer \notin Servers
ASSUME BoundAssumption == MaxDisplays \in Nat

Numbers == {":0", ":1"}

VARIABLES
  \* The X server processes.
  xproc,      \* "none", "starting", "ready", "dead"
  printed,    \* what each wrote to the pipe, until the daemon reads it
  writers,    \* who holds the write end of each pipe
  \* The XorgDisplayServer objects.
  object,     \* "new", "alive", "deleted"
  process,    \* `process' is not null
  started,    \* m_started
  display,    \* the display number
  authority,  \* the display named in the authority file, or "none"
  \* The Display.
  x11,        \* m_x11Server
  generation, \* displays created for the seat
  \* The daemon's thread.
  pc,         \* "idle", "launching", "reading", "setup", "stopping"
  cur,        \* the object start() or stop() runs for
  outer       \* the server whose finished() the stop() is nested in

xserver == <<xproc, printed, writers>>
objects == <<object, process, started, display, authority>>
seat == <<x11, generation>>
thread == <<pc, cur, outer>>
vars == <<xserver, objects, seat, thread>>

Init ==
  /\ xproc = [s \in Servers |-> "none"] /\ printed = [s \in Servers |-> "nothing"]
  /\ writers = [s \in Servers |-> {}]
  /\ object = [s \in Servers |-> "new"] /\ process = [s \in Servers |-> FALSE]
  /\ started = [s \in Servers |-> FALSE] /\ display = [s \in Servers |-> ":0"]
  /\ authority = [s \in Servers |-> "none"]
  /\ x11 = NoServer /\ generation = 1
  /\ pc = "idle" /\ cur = NoServer /\ outer = NoServer

Idle == pc' = "idle" /\ cur' = NoServer /\ outer' = NoServer

-----------------------------------------------------------------------------
(* The X server.                                                           *)

(* With -displayfd it writes its number when it is ready, and closes the   *)
(* pipe; "blank" stands for a line too short to hold a number.             *)
XServerReady(s) ==
  /\ xproc[s] = "starting"
  /\ xproc' = [xproc EXCEPT ![s] = "ready"]
  /\ \E line \in Numbers \cup {"blank"} : printed' = [printed EXCEPT ![s] = line]
  /\ writers' = [writers EXCEPT ![s] = @ \ {"X"}]
  /\ UNCHANGED <<objects, seat, thread>>

(* A program it starts (xkbcomp) inherits the pipe for as long as it runs. *)
HelperStarts(s) ==
  /\ xproc[s] = "starting" /\ "helper" \notin writers[s]
  /\ writers' = [writers EXCEPT ![s] = @ \cup {"helper"}]
  /\ UNCHANGED <<xproc, printed, objects, seat, thread>>

HelperEnds(s) ==
  /\ "helper" \in writers[s]
  /\ writers' = [writers EXCEPT ![s] = @ \ {"helper"}]
  /\ UNCHANGED <<xproc, printed, objects, seat, thread>>

XServerDies(s) ==
  /\ xproc[s] \in {"starting", "ready"} /\ generation < MaxDisplays
  /\ xproc' = [xproc EXCEPT ![s] = "dead"]
  /\ writers' = [writers EXCEPT ![s] = @ \ {"X"}]
  /\ UNCHANGED <<printed, objects, seat, thread>>

-----------------------------------------------------------------------------
(* Display::startUserSession and XorgDisplayServer::start.                 *)

(* A start that failed deletes the object, whose destructor calls stop();  *)
(* m_x11Server is null then, even when an older server still runs.         *)
DiscardDangling(s) ==
  /\ object' = [object EXCEPT ![s] = "deleted"]
  /\ process' = [process EXCEPT ![s] = FALSE]
  /\ Idle /\ UNCHANGED x11
Discard(s) ==
  /\ object' = [object EXCEPT ![s] = "deleted"]
  /\ process' = [process EXCEPT ![s] = FALSE]
  /\ x11' = NoServer
  /\ Idle

(* addCookie truncates the file and writes the entry; it may fail.         *)
StartServer(s) ==
  /\ pc = "idle" /\ object[s] = "new"
  /\ \/ /\ object' = [object EXCEPT ![s] = "alive"]
        /\ process' = [process EXCEPT ![s] = TRUE]
        /\ authority' = [authority EXCEPT ![s] = ":0"]
        /\ x11' = s /\ pc' = "launching" /\ cur' = s /\ outer' = NoServer
     \/ Discard(s) /\ UNCHANGED authority
  /\ UNCHANGED <<xserver, started, display, generation>>

(* process->start() and waitForStarted(): the program runs and holds the   *)
(* pipe, and the daemon closes its own write end; or it cannot be run, and *)
(* the daemon's write end stays open for ever.                             *)
WriteEndsBoth == {"daemon", "X"}
WriteEnds == {"X"}

Launch ==
  /\ pc = "launching"
  /\ \/ /\ xproc' = [xproc EXCEPT ![cur] = "starting"]
        /\ writers' = [writers EXCEPT ![cur] = WriteEnds]
        /\ pc' = "reading"
        /\ UNCHANGED <<printed, objects, seat, cur, outer>>
     \/ /\ writers' = [writers EXCEPT ![cur] = {"daemon"}]
        /\ Discard(cur)
        /\ UNCHANGED <<xproc, printed, started, display, authority, generation>>

(* readLine returns at the end of a line, or at the end of the pipe, that  *)
(* is, when nobody can write to it any more.                               *)
Stopping(s, o) == pc' = "stopping" /\ cur' = s /\ outer' = o

AuthorityKept(n, ok) == authority[cur]
AuthorityOf(n, ok) ==
  IF n = ":0" THEN authority[cur] ELSE IF ok THEN n ELSE "none"

ReadNumber ==
  /\ pc = "reading" /\ printed[cur] \in Numbers
  /\ \E ok \in BOOLEAN :
       LET n == printed[cur]
       IN  /\ n = ":0" => ok
           /\ display' = [display EXCEPT ![cur] = n]
           /\ authority' = [authority EXCEPT ![cur] = AuthorityOf(n, ok)]
           /\ started' = [started EXCEPT ![cur] = ok]
           /\ IF ok THEN pc' = "setup" /\ UNCHANGED <<cur, outer>>
              ELSE Stopping(cur, NoServer)
  /\ printed' = [printed EXCEPT ![cur] = "nothing"]
  /\ UNCHANGED <<xproc, writers, object, process, seat>>

ReadNothing ==
  /\ pc = "reading"
  /\ \/ printed[cur] = "blank"
     \/ printed[cur] = "nothing" /\ writers[cur] = {}
  /\ printed' = [printed EXCEPT ![cur] = "nothing"]
  /\ Stopping(cur, NoServer)
  /\ UNCHANGED <<xproc, writers, objects, seat>>

(* setupDisplay() runs xsetroot and the display script; then the session   *)
(* is opened, or not, and the server is left running either way.           *)
SetupDone ==
  /\ pc = "setup" /\ Idle
  /\ UNCHANGED <<xserver, objects, seat>>

-----------------------------------------------------------------------------
(* The end of a server.                                                    *)

(* stop(): the server heeds SIGTERM within 5 s, or is killed.              *)
StopEnds ==
  /\ pc = "stopping" /\ xproc[cur] # "dead"
  /\ xproc' = [xproc EXCEPT ![cur] = "dead"]
  /\ writers' = [writers EXCEPT ![cur] = @ \ {"X"}]
  /\ UNCHANGED <<printed, objects, seat, thread>>

(* Display::stop is through: SeatManager::displayStopped creates another   *)
(* display, once for each emission of the signal, and deletes the old one  *)
(* with all its X servers.                                                 *)
StoppedNewest == {s \in Servers : object[s] = "alive" /\ s \in {x11, cur}}
StoppedByDeletion == {s \in Servers : object[s] = "alive"}

DisplayReplaced(emissions) ==
  LET gone == StoppedByDeletion
  IN  /\ object' = [s \in Servers |-> IF object[s] = "alive" THEN "deleted" ELSE object[s]]
      /\ process' = [s \in Servers |-> IF s \in gone THEN FALSE ELSE process[s]]
      /\ started' = [s \in Servers |-> IF s \in gone THEN FALSE ELSE started[s]]
      /\ xproc' = [s \in Servers |-> IF s \in gone THEN "dead" ELSE xproc[s]]
      /\ writers' = [s \in Servers |-> IF s \in gone THEN writers[s] \ {"X"} ELSE writers[s]]
      /\ x11' = NoServer
      /\ generation' = generation + emissions
      /\ Idle

(* finished() out of the event loop.  It tells the display to stop if the  *)
(* server had started; stop() returns at once for the server that ended,   *)
(* and waits for another one that m_x11Server names.                       *)
EmitsAlways(s) == TRUE
Emits(s) == started[s]

Finished(s) ==
  /\ pc = "idle" /\ object[s] = "alive" /\ process[s] /\ xproc[s] = "dead"
  /\ \/ /\ ~Emits(s)
        /\ process' = [process EXCEPT ![s] = FALSE]
        /\ UNCHANGED <<xproc, writers, object, started, seat, thread>>
     \/ /\ Emits(s) /\ x11 \in {s, NoServer}
        /\ DisplayReplaced(1)
     \/ /\ Emits(s) /\ x11 \notin {s, NoServer}
        /\ process' = [process EXCEPT ![s] = FALSE]
        /\ started' = [started EXCEPT ![s] = FALSE]
        /\ Stopping(x11, s)
        /\ UNCHANGED <<xproc, writers, object, seat>>
  /\ UNCHANGED <<printed, display, authority>>

(* finished() inside stop().  After a failed start the object is deleted;  *)
(* nested in the end of another server, the younger one emits `stopped'    *)
(* too, and Display::stop runs to its end before the outer one does.       *)
FinishedInStop ==
  /\ pc = "stopping" /\ xproc[cur] = "dead"
  /\ IF outer # NoServer
     THEN DisplayReplaced(IF Emits(cur) THEN 2 ELSE 1)
     ELSE IF Emits(cur)
     THEN DisplayReplaced(1)
     ELSE Discard(cur) /\ UNCHANGED <<xproc, writers, started, generation>>
  /\ UNCHANGED <<printed, display, authority>>

-----------------------------------------------------------------------------
Next ==
  \/ \E s \in Servers :
       \/ XServerReady(s) \/ HelperStarts(s) \/ HelperEnds(s) \/ XServerDies(s)
       \/ StartServer(s) \/ Finished(s)
  \/ Launch \/ ReadNumber \/ ReadNothing \/ SetupDone
  \/ StopEnds \/ FinishedInStop

Spec == Init /\ [][Next]_vars

(* System calls return when they can, SIGKILL works, and the programs an X *)
(* server starts end.  Nothing says that the X server becomes ready.       *)
FairSpec ==
  /\ Spec
  /\ WF_vars(Launch \/ ReadNumber \/ ReadNothing \/ SetupDone \/ StopEnds \/ FinishedInStop)
  /\ \A s \in Servers : WF_vars(HelperEnds(s)) /\ WF_vars(Finished(s))

-----------------------------------------------------------------------------
(* Properties.                                                             *)

TypeOK ==
  /\ xproc \in [Servers -> {"none", "starting", "ready", "dead"}]
  /\ printed \in [Servers -> Numbers \cup {"nothing", "blank"}]
  /\ writers \in [Servers -> SUBSET {"daemon", "X", "helper"}]
  /\ object \in [Servers -> {"new", "alive", "deleted"}]
  /\ process \in [Servers -> BOOLEAN] /\ started \in [Servers -> BOOLEAN]
  /\ display \in [Servers -> Numbers]
  /\ authority \in [Servers -> Numbers \cup {"none"}]
  /\ x11 \in Servers \cup {NoServer} /\ generation \in Nat
  /\ pc \in {"idle", "launching", "reading", "setup", "stopping"}
  /\ cur \in Servers \cup {NoServer} /\ outer \in Servers \cup {NoServer}
  /\ (x11 # NoServer => object[x11] = "alive")
  /\ (pc = "idle" <=> cur = NoServer)

(* The authority file of a server that started names its display.          *)
AuthorityNamesDisplay ==
  \A s \in Servers : started[s] => authority[s] = display[s]

(* No X server runs without the object that would notice its end: neither  *)
(* after a start that failed, nor when its display was replaced, not even  *)
(* if m_x11Server had come to name a younger one.                          *)
NoOrphan ==
  \A s \in Servers :
    xproc[s] \in {"starting", "ready"} => object[s] = "alive" /\ process[s]

(* A display is replaced only when a server that had started ends: a start *)
(* that fails leaves the display, and the sessions of others, alone.       *)
ReplacedAfterEnd ==
  [][generation' # generation =>
       \E s \in Servers : xproc[s] = "dead" /\ (started[s] \/ s = outer)]_vars

(* The end of an X server is noticed: a start() that waits for it fails,   *)
(* and a display that shows it is replaced; unless the daemon waits for    *)
(* ever for another X server, which runs and does not become ready.        *)
EndNoticed ==
  \A s \in Servers :
    (object[s] = "alive" /\ xproc[s] = "dead") ~>
      \/ object[s] = "deleted"
      \/ [](pc = "reading" /\ xproc[cur] = "starting")
=============================================================================
