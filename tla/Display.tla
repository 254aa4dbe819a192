------------------------------- MODULE Display -------------------------------
(***************************************************************************)
(* The display of one seat (src/src/daemon/Display.cpp): the Treeland      *)
(* greeter it starts, the greeter's requests, the user sessions it opens   *)
(* and what happens to them when a session or an X server ends.            *)
(*                                                                         *)
(* ddm runs one Qt event loop.  Every handler blocks on the D-Bus calls,   *)
(* sockets and pipes it uses and never re-enters the loop, so a handler is *)
(* one atomic action here.  Session leaders, X servers, Treeland, logind   *)
(* and dde-seatd are other processes: they act between any two handlers,   *)
(* and their answers are chosen nondeterministically.                      *)
(*                                                                         *)
(* An operator that stands just before another one with its parameters,    *)
(* and that no definition uses, is a wrong version of it: PROJECT.json     *)
(* names the property that tells the two apart.                            *)
(***************************************************************************)
EXTENDS Integers, FiniteSets

CONSTANTS
  Users,                \* users who may log in (the greeter user "dde" is none)
  NoUser,               \* the empty user name
  Sockets,              \* connections Treeland opens to the daemon's socket
  InitialVt, MaxVt,     \* DDM_INITIAL_VT .. MAX_NR_CONSOLES
  DesktopSessions,      \* the desktop sessions a login may ask for
  AutologinUser,        \* mainConfig.Autologin.User, or NoUser
  AutologinSession,     \* mainConfig.Autologin.Session, or "unset"
  RememberLastUser, RememberLastSession,
  SavedUser, SavedSession, \* what state.conf holds when the daemon starts
  MaxSid,               \* bound: sessions the daemon tries to start
  MaxDisplays           \* bound: displays after which no X server exits

VTs == InitialVt .. MaxVt
NoVt == -1
NoSid == -1

(* "invalid" stands for a desktop session that fails one of the sanity     *)
(* checks of startUserSession: no such file, no type or no command.        *)
Kinds == {"treeland", "x11", "wayland"}

ASSUME UsersAssumption == NoUser \notin Users
ASSUME VtAssumption ==
  InitialVt \in Nat \ {0} /\ MaxVt \in Nat /\ InitialVt <= MaxVt
ASSUME SessionsAssumption == DesktopSessions \subseteq Kinds \cup {"invalid"}
ASSUME AutologinAssumption ==
  /\ AutologinUser \in Users \cup {NoUser}
  /\ AutologinSession \in DesktopSessions \cup {"unset"}
ASSUME RememberAssumption ==
  RememberLastUser \in BOOLEAN /\ RememberLastSession \in BOOLEAN
ASSUME SavedAssumption ==
  /\ SavedUser \in Users \cup {NoUser}
  /\ SavedSession \in DesktopSessions \cup {"unset"}
ASSUME BoundAssumption == MaxSid \in Nat /\ MaxDisplays \in Nat

VARIABLES
  \* The Display object; a new one replaces it when it stops.
  started,        \* m_started
  terminalId,     \* the greeter's VT
  failedStarts,   \* failed attempts of SeatManager::startDisplay
  connectedOnce,  \* m_connectedOnce
  treeland,       \* m_treeland->m_started: Treeland was started, not stopped
  x11,            \* m_x11Server, named by the session it was started for
  sockets,        \* accepted connections of m_socketServer
  auths,          \* the Auth objects in `auths', and their session processes
  \* The daemon.
  nextSid,        \* DaemonApp::m_lastSessionId
  sessions,       \* user entries of DisplayManager::m_sessions
  lastSession,    \* DisplayManager::m_lastSession
  activated,      \* DisplayManager::m_lastActivatedUser
  stateConf,      \* state.conf: Last.User and Last.Session
  reply,          \* the last message sent to a greeter
  \* Other processes.
  xservers,       \* X servers whose finished() was not handled yet
  grouped,        \* VTs dde-seatd has grouped with Treeland
  \* History.
  generation      \* displays created since the daemon started

object == <<started, terminalId, failedStarts, generation>>
servers == <<treeland, x11, xservers>>
registry == <<sessions, lastSession>>
saved == <<activated, stateConf>>
vars == <<object, servers, registry, saved, connectedOnce, sockets, auths,
          nextSid, reply, grouped>>

AuthType == [sid : Nat, user : Users, type : Kinds, tty : VTs,
             scanned : BOOLEAN, state : {"running", "terminating", "exited"}]
SessionEntry == [sid : Nat, user : Users, vt : VTs]
GroupedVt == [sid : Nat, vt : VTs]
XServer == [sid : Nat, vt : VTs, up : BOOLEAN]

-----------------------------------------------------------------------------
(* Virtual terminals.                                                      *)

(* VTs some program holds open; dde-seatd never offers one of them.        *)
OpenVts ==
  {g.vt : g \in grouped} \cup
  {a.tty : a \in {b \in auths : b.state # "exited"}} \cup
  {x.vt : x \in {y \in xservers : y.up}} \cup
  (IF treeland THEN {terminalId} ELSE {})

FreeVts == VTs \ OpenVts

(* isTtyInUse answers for logind sessions that are not "closing": those of *)
(* running sessions of this daemon, and any session of somebody else.      *)
TtysInUse == {inUse \in SUBSET VTs :
                {a.tty : a \in {b \in auths : b.state = "running"}} \subseteq inUse}

ReservedVtOfGreeterOnly == {terminalId}
ReservedByDdm == {terminalId} \cup {a.tty : a \in auths}

(* The lowest VT neither reserved nor in use; without one, whatever        *)
(* dde-seatd offers, and that is not checked against the reserved VTs.     *)
ScannedVtsUnreserved(inUse) == VTs \ inUse
ScannedVts(inUse) == VTs \ (ReservedByDdm \cup inUse)
FetchAvailableUserVt(inUse, offered) ==
  IF ScannedVts(inUse) = {}
  THEN {offered}
  ELSE {v \in ScannedVts(inUse) : \A w \in ScannedVts(inUse) : v <= w}

UserVtAnswers ==
  UNION {{[vt |-> v, scanned |-> ScannedVts(inUse) # {}] :
            v \in FetchAvailableUserVt(inUse, offered)} :
         inUse \in TtysInUse, offered \in FreeVts \cup {NoVt}}

(* The greeter's VT looks at logind only, not at what ddm itself reserved. *)
(* The name it asks for is the text "ttyDDM_INITIAL_VT", since STRINGIFY   *)
(* does not expand its argument: the name of no VT.  So the answer is      *)
(* always DDM_INITIAL_VT, whoever uses it.                                 *)
InitialTty == NoVt
FetchAvailableVt(inUse, active, offered) ==
  IF InitialTty \notin inUse THEN InitialVt
  ELSE IF active # NoVt /\ active \notin inUse THEN active
  ELSE offered

(* DisplayManager::findUserByVt: the user of the first entry on that VT,   *)
(* in the order of the session ids, past the entries of greeters; and the  *)
(* greeter's user for every other VT, whether it has such an entry or not. *)
FindUserByVt(vt) ==
  LET here == {e \in sessions : e.vt = vt}
  IN  IF here = {} THEN "dde"
      ELSE (CHOOSE e \in here : \A f \in here : e.sid <= f.sid).user

-----------------------------------------------------------------------------
(* SeatManager::createSeat: a new Display object and the first attempt to  *)
(* start it.  start() switches to the greeter's VT, then starts Treeland;  *)
(* either may fail, and a display without a VT cannot be started.          *)

GreeterVts == {FetchAvailableVt(inUse, active, offered) :
                 inUse \in SUBSET VTs,
                 active \in VTs \cup {NoVt}, offered \in VTs \cup {NoVt}}

Init ==
  /\ \E vt \in GreeterVts, ok \in BOOLEAN :
       /\ ok => vt # NoVt
       /\ terminalId = vt
       /\ started = ok
       /\ treeland = ok
       /\ failedStarts = IF ok THEN 0 ELSE 1
  /\ connectedOnce = FALSE /\ x11 = NoSid /\ sockets = {} /\ auths = {}
  /\ nextSid = 0 /\ sessions = {} /\ lastSession = NoSid
  /\ activated = NoUser
  /\ stateConf = [user |-> SavedUser, session |-> SavedSession]
  /\ reply = "none" /\ xservers = {} /\ grouped = {}
  /\ generation = 1

(* The timer of SeatManager::startDisplay: two more attempts, 2 s apart.   *)
MaxStartsOffByOne == 2
MaxStarts == 3

RetryStart ==
  /\ ~started /\ failedStarts < MaxStarts
  /\ \E ok \in BOOLEAN :
       /\ ok => terminalId # NoVt
       /\ started' = ok
       /\ treeland' = ok
       /\ failedStarts' = IF ok THEN failedStarts ELSE failedStarts + 1
  /\ UNCHANGED <<terminalId, generation, x11, xservers, registry, saved,
                 connectedOnce, sockets, auths, nextSid, reply, grouped>>

-----------------------------------------------------------------------------
(* Display::startUserSession, with the result it returns.                  *)

NewAuthCounted(u, kind, vt, scanned) ==
  [sid |-> Cardinality(auths), user |-> u, type |-> kind, tty |-> vt,
   scanned |-> scanned, state |-> "running"]
NewAuth(u, kind, vt, scanned) ==
  [sid |-> nextSid, user |-> u, type |-> kind, tty |-> vt,
   scanned |-> scanned, state |-> "running"]

(* openSession returned a logind session: the auth stays in `auths' and    *)
(* the session is registered on D-Bus.                                     *)
Opened(a) ==
  /\ auths' = auths \cup {a}
  /\ sessions' = sessions \cup {[sid |-> a.sid, user |-> a.user, vt |-> a.tty]}
  /\ lastSession' = a.sid

(* Every failure path takes the auth out of `auths' again and deletes it.  *)
NotOpened == UNCHANGED <<auths, registry>>

InvalidSession == NotOpened /\ UNCHANGED <<nextSid, grouped, servers>>

(* A Treeland session runs on a VT dde-seatd groups with Treeland.  When   *)
(* the group cannot be used or openSession fails, destroyGroupVt asks for  *)
(* its removal and reads no answer, so the group may stay behind.          *)
TreelandSession(u, ok) ==
  /\ nextSid' = nextSid + 1
  /\ UNCHANGED servers
  /\ \/ \E vt \in FreeVts :
          /\ ok
          /\ grouped' = grouped \cup {[sid |-> nextSid, vt |-> vt]}
          /\ Opened(NewAuth(u, "treeland", vt, FALSE))
     \/ \E vt \in FreeVts :
          /\ ~ok /\ NotOpened
          /\ grouped' = grouped \cup {[sid |-> nextSid, vt |-> vt]}
     \/ ~ok /\ NotOpened /\ UNCHANGED grouped

(* XorgDisplayServer::start for an X11 session: m_x11Server is overwritten *)
(* before the new server is known to run, and set to null if it does not.  *)
XServerFailsDangling == x11' = nextSid /\ UNCHANGED xservers
XServerFails == x11' = NoSid /\ UNCHANGED xservers
XServerStarts(vt) ==
  /\ x11' = nextSid
  /\ xservers' = xservers \cup {[sid |-> nextSid, vt |-> vt, up |-> TRUE]}

(* Any other session takes the screen from Treeland before it is opened,   *)
(* and no failure after that point starts Treeland again.                  *)
ScreenShared(u, kind, vt, scanned, ok) ==
  /\ treeland' = (treeland /\ kind = "wayland")
  /\ \/ kind = "wayland" /\ UNCHANGED <<x11, xservers>>
     \/ kind = "x11" /\ XServerStarts(vt)
     \/ kind = "x11" /\ ~ok /\ XServerFails
  /\ IF ok THEN Opened(NewAuth(u, kind, vt, scanned)) ELSE NotOpened

ScreenTaken(u, kind, vt, scanned, ok) ==
  /\ treeland' = FALSE
  /\ \/ kind = "wayland" /\ UNCHANGED <<x11, xservers>>
     \/ kind = "x11" /\ XServerStarts(vt)
     \/ kind = "x11" /\ ~ok /\ XServerFails
  /\ IF ok THEN Opened(NewAuth(u, kind, vt, scanned)) ELSE NotOpened

OwnVtSessionUnchecked(u, kind, ok) ==
  /\ nextSid' = nextSid + 1
  /\ UNCHANGED grouped
  /\ \E answer \in UserVtAnswers :
       ScreenTaken(u, kind, answer.vt, answer.scanned, ok)

OwnVtSession(u, kind, ok) ==
  /\ nextSid' = nextSid + 1
  /\ UNCHANGED grouped
  /\ \E answer \in UserVtAnswers :
       \/ answer.vt = NoVt /\ ~ok /\ NotOpened /\ UNCHANGED servers
       \/ answer.vt # NoVt /\ ScreenTaken(u, kind, answer.vt, answer.scanned, ok)

StartUserSession(u, kind, ok) ==
  \/ kind = "invalid" /\ ~ok /\ InvalidSession
  \/ kind = "treeland" /\ nextSid < MaxSid /\ TreelandSession(u, ok)
  \/ kind \in {"x11", "wayland"} /\ nextSid < MaxSid
     /\ OwnVtSession(u, kind, ok)

-----------------------------------------------------------------------------
(* Requests of the greeter.                                                *)

HasRunningAuth(u) == \E a \in auths : a.user = u /\ a.state = "running"
HasAuth(u) == \E a \in auths : a.user = u

(* Saved as soon as the password was accepted, whatever happens then.      *)
RememberedUser(u) == IF RememberLastUser THEN u ELSE NoUser
RememberedSession(kind) == IF RememberLastSession THEN kind ELSE "unset"
SaveLogin(u, kind) ==
  /\ activated' = u
  /\ stateConf' = [user |-> RememberedUser(u),
                   session |-> RememberedSession(kind)]

(* SocketServer::newConnection: the server listens while the display is    *)
(* started, and Treeland connects while it runs.                           *)
AcceptSocket(s) ==
  /\ started /\ treeland /\ s \notin sockets
  /\ sockets' = sockets \cup {s}
  /\ UNCHANGED <<object, servers, registry, saved, connectedOnce, auths,
                 nextSid, reply, grouped>>

(* Treeland stops or crashes; a connection may outlive StopUnit a little.  *)
SocketCloses(s) ==
  /\ s \in sockets
  /\ sockets' = sockets \ {s}
  /\ UNCHANGED <<object, servers, registry, saved, connectedOnce, auths,
                 nextSid, reply, grouped>>

(* Display::startAutologin, for the session configured or used last.  A    *)
(* session that cannot be loaded, or a refusal of PAM, keeps the greeter.  *)
(* The last one is remembered by its absolute file name, and any file that *)
(* can be read is a Wayland session when it is tried as one, which is what *)
(* is tried first (module DesktopSessions).                                *)
AutologinFile ==
  IF AutologinSession # "unset" THEN AutologinSession ELSE stateConf.session
AutologinKind ==
  IF AutologinSession = "unset" /\ stateConf.session = "x11" THEN "wayland"
  ELSE AutologinFile

AutologinRefused ==
  UNCHANGED <<servers, registry, saved, auths, nextSid, grouped>>

StartAutologin(ok) ==
  \/ ~ok /\ AutologinRefused
  \/ /\ AutologinFile # "unset"
     /\ SaveLogin(AutologinUser, AutologinFile)
     /\ StartUserSession(AutologinUser, AutologinKind, ok)

(* Display::connected: every auth in `auths' has an open session, so       *)
(* hasActiveUser is whether there is one.                                  *)
TriesAutologinAnyway == ~connectedOnce /\ AutologinUser # NoUser

TriesAutologin ==
  ~connectedOnce /\ auths = {} /\ AutologinUser # NoUser

Connected(s) ==
  /\ s \in sockets
  /\ connectedOnce' = TRUE
  /\ IF TriesAutologin
     THEN \E ok \in BOOLEAN :
            /\ StartAutologin(ok)
            /\ reply' = IF ok THEN "none" ELSE "ShowGreeter"
     ELSE /\ reply' = "ShowGreeter"
          /\ UNCHANGED <<servers, registry, saved, auths, nextSid, grouped>>
  /\ UNCHANGED <<object, sockets>>

(* Display::login.  A wrong password, or the user "dde", is refused; a     *)
(* user with an authenticated auth gets no answer at all.                  *)
LoginRefused(u) ==
  /\ ~HasAuth(u)
  /\ reply' = "LoginFailed"
  /\ UNCHANGED <<servers, registry, saved, auths, nextSid, grouped>>

LoginIgnored(u) ==
  /\ HasAuth(u)
  /\ reply' = "none"
  /\ UNCHANGED <<servers, registry, saved, auths, nextSid, grouped>>

LoginAuthenticatedSilent(u, kind, ok) ==
  /\ ~HasAuth(u)
  /\ SaveLogin(u, kind)
  /\ StartUserSession(u, kind, ok)
  /\ reply' = IF kind = "treeland" /\ ok THEN "UserActivate" ELSE "none"

LoginAuthenticated(u, kind, ok) ==
  /\ ~HasAuth(u)
  /\ SaveLogin(u, kind)
  /\ StartUserSession(u, kind, ok)
  /\ reply' = IF ~ok THEN "LoginFailed"
              ELSE IF kind = "treeland" THEN "UserActivate" ELSE "none"

Login(s, u) ==
  /\ s \in sockets
  /\ \/ LoginRefused(u)
     \/ LoginIgnored(u)
     \/ \E kind \in DesktopSessions, ok \in BOOLEAN :
          LoginAuthenticated(u, kind, ok)
  /\ UNCHANGED <<object, sockets, connectedOnce>>

(* Display::unlock checks the password with an Auth of its own, then shows *)
(* the user's session.                                                     *)
UnlockRefused == reply' = "LoginFailed" /\ UNCHANGED saved

UnlockAccepted(u) ==
  /\ activated' = u
  /\ stateConf' = [stateConf EXCEPT !.user = RememberedUser(u)]
  /\ reply' = IF ~HasAuth(u) THEN "LoginFailed"
              ELSE IF \E a \in auths : a.user = u /\ a.type = "treeland"
                   THEN "UserActivate" ELSE "none"

Unlock(s, u) ==
  /\ s \in sockets
  /\ UnlockRefused \/ UnlockAccepted(u)
  /\ UNCHANGED <<object, servers, registry, connectedOnce, sockets, auths,
                 nextSid, grouped>>

(* Display::logout only asks logind to terminate the session.              *)
LogoutDeletesAuth(s, a) ==
  /\ s \in sockets /\ a \in auths /\ a.state = "running"
  /\ auths' = auths \ {a}
  /\ UNCHANGED <<object, servers, registry, saved, connectedOnce, sockets,
                 nextSid, reply, grouped>>

Logout(s, a) ==
  /\ s \in sockets /\ a \in auths /\ a.state = "running"
  /\ auths' = (auths \ {a}) \cup {[a EXCEPT !.state = "terminating"]}
  /\ UNCHANGED <<object, servers, registry, saved, connectedOnce, sockets,
                 nextSid, reply, grouped>>

-----------------------------------------------------------------------------
(* Ends of sessions and X servers.                                         *)

(* The session ends: the user left, it crashed, or logind terminated it.   *)
(* That is, the last process that holds the pipe of openSession is gone.   *)
SessionExits(a) ==
  /\ a \in auths /\ a.state # "exited"
  /\ auths' = (auths \ {a}) \cup {[a EXCEPT !.state = "exited"]}
  /\ UNCHANGED <<object, servers, registry, saved, connectedOnce, sockets,
                 nextSid, reply, grouped>>

(* The handler of Auth::sessionFinished.  Neither Treeland nor the X       *)
(* server of the session is touched.                                       *)
GroupsDestroyedUntyped(a) == {g \in grouped : g.vt = a.tty}

GroupsDestroyed(a) ==
  IF a.type = "treeland" THEN {g \in grouped : g.vt = a.tty} ELSE {}

RemoveSessionForgotten(sid) == UNCHANGED sessions
RemoveSessionOfVt(sid) ==
  sessions' = {e \in sessions : \A f \in sessions : f.sid = sid => e.vt # f.vt}
RemoveSession(sid) == sessions' = {e \in sessions : e.sid # sid}

SessionFinished(a) ==
  /\ a \in auths /\ a.state = "exited"
  /\ auths' = auths \ {a}
  /\ RemoveSession(a.sid)
  /\ grouped' \in {grouped, grouped \ GroupsDestroyed(a)}
  /\ UNCHANGED <<object, servers, lastSession, saved, connectedOnce, sockets,
                 nextSid, reply>>

XServerExits(x) ==
  /\ x \in xservers /\ x.up /\ generation < MaxDisplays
  /\ xservers' = (xservers \ {x}) \cup {[x EXCEPT !.up = FALSE]}
  /\ UNCHANGED <<object, treeland, x11, registry, saved, connectedOnce,
                 sockets, auths, nextSid, reply, grouped>>

(* XorgDisplayServer::finished calls Display::stop, and displayStopped     *)
(* then replaces the Display.  stop() deletes the auths without            *)
(* RemoveSession or destroyGroupVt.  If m_x11Server is another server      *)
(* than the one that finished, stopping it calls stop() again before the   *)
(* first call is over: `stopped' is emitted twice, and the display created *)
(* by the first emission is removed by the second.                         *)
StoppedSignals(x) == IF x11 \in {NoSid, x.sid} THEN 1 ELSE 2

XServerFinished(x) ==
  /\ x \in xservers /\ ~x.up
  /\ generation' = generation + StoppedSignals(x)
  /\ \E vt \in GreeterVts, ok \in BOOLEAN :
       /\ ok => vt # NoVt
       /\ terminalId' = vt
       /\ started' = ok
       /\ treeland' = ok
       /\ failedStarts' = IF ok THEN 0 ELSE 1
  /\ connectedOnce' = FALSE /\ sockets' = {} /\ auths' = {}
  /\ x11' = NoSid /\ xservers' = {}
  /\ UNCHANGED <<registry, saved, nextSid, reply, grouped>>

-----------------------------------------------------------------------------
Next ==
  \/ RetryStart
  \/ \E s \in Sockets :
       \/ AcceptSocket(s)
       \/ SocketCloses(s)
       \/ Connected(s)
       \/ \E u \in Users : Login(s, u) \/ Unlock(s, u)
       \/ \E a \in auths : Logout(s, a)
  \/ \E a \in auths : SessionExits(a) \/ SessionFinished(a)
  \/ \E x \in xservers : XServerExits(x) \/ XServerFinished(x)

Spec == Init /\ [][Next]_vars

(***************************************************************************)
(* Fairness: the event loop delivers every timer, exit of a session leader *)
(* and exit of an X server, and logind ends a session it was told to end.  *)
(* Nothing says that a user leaves, or that an X server exits by itself.   *)
(***************************************************************************)
Terminating(sid) == \E a \in auths : a.sid = sid /\ a.state = "terminating"
Exited(sid) == \E a \in auths : a.sid = sid /\ a.state = "exited"

LogindTerminates(sid) ==
  \E a \in auths : a.sid = sid /\ a.state = "terminating" /\ SessionExits(a)
FinishSession(sid) == \E a \in auths : a.sid = sid /\ SessionFinished(a)
FinishXServer == \E x \in xservers : XServerFinished(x)

Fairness ==
  /\ WF_vars(RetryStart)
  /\ WF_vars(FinishXServer)
  /\ \A sid \in 0 .. MaxSid - 1 :
       WF_vars(LogindTerminates(sid)) /\ WF_vars(FinishSession(sid))

FairSpec == Spec /\ Fairness

-----------------------------------------------------------------------------
(* Properties.                                                             *)

TypeOK ==
  /\ started \in BOOLEAN /\ treeland \in BOOLEAN /\ connectedOnce \in BOOLEAN
  /\ terminalId \in VTs \cup {NoVt}
  /\ failedStarts \in 0 .. 3
  /\ x11 \in Nat \cup {NoSid}
  /\ sockets \subseteq Sockets
  /\ auths \subseteq AuthType
  /\ nextSid \in Nat
  /\ sessions \subseteq SessionEntry
  /\ lastSession \in Nat \cup {NoSid}
  /\ activated \in Users \cup {NoUser}
  /\ stateConf \in [user : Users \cup {NoUser},
                    session : DesktopSessions \cup {"unset"}]
  /\ reply \in {"none", "LoginFailed", "ShowGreeter", "UserActivate"}
  /\ xservers \subseteq XServer
  /\ grouped \subseteq GroupedVt
  /\ generation \in Nat

(* A user has at most one session, although autologin never looks for an   *)
(* Auth the user may already have (Display::login does).                   *)
OneSessionPerUser == \A a, b \in auths : a.user = b.user => a = b

(* Whatever session is open is registered on D-Bus under its own id, user  *)
(* and VT, once: no other session's end may take its entry away.           *)
RegistryCoversAuths ==
  \A a \in auths :
    {e \in sessions : e.sid = a.sid} = {[sid |-> a.sid, user |-> a.user, vt |-> a.tty]}

(* Until a display was replaced, D-Bus lists no session that is over.      *)
RegistryExact ==
  generation = 1 => {e.sid : e \in sessions} = {a.sid : a \in auths}

(* A VT that ddm's own scan picked is neither the greeter's nor that of an *)
(* older session that was not cleaned up yet, even when logind calls the   *)
(* VT free already.                                                        *)
ScannedVtExclusive ==
  \A a \in auths : a.scanned =>
    /\ a.tty # terminalId
    /\ \A b \in auths : b.sid < a.sid => b.tty # a.tty

(* Sessions that run are on different VTs.                                 *)
RunningSessionsApart ==
  \A a, b \in auths :
    a # b /\ a.state # "exited" /\ b.state # "exited" => a.tty # b.tty

(* The VT of a Treeland session stays grouped for as long as its auth      *)
(* lives: no cleanup of another session ungroups it.                       *)
LiveTreelandVtGrouped ==
  \A a \in auths :
    a.type = "treeland" => [sid |-> a.sid, vt |-> a.tty] \in grouped

(* Treeland and another display server never own the screen together: with *)
(* Treeland up there is no X server and no session on a VT of its own.     *)
ScreenHasOneOwner ==
  treeland => /\ xservers = {}
              /\ \A a \in auths : a.type = "treeland"

(* m_x11Server never points at a server that is gone.                      *)
X11PointerValid == x11 # NoSid => \E x \in xservers : x.sid = x11

(* When a VT becomes active, findUserByVt names the user whose session is  *)
(* on it; excepted are an ended session that awaits its handler, and what  *)
(* a replaced display left registered.                                     *)
VtLookupFindsOwner ==
  generation = 1 /\ (\A a \in auths : a.state # "exited")
    => \A a \in auths : FindUserByVt(a.tty) = a.user

(* What D-Bus lists, and what is looked up in it, is what is open.         *)
RegistryCorrect == RegistryCoversAuths /\ RegistryExact /\ VtLookupFindsOwner

(* No two sessions that run, nor a session and the greeter, nor a session  *)
(* and one whose end was not handled yet, are put on the same VT.          *)
VtsApart == ScannedVtExclusive /\ RunningSessionsApart

(* One display server owns the screen, and the daemon knows which X server *)
(* it runs.                                                                *)
ScreenCorrect == ScreenHasOneOwner /\ X11PointerValid

(* An attempt to start a session that used up an id and opened nothing is  *)
(* answered: with LoginFailed, or with the greeter instead of autologin.   *)
FailedStartAnswered ==
  [][nextSid' # nextSid /\ (\A a \in auths' : a.sid # nextSid)
       => reply' \in {"LoginFailed", "ShowGreeter"}]_vars

(* Sessions go away with their display, all at once, or one by one after   *)
(* their process exited: no request and no failing login ends another      *)
(* user's session.                                                         *)
SessionsEndInOrder ==
  [][\/ auths' = {} /\ generation' # generation
     \/ \A a \in auths : \/ \E b \in auths' : b.sid = a.sid
                         \/ a.state = "exited"]_vars

(* A session that was logged out is eventually cleaned up and, unless a    *)
(* display was replaced, no longer listed.                                 *)
LogoutCompletes ==
  \A sid \in 0 .. MaxSid - 1 :
    Terminating(sid) ~>
      /\ \A a \in auths : a.sid # sid
      /\ generation = 1 => \A e \in sessions : e.sid # sid

(* The exit of an X server brings the greeter back, unless three attempts  *)
(* to start it fail.                                                       *)
XServerExitRestartsGreeter ==
  (\E x \in xservers : ~x.up) ~> (treeland \/ failedStarts = 3)

-----------------------------------------------------------------------------
(* What the display promises: sessions open one per user, under ids that   *)
(* are never used again, and close.                                        *)
Promise == INSTANCE UserSessions WITH
  open <- {[sid |-> a.sid, user |-> a.user] : a \in auths},
  next <- nextSid

PromiseSpec == Promise!Spec
=============================================================================
