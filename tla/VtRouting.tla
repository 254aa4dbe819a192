------------------------------ MODULE VtRouting ------------------------------
(***************************************************************************)
(* How the daemon follows the active virtual terminal and tells Treeland   *)
(* what to show: DdeSeatdControl.cpp, SeatManager::handleVtChanged and     *)
(* TreelandConnector.cpp in src/src/daemon.                                *)
(*                                                                         *)
(* dde-seatd is another process.  It writes each VT change to the event    *)
(* socket as a header and a payload, and answers requests, each on a       *)
(* connection of its own.  The daemon is one thread that waits for every   *)
(* answer, three seconds at most: events pile up in the event socket while *)
(* it waits.  Logging in groups a VT, connects the event socket if need    *)
(* be, switches and registers the session.  Sessions come and go as in     *)
(* Display, which also models what their start does besides; there is one  *)
(* display at a time here, which is replaced when its X server ends.       *)
(*                                                                         *)
(* m_pendingVt is left out: nothing the program does depends on it.        *)
(* Operators before another one with its parameters that no definition     *)
(* uses are wrong versions of it, as in Display.                           *)
(***************************************************************************)
EXTENDS Naturals, Sequences, FiniteSets

CONSTANTS
  Users,        \* users that log in; "dde", the greeter's user, is not one
  Vts,          \* the virtual terminals
  GreeterVt,    \* Display::terminalId
  NoVt,         \* no VT, 0 in the code
  MaxSwitches,  \* bound: VT changes
  MaxStops,     \* bound: times dde-seatd stops
  MaxLate       \* bound: requests given up on that dde-seatd has yet to handle

ASSUME VtsAssumption == GreeterVt \in Vts /\ NoVt \notin Vts
ASSUME UsersAssumption == "dde" \notin Users /\ "nothing" \notin Users
ASSUME BoundsAssumption == MaxSwitches \in Nat /\ MaxStops \in Nat /\ MaxLate \in Nat

VARIABLES
  \* dde-seatd.
  running,      \* it runs
  active,       \* the active VT
  grouped,      \* the VTs it has grouped with Treeland
  destroying,   \* VTs of destroy requests it has not handled
  late,         \* requests for a group the daemon gave up on, not handled
  switches,     \* VT changes so far
  stops,        \* times it stopped
  \* The event socket: units that are written and not read.
  wire,
  closed,       \* dde-seatd's end is closed
  \* DdeSeatdControl.
  open,         \* m_eventSocket is connected
  buffer,       \* m_eventBuffer
  cachedVt,     \* m_activeVt
  \* The call in progress: "connect" and "query" are inside
  \* connectEventSocket, "open" before openSession, "idle" the event loop.
  pc,
  login,        \* the user and VT the call is for, or NoLogin
  \* Display, DisplayManager and TreelandConnector.
  auths,        \* user |-> its session in Display::auths, or NoAuth
  registry,     \* DisplayManager::m_sessions, those of sessions in auths
  stale,        \* VT |-> the user of its first entry left by a display
                \* that was replaced, or "dde"
  xServer,      \* m_x11Server runs
  connected,    \* m_ddm is set
  told,         \* the last command to Treeland on this connection
  \* History: the VT of the last event handled while Treeland was connected
  \* and since the event socket was.
  heard,
  \* History: grouped VTs that an answer that came too late or a display
  \* that was replaced has left behind.
  leaked

groups == <<grouped, destroying, late, leaked>>
seatd == <<running, active, groups, switches, stops>>
socket == <<wire, closed, open, buffer>>
call == <<pc, login>>
sessions == <<auths, registry, stale, xServer>>
treeland == <<connected, told, heard>>
vars == <<seatd, socket, cachedVt, call, sessions, treeland>>

NoAuth == [vt |-> NoVt, treeland |-> FALSE]
NoLogin == [user |-> "nothing", vt |-> NoVt]

Header == [type |-> "header", old |-> NoVt, new |-> NoVt]
Payload(o, n) == [type |-> "payload", old |-> o, new |-> n]
Unit == {Header} \cup {Payload(o, n) : o \in Vts, n \in Vts}

Sent(units) == IF open /\ ~closed THEN wire \o units ELSE wire

Init ==
  /\ running \in BOOLEAN /\ active \in Vts
  /\ grouped = {} /\ destroying = {} /\ late = 0 /\ leaked = {}
  /\ switches = 0 /\ stops = 0
  /\ wire = <<>> /\ closed = FALSE
  /\ open = FALSE /\ buffer = <<>> /\ cachedVt = NoVt
  /\ pc = "connect" /\ login = NoLogin
  /\ auths = [u \in Users |-> NoAuth] /\ registry = {}
  /\ stale = [v \in Vts |-> "dde"] /\ xServer = FALSE
  /\ connected = FALSE /\ told = "nothing" /\ heard = NoVt

-----------------------------------------------------------------------------
(* dde-seatd.                                                              *)

\* The active VT becomes v, and the event is written.
Switched(v) ==
  /\ running /\ switches < MaxSwitches
  /\ IF v = active
       THEN UNCHANGED <<active, switches, wire>>
       ELSE /\ active' = v /\ switches' = switches + 1
            /\ wire' = Sent(<<Header, Payload(active, v)>>)

\* Somebody presses a key, or logind activates a session.
SwitchVt(v) ==
  /\ v # active /\ Switched(v)
  /\ UNCHANGED <<running, groups, stops, closed, open, buffer, cachedVt, call,
                 sessions, treeland>>

GroupDestroyed(v) ==
  /\ running /\ v \in destroying
  /\ destroying' = destroying \ {v} /\ grouped' = grouped \ {v}
  /\ leaked' = leaked \ {v}
  /\ UNCHANGED <<running, active, late, switches, stops, socket, cachedVt, call,
                 sessions, treeland>>

\* VTs dde-seatd may choose for a group.
SeatdFreeVts == Vts \ ({GreeterVt, active} \cup grouped \cup
                       {auths[u].vt : u \in Users})

\* A request the daemon does not wait for any more: nobody reads the answer,
\* so nobody knows the VT.
GroupCreatedLate ==
  /\ running /\ late > 0 /\ late' = late - 1
  /\ \E v \in SeatdFreeVts :
       grouped' = grouped \cup {v} /\ leaked' = leaked \cup {v}
  /\ UNCHANGED <<running, active, destroying, switches, stops, socket, cachedVt,
                 call, sessions, treeland>>

\* dde-seatd stops, maybe in the middle of an event; its groups go with it.
SeatdStops ==
  /\ running /\ stops < MaxStops
  /\ running' = FALSE /\ stops' = stops + 1
  /\ grouped' = {} /\ destroying' = {} /\ late' = 0 /\ leaked' = {}
  /\ closed' = open
  /\ wire' \in {wire, Sent(<<Header>>)}
  /\ UNCHANGED <<active, switches, open, buffer, cachedVt, call, sessions,
                 treeland>>

SeatdStarts ==
  /\ ~running /\ running' = TRUE
  /\ active' \in Vts
  /\ UNCHANGED <<groups, switches, stops, socket, cachedVt, call, sessions,
                 treeland>>

-----------------------------------------------------------------------------
(* Which of its VTs Treeland shows what on.                                *)

IsVtRunningTreeland(v) ==
  v = GreeterVt \/ \E u \in Users : auths[u] = [vt |-> v, treeland |-> TRUE]

\* findUserByVt: the first entry counts; the greeter's user stands in for a
\* user it does not find.
FindUserByVt(v) ==
  LET found == {s \in registry : s.vt = v} IN
  CASE stale[v] # "dde" -> stale[v]
    [] stale[v] = "dde" /\ found # {} -> (CHOOSE s \in found : TRUE).user
    [] OTHER -> "dde"

\* What handleVtChanged tells Treeland of VT v; NoVt stands for no command.
Route(v) ==
  CASE ~IsVtRunningTreeland(v) -> "nothing"
    [] v = GreeterVt \/ FindUserByVt(v) = "dde" -> "dde"
    [] OTHER -> FindUserByVt(v)

\* A Treeland that is not connected is told nothing.
Routed(events) ==
  LET commands == {i \in DOMAIN events : Route(events[i].new) # "nothing"}
      last == CHOOSE i \in commands : \A j \in commands : j <= i IN
  /\ told' = IF connected /\ commands # {} THEN Route(events[last].new)
                                           ELSE told
  /\ heard' = IF connected /\ events # <<>> THEN events[Len(events)].new
                                            ELSE heard

-----------------------------------------------------------------------------
(* The event socket.                                                       *)

\* How many of the buffered messages one readyRead handles, and what is
\* left: a message that is not whole waits for the rest.
HandledFirst(units) == IF Len(units) >= 2 THEN 1 ELSE 0
Handled(units) == Len(units) \div 2

Event(units, i) == units[2 * i]

HandleEventSocket ==
  /\ pc = "idle" /\ open /\ wire # <<>>
  /\ \E k \in 1..Len(wire) :
       LET units == buffer \o SubSeq(wire, 1, k)
           n == Handled(units)
           events == [i \in 1..n |-> Event(units, i)] IN
       /\ wire' = SubSeq(wire, k + 1, Len(wire))
       /\ buffer' = SubSeq(units, 2 * n + 1, Len(units))
       /\ cachedVt' = IF n = 0 THEN cachedVt ELSE events[n].new
       /\ Routed(events)
  /\ UNCHANGED <<seatd, closed, open, call, sessions, connected>>

DisconnectedKeepingBuffer ==
  /\ open' = FALSE /\ closed' = FALSE /\ wire' = <<>> /\ UNCHANGED buffer
  /\ cachedVt' = NoVt /\ heard' = NoVt
Disconnected ==
  /\ open' = FALSE /\ closed' = FALSE /\ wire' = <<>> /\ buffer' = <<>>
  /\ cachedVt' = NoVt /\ heard' = NoVt

\* The socket reports that it is closed once it was read to its end.
EventSocketCloses ==
  /\ pc = "idle" /\ open /\ closed /\ wire = <<>>
  /\ Disconnected
  /\ UNCHANGED <<seatd, call, sessions, connected, told>>

-----------------------------------------------------------------------------
(* connectEventSocket, at startup and for a login.                         *)

\* A login that gets no event socket gives its VT back; the daemon goes on.
AbandonedGrouped == pc' = "idle" /\ login' = NoLogin /\ UNCHANGED destroying
AbandonedUnchecked ==
  /\ pc' = "idle" /\ login' = NoLogin
  /\ destroying' = IF running THEN destroying \cup {login.vt} ELSE destroying
Abandoned ==
  /\ pc' = "idle" /\ login' = NoLogin
  /\ destroying' = IF running /\ login.vt # NoVt
                     THEN destroying \cup {login.vt} ELSE destroying

CallConnected ==
  /\ pc' = IF login = NoLogin THEN "idle" ELSE "open"
  /\ UNCHANGED login

AlreadyConnected ==
  /\ pc = "connect" /\ open
  /\ CallConnected
  /\ UNCHANGED <<seatd, socket, cachedVt, sessions, treeland>>

\* dde-seatd is down, or does not answer within three seconds.
ConnectFails ==
  /\ pc = "connect" /\ ~open
  /\ Disconnected /\ Abandoned
  /\ UNCHANGED <<running, active, grouped, late, leaked, switches, stops,
                 sessions, connected, told>>

EventSocketConnects ==
  /\ pc = "connect" /\ ~open /\ running
  /\ open' = TRUE /\ pc' = "query"
  /\ UNCHANGED <<seatd, wire, closed, buffer, cachedVt, login, sessions,
                 treeland>>

QueryActiveVt ==
  /\ pc = "query" /\ running
  /\ cachedVt' = active /\ CallConnected
  /\ UNCHANGED <<seatd, socket, sessions, treeland>>

QueryFails ==
  /\ pc = "query"
  /\ Disconnected /\ Abandoned
  /\ UNCHANGED <<running, active, grouped, late, leaked, switches, stops,
                 sessions, connected, told>>

-----------------------------------------------------------------------------
(* Sessions.                                                               *)

\* createGroupVt: dde-seatd groups a VT of its choice.
CreateGroupVt(u) ==
  /\ pc = "idle" /\ running /\ auths[u] = NoAuth
  /\ \E v \in SeatdFreeVts :
       /\ grouped' = grouped \cup {v}
       /\ login' = [user |-> u, vt |-> v]
  /\ pc' = "connect"
  /\ UNCHANGED <<running, active, destroying, late, leaked, switches, stops,
                 socket, cachedVt, sessions, treeland>>

\* The answer does not come within three seconds, or not whole: the login
\* fails, and no destroy request is sent, whatever becomes of the request.
CreateGroupVtUnanswered ==
  /\ pc = "idle" /\ running /\ \E u \in Users : auths[u] = NoAuth
  /\ late < MaxLate /\ late' = late + 1
  /\ UNCHANGED <<running, active, grouped, destroying, leaked, switches, stops,
                 socket, cachedVt, call, sessions, treeland>>

Registered(u, v, t) ==
  /\ auths' = [auths EXCEPT ![u] = [vt |-> v, treeland |-> t]]
  /\ registry' = registry \cup {[user |-> u, vt |-> v]}

TreelandSessionOpens ==
  /\ pc = "open" /\ Switched(login.vt)
  /\ Registered(login.user, login.vt, TRUE)
  /\ pc' = "idle" /\ login' = NoLogin
  /\ UNCHANGED <<running, groups, stops, closed, open, buffer, cachedVt, stale,
                 xServer, treeland>>

\* openSession may fail before or after the switch.
TreelandSessionFails ==
  /\ pc = "open"
  /\ Switched(login.vt) \/ UNCHANGED <<active, switches, wire>>
  /\ Abandoned
  /\ UNCHANGED <<running, grouped, late, leaked, stops, closed, open, buffer,
                 cachedVt, sessions, treeland>>

Unconnected == connected' = FALSE /\ told' = "nothing" /\ heard' = NoVt

\* VTs the daemon's own scan may choose, for a session that is not
\* Treeland's: also the active one, or one that is still grouped.
UserVts == Vts \ ({GreeterVt} \cup {auths[u].vt : u \in Users})

\* A session on a VT of its own: Treeland is stopped first, and an X server
\* started if the session is an X11 one.
OwnVtSessionOpens(u) ==
  /\ pc = "idle" /\ auths[u] = NoAuth
  /\ \E v \in UserVts : Switched(v) /\ Registered(u, v, FALSE)
  /\ Unconnected /\ xServer' \in {xServer, TRUE}
  /\ UNCHANGED <<running, groups, stops, closed, open, buffer, cachedVt, call,
                 stale>>

\* It may fail then, before or after the switch; its X server runs on.
OwnVtSessionFails ==
  /\ pc = "idle" /\ \E u \in Users : auths[u] = NoAuth
  /\ (\E v \in UserVts : Switched(v)) \/ UNCHANGED <<active, switches, wire>>
  /\ Unconnected /\ xServer' \in {xServer, TRUE}
  /\ UNCHANGED <<running, groups, stops, closed, open, buffer, cachedVt, call,
                 auths, registry, stale>>

UnregisteredNone(u) == UNCHANGED registry
Unregistered(u) == registry' = {s \in registry : s.user # u}

SessionFinishedUngroupingNone(u) ==
  /\ pc = "idle" /\ auths[u] # NoAuth
  /\ auths' = [auths EXCEPT ![u] = NoAuth] /\ Unregistered(u)
  /\ UNCHANGED <<seatd, socket, cachedVt, call, stale, xServer, treeland>>
SessionFinishedUngroupingAny(u) ==
  /\ pc = "idle" /\ auths[u] # NoAuth
  /\ auths' = [auths EXCEPT ![u] = NoAuth] /\ Unregistered(u)
  /\ destroying' = IF running THEN destroying \cup {auths[u].vt}
                              ELSE destroying
  /\ UNCHANGED <<running, active, grouped, late, leaked, switches, stops,
                 socket, cachedVt, call, stale, xServer, treeland>>
SessionFinished(u) ==
  /\ pc = "idle" /\ auths[u] # NoAuth
  /\ auths' = [auths EXCEPT ![u] = NoAuth] /\ Unregistered(u)
  /\ destroying' = IF auths[u].treeland /\ running
                     THEN destroying \cup {auths[u].vt} ELSE destroying
  /\ UNCHANGED <<running, active, grouped, late, leaked, switches, stops,
                 socket, cachedVt, call, stale, xServer, treeland>>

\* The first entry of each VT that the display leaves behind.
StaleEntries ==
  [v \in Vts |-> IF stale[v] # "dde" \/ \A u \in Users : auths[u].vt # v
                   THEN stale[v] ELSE CHOOSE u \in Users : auths[u].vt = v]

\* The X server ends: Display::stop deletes every Auth, without a destroy
\* request and without a RemoveSession, and the display that comes next
\* switches to the greeter, if dde-seatd lets it.
DisplayReplaced ==
  /\ pc = "idle" /\ xServer /\ xServer' = FALSE
  /\ auths' = [u \in Users |-> NoAuth] /\ registry' = {} /\ stale' = StaleEntries
  /\ leaked' = leaked \cup {v \in grouped :
                   \E u \in Users : auths[u] = [vt |-> v, treeland |-> TRUE]}
  /\ Switched(GreeterVt) \/ UNCHANGED <<active, switches, wire>>
  /\ UNCHANGED <<running, grouped, destroying, late, stops, closed, open, buffer,
                 cachedVt, call, treeland>>

-----------------------------------------------------------------------------
(* TreelandConnector.                                                      *)

\* The greeter's Connect message names Treeland's Wayland socket.
TreelandConnects ==
  /\ pc = "idle" /\ connected' = TRUE
  /\ told' = "nothing" /\ heard' = NoVt
  /\ UNCHANGED <<seatd, socket, cachedVt, call, sessions>>

TreelandLost ==
  /\ pc = "idle" /\ connected
  /\ Unconnected
  /\ UNCHANGED <<seatd, socket, cachedVt, call, sessions>>

-----------------------------------------------------------------------------
Next ==
  \/ \E v \in Vts : SwitchVt(v) \/ GroupDestroyed(v)
  \/ SeatdStops \/ SeatdStarts \/ GroupCreatedLate
  \/ HandleEventSocket \/ EventSocketCloses
  \/ AlreadyConnected \/ ConnectFails \/ EventSocketConnects
  \/ QueryActiveVt \/ QueryFails
  \/ TreelandSessionOpens \/ TreelandSessionFails
  \/ \E u \in Users : \/ CreateGroupVt(u) \/ OwnVtSessionOpens(u)
                      \/ SessionFinished(u)
  \/ CreateGroupVtUnanswered \/ OwnVtSessionFails \/ DisplayReplaced
  \/ TreelandConnects \/ TreelandLost

Spec == Init /\ [][Next]_vars

-----------------------------------------------------------------------------
(* Properties.                                                             *)

\* Every variable keeps its type: no VT number of the daemon comes from
\* anything but a whole event.
TypeOK ==
  /\ running \in BOOLEAN /\ active \in Vts
  /\ grouped \subseteq Vts /\ destroying \subseteq Vts /\ leaked \subseteq Vts
  /\ late \in 0..MaxLate
  /\ switches \in 0..MaxSwitches /\ stops \in 0..MaxStops
  /\ wire \in Seq(Unit) /\ buffer \in Seq(Unit)
  /\ closed \in BOOLEAN /\ open \in BOOLEAN
  /\ cachedVt \in Vts \cup {NoVt}
  /\ pc \in {"connect", "query", "open", "idle"}
  /\ login \in [user : Users, vt : Vts] \cup {NoLogin}
  /\ auths \in [Users -> [vt : Vts, treeland : BOOLEAN] \cup {NoAuth}]
  /\ registry \subseteq [user : Users, vt : Vts]
  /\ stale \in [Vts -> Users \cup {"dde"}] /\ xServer \in BOOLEAN
  /\ connected \in BOOLEAN /\ told \in Users \cup {"dde", "nothing"}
  /\ heard \in Vts \cup {NoVt}

\* Whatever pieces the event socket delivers, and wherever dde-seatd stopped
\* in the middle of one, the daemon's buffer and the units to come are whole
\* events, headers and payloads in turn (handleEventSocket and
\* disconnectEventSocket, DdeSeatdControl.cpp).
StreamInStep ==
  LET units == buffer \o wire IN
  \A i \in DOMAIN units : (units[i] = Header) <=> (i % 2 = 1)

\* While the event socket is up and nothing is left to read, m_activeVt is
\* the VT that is active: no change is lost between connecting the socket
\* and asking for the VT, nor by reading several events at once.
CachedVtExact ==
  pc = "idle" /\ open /\ ~closed /\ wire = <<>> => cachedVt = active

\* What the daemon makes of the event socket's bytes is the active VT.
ActiveVtFollowed == StreamInStep /\ CachedVtExact

\* A Treeland that heard of the last VT change shows the owner of the VT:
\* the greeter on the greeter's, a user on that user's Treeland session,
\* with logins and logouts between the change and its handling.  On a VT with
\* an entry that a replaced display left behind it shows that entry's user
\* (findUserByVt, DisplayManager.cpp:215).
TreelandShowsOwner ==
  pc = "idle" /\ open /\ ~closed /\ wire = <<>> /\ connected /\ heard # NoVt =>
    /\ heard = active
    /\ active = GreeterVt => told = "dde"
    /\ \A u \in Users :
         auths[u] = [vt |-> active, treeland |-> TRUE] =>
           told = IF stale[active] = "dde" THEN u ELSE stale[active]

\* A VT stays grouped with Treeland only while a Treeland session, a login
\* in progress or a destroy request owns it: no failure of connecting the
\* event socket or opening the session leaks one.  Two things do leak one,
\* until dde-seatd stops: an answer of dde-seatd that the daemon did not wait
\* for (readControlResponse, DdeSeatdControl.cpp:161, 346), and a display that
\* is replaced while Treeland sessions run (Display::stop, Display.cpp:211).
GroupLeaksKnown ==
  \A v \in grouped :
    \/ v \in destroying \/ v = login.vt \/ v \in leaked
    \/ \E u \in Users : auths[u] = [vt |-> v, treeland |-> TRUE]

\* While dde-seatd runs on, the VT of a Treeland session stays grouped and
\* no destroy request for it is under way: dde-seatd handles those requests
\* when it likes, and the VT may have a new session by then (destroyGroupVt
\* does not wait for an answer).
SessionsStayGrouped ==
  stops = 0 => \A u \in Users :
    auths[u].treeland => auths[u].vt \in grouped \ destroying

\* A VT is grouped with Treeland for as long as a session needs it, and no
\* longer but for the two known leaks.
GroupsFollowSessions == GroupLeaksKnown /\ SessionsStayGrouped
==============================================================================
