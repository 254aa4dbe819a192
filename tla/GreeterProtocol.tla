---------------------------- MODULE GreeterProtocol ----------------------------
(***************************************************************************)
(* The daemon's side of the connections greeters open to it: SocketServer, *)
(* the list of greeters in TreelandDisplayServer, what Display answers to  *)
(* each request, and the PowerManager behind the power requests, all in    *)
(* src/src/daemon.                                                         *)
(*                                                                         *)
(* A greeter is another process: it writes requests at any time, and may   *)
(* close its end at any time.  Qt reads what has arrived and calls         *)
(* readyRead, which handles one request after the other; nothing else of   *)
(* the daemon runs meanwhile.  A write to a connection whose peer is gone  *)
(* fails, and Qt then closes the socket and emits `disconnected' before    *)
(* the write returns: in the middle of the handler.                        *)
(*                                                                         *)
(* Requests are small and written by one call each, so they arrive whole.  *)
(* Autologin is off; Display models it, and sessions in full.  Operators   *)
(* before another one with its parameters that no definition uses are      *)
(* wrong versions of it, as in Display.                                    *)
(***************************************************************************)
EXTENDS Naturals, Sequences, FiniteSets

CONSTANTS
  Greeters,       \* connections greeters open, each used once
  NoGreeter,
  Users,          \* users that log in
  Backends,       \* PowerManager::m_backends: a sequence of names
  RequestTypes,   \* the requests greeters write
  Ops,            \* the power requests and capabilities in play
  MaxRequests,    \* bound: requests of all greeters
  MaxSessions     \* bound: sessions

BackendNames == {"logind", "ConsoleKit", "UPower"}
Registered == {Backends[i] : i \in 1 .. Len(Backends)}

ASSUME GreetersAssumption == IsFiniteSet(Greeters) /\ NoGreeter \notin Greeters
ASSUME BackendsAssumption ==
  /\ Backends \in Seq(BackendNames)
  /\ \A i, j \in 1 .. Len(Backends) : Backends[i] = Backends[j] => i = j
ASSUME OpsAssumption ==
  Ops \subseteq {"PowerOff", "Reboot", "Suspend", "Hibernate", "HybridSleep"}
ASSUME RequestsAssumption ==
  RequestTypes \subseteq {"Connect", "Login", "Unlock", "Power", "Other"}
ASSUME BoundsAssumption == MaxRequests \in Nat /\ MaxSessions \in Nat

VARIABLES
  \* The greeters.
  peer,       \* their end of each connection
  sent,       \* how many requests they have written
  \* The connections.
  wire,       \* requests written and not read by Qt
  link,       \* the daemon's QLocalSocket of each
  buffer,     \* requests Qt has read and readyRead has not
  reading,    \* the connection whose readyRead runs, or NoGreeter
  server,     \* m_server: "up", "stopped" until Qt deletes it, "deleted"
  listed,     \* how often m_greeterSockets holds each connection
  \* The display and the power backends.
  sessions,   \* open sessions of Display::auths
  nextId,     \* logind's next session id
  can,        \* what each backend says it can do
  down,       \* the daemon crashed
  \* History.
  connects,   \* Connect requests handled, per connection
  late,       \* connections that broke before their Connect was answered
  told,       \* ids of the sessions each greeter was told of
  promised,   \* capabilities announced to each and not changed since
  lastPower   \* the backends the request handled last was given to

far == <<peer, sent>>
socket == <<wire, link, buffer>>
greeterList == <<listed, connects, late, told>>
power == <<can, promised, lastPower>>
vars == <<far, socket, reading, server, greeterList, sessions, nextId, power, down>>

Request ==
  [type : RequestTypes \cap {"Connect", "Other"}] \cup
  [type : RequestTypes \cap {"Login", "Unlock"}, user : Users] \cup
  [type : RequestTypes \cap {"Power"}, op : Ops]

NoPower == [by |-> {}, promised |-> FALSE]

Session == [id : Nat, user : Users, type : {"treeland", "other"}]

(* What a backend may answer: UPower always offers to power off and to     *)
(* reboot, and never a hybrid sleep.                                       *)
Capabilities(b) ==
  IF b = "UPower"
  THEN {S \in SUBSET (Ops \ {"HybridSleep"}) : Ops \cap {"PowerOff", "Reboot"} \subseteq S}
  ELSE SUBSET Ops

Init ==
  /\ peer = [g \in Greeters |-> "absent"] /\ sent = 0
  /\ wire = [g \in Greeters |-> <<>>] /\ buffer = [g \in Greeters |-> <<>>]
  /\ link = [g \in Greeters |-> "none"] /\ reading = NoGreeter /\ server = "up"
  /\ listed = [g \in Greeters |-> 0] /\ connects = [g \in Greeters |-> 0]
  /\ late = {} /\ told = [g \in Greeters |-> {}]
  /\ sessions = {} /\ nextId = 1 /\ down = FALSE
  /\ can \in {c \in [Registered -> SUBSET Ops] :
                \A b \in Registered : c[b] \in Capabilities(b)}
  /\ promised = [g \in Greeters |-> {}]
  /\ lastPower = NoPower

-----------------------------------------------------------------------------
(* The greeters.                                                           *)

GreeterConnects(g) ==
  /\ server = "up" /\ peer[g] = "absent"
  /\ peer' = [peer EXCEPT ![g] = "open"]
  /\ UNCHANGED <<sent, socket, reading, server, greeterList, sessions, nextId,
                 power, down>>

GreeterSends(g, r) ==
  /\ peer[g] = "open" /\ link[g] # "gone" /\ sent < MaxRequests
  /\ sent' = sent + 1
  /\ wire' = [wire EXCEPT ![g] = Append(@, r)]
  /\ UNCHANGED <<peer, link, buffer, reading, server, greeterList, sessions,
                 nextId, power, down>>

GreeterCloses(g) ==
  /\ peer[g] = "open"
  /\ peer' = [peer EXCEPT ![g] = "closed"]
  /\ UNCHANGED <<sent, socket, reading, server, greeterList, sessions, nextId,
                 power, down>>

-----------------------------------------------------------------------------
(* Connections.                                                            *)

(* SocketServer::newConnection.  Between stop() and the deletion of the    *)
(* QLocalServer, the slot uses m_server when it is already null.           *)
NewConnection(g) ==
  /\ ~down /\ reading = NoGreeter /\ peer[g] # "absent" /\ link[g] = "none"
  /\ server # "deleted"
  /\ IF server = "up"
     THEN link' = [link EXCEPT ![g] = "up"] /\ UNCHANGED down
     ELSE down' = TRUE /\ UNCHANGED link
  /\ UNCHANGED <<far, wire, buffer, reading, server, greeterList, sessions,
                 nextId, power>>

(* Qt reads some or all of what arrived and emits readyRead.               *)
ReadyRead(g) ==
  /\ ~down /\ reading = NoGreeter /\ link[g] = "up" /\ wire[g] # <<>>
  /\ \E n \in 1 .. Len(wire[g]) :
       /\ buffer' = [buffer EXCEPT ![g] = @ \o SubSeq(wire[g], 1, n)]
       /\ wire' = [wire EXCEPT ![g] = SubSeq(@, n + 1, Len(@))]
  /\ reading' = g
  /\ UNCHANGED <<far, link, server, greeterList, sessions, nextId, power, down>>

(* The sockets in S break: what they hold is lost, and the slot of         *)
(* `disconnected' takes each out of m_greeterSockets once.                 *)
Forgotten(n) == n
RemoveOne(n) == IF n = 0 THEN 0 ELSE n - 1

Broken(S) == {g \in S : link[g] = "up" /\ peer[g] = "closed"}

Disconnected(S) ==
  /\ link' = [g \in Greeters |-> IF g \in S THEN "gone" ELSE link[g]]
  /\ wire' = [g \in Greeters |-> IF g \in S THEN <<>> ELSE wire[g]]
  /\ listed' = [g \in Greeters |->
                  IF g \in S THEN RemoveOne(listed[g]) ELSE listed[g]]

(* The end of a connection the daemon did not write to: after its data.    *)
ConnectionCloses(g) ==
  /\ ~down /\ reading = NoGreeter
  /\ g \in Broken({g}) /\ wire[g] = <<>>
  /\ Disconnected({g})
  /\ buffer' = [buffer EXCEPT ![g] = <<>>]
  /\ UNCHANGED <<far, reading, server, connects, late, told, sessions, nextId,
                 power, down>>

-----------------------------------------------------------------------------
(* readyRead: the loop over the requests that were read.                   *)

NextRequest == Head(buffer[reading])

(* The head is handled, and the loop goes on while there are requests; a   *)
(* socket that broke has none.                                             *)
RemainingAlways(S) == Tail(buffer[reading])
Remaining(S) ==
  IF reading \in S THEN <<>> ELSE Tail(buffer[reading])
ConsumeOnce(S) ==
  /\ buffer' = [g \in Greeters |->
                  IF g = reading THEN Remaining(S)
                  ELSE IF g \in S THEN <<>> ELSE buffer[g]]
  /\ reading' = NoGreeter
Consume(S) ==
  /\ buffer' = [g \in Greeters |->
                  IF g = reading THEN Remaining(S)
                  ELSE IF g \in S THEN <<>> ELSE buffer[g]]
  /\ reading' = IF Remaining(S) = <<>> THEN NoGreeter ELSE reading

(* One answer to the greeter that asked.                                   *)
Answer ==
  LET broken == Broken({reading})
  IN  Disconnected(broken) /\ Consume(broken)

(* TreelandDisplayServer::activateUser writes to all listed greeters.  A   *)
(* write that fails takes its greeter out of the list the loop goes over,  *)
(* which may skip others in a list longer than two greeters make it.       *)
(* An entry whose socket was deleted is a dangling pointer: what happens   *)
(* then is open, and a crash is one outcome.                               *)
Listed == {g \in Greeters : listed[g] > 0}
Dangling == {g \in Listed : link[g] = "gone"}

Reached ==
  LET live == {g \in Listed : link[g] = "up" /\ peer[g] # "closed"}
  IN  IF Broken(Listed) = {} \/ Cardinality(Greeters) <= 2
      THEN {live} ELSE SUBSET live

ToldOf(S, ids) == told' = [g \in Greeters |-> IF g \in S THEN told[g] \cup ids ELSE told[g]]

Activate(ids) ==
  /\ \E S \in Reached : ToldOf(S, ids)
  /\ Disconnected(Broken(Listed))
  /\ down' \in IF Dangling = {} THEN {FALSE} ELSE BOOLEAN

ActivateInAnswer(ids) == Activate(ids) /\ Consume(Broken(Listed))

(* Connect: the capabilities and the host name are sent; then the signal   *)
(* `connected' lists the greeter and makes Display send the open sessions  *)
(* and ShowGreeter.  If the first write fails, the greeter is taken out of *)
(* the list before it is put there.                                        *)
Announced == UNION {can[b] : b \in Registered}

ReplayedOnce ==
  {s.id : s \in {t \in sessions : \A g \in Greeters : connects[g] = 0}}
Replayed == {s.id : s \in sessions}

HandleConnect ==
  LET broken == Broken({reading})
  IN  /\ connects' = [connects EXCEPT ![reading] = @ + 1]
      /\ link' = [g \in Greeters |-> IF g \in broken THEN "gone" ELSE link[g]]
      /\ wire' = [g \in Greeters |-> IF g \in broken THEN <<>> ELSE wire[g]]
      /\ listed' = [listed EXCEPT ![reading] =
                      IF broken = {} THEN @ + 1 ELSE RemoveOne(@) + 1]
      /\ late' = late \cup broken
      /\ IF broken = {}
         THEN /\ ToldOf({reading}, Replayed)
              /\ promised' = [promised EXCEPT ![reading] = Announced]
         ELSE UNCHANGED <<told, promised>>
      /\ Consume(broken)
      /\ UNCHANGED <<sessions, nextId, can, down>>

(* Login: Display::login refuses it, drops it because the user's Auth      *)
(* exists, or opens a session, and has Treeland activate one of its own.   *)
HasSession(u) == \E s \in sessions : s.user = u

HandleLogin(u) ==
  /\ \/ ~HasSession(u) /\ Answer /\ UNCHANGED <<told, sessions, nextId, down>>
     \/ HasSession(u) /\ Consume({})
        /\ UNCHANGED <<wire, link, listed, told, sessions, nextId, down>>
     \/ \E type \in {"treeland", "other"} :
          /\ ~HasSession(u) /\ nextId <= MaxSessions
          /\ sessions' = sessions \cup {[id |-> nextId, user |-> u, type |-> type]}
          /\ nextId' = nextId + 1
          /\ IF type = "treeland" THEN ActivateInAnswer({nextId})
             ELSE Consume({}) /\ UNCHANGED <<wire, link, listed, told, down>>
  /\ UNCHANGED <<connects, late, can, promised>>

(* Unlock: refused, or the user's session is shown; without one it fails.  *)
HandleUnlock(u) ==
  /\ \/ Answer /\ UNCHANGED <<told, down>>
     \/ \E s \in sessions :
          /\ s.user = u
          /\ IF s.type = "treeland" THEN ActivateInAnswer({s.id})
             ELSE Consume({}) /\ UNCHANGED <<wire, link, listed, told, down>>
  /\ UNCHANGED <<connects, late, sessions, nextId, can, promised>>

(* PowerManager: the first backend that says it can do it gets the request.*)
AbleBackends(op) == {i \in 1 .. Len(Backends) : op \in can[Backends[i]]}
CalledBackendsAll(op) == {Backends[i] : i \in AbleBackends(op)}
CalledBackends(op) ==
  {Backends[i] : i \in {j \in AbleBackends(op) : \A k \in AbleBackends(op) : j <= k}}

PowerResult(op) ==
  [by |-> CalledBackends(op), promised |-> op \in promised[reading]]

(* Power requests go to the backends.  Lock and Logout ask logind, Back-   *)
(* ToNormal asks systemd, and a message nobody knows is skipped: none of   *)
(* these changes anything in the daemon.                                   *)
HandleElse ==
  Consume({}) /\ UNCHANGED <<wire, link, greeterList, sessions, nextId, can, promised, down>>

HandleRequest ==
  /\ ~down /\ reading # NoGreeter
  /\ \/ NextRequest.type = "Connect" /\ HandleConnect
     \/ NextRequest.type = "Login" /\ HandleLogin(NextRequest.user)
     \/ NextRequest.type = "Unlock" /\ HandleUnlock(NextRequest.user)
     \/ NextRequest.type \in {"Power", "Other"} /\ HandleElse
  /\ lastPower' = IF NextRequest.type = "Power" THEN PowerResult(NextRequest.op) ELSE NoPower
  /\ UNCHANGED <<far, server>>

-----------------------------------------------------------------------------
(* The rest of the daemon, between two handlers.                           *)

SessionFinished(s) ==
  /\ ~down /\ reading = NoGreeter /\ s \in sessions
  /\ sessions' = sessions \ {s}
  /\ UNCHANGED <<far, socket, reading, server, greeterList, nextId, power, down>>

(* The D-Bus request SwitchToGreeter of the seat.                          *)
SwitchToGreeter ==
  /\ ~down /\ reading = NoGreeter /\ server = "up" /\ Listed # {}
  /\ Activate({})
  /\ buffer' = [g \in Greeters |-> IF g \in Broken(Listed) THEN <<>> ELSE buffer[g]]
  /\ UNCHANGED <<far, reading, server, connects, late, sessions, nextId, power>>

BackendChanges(b, S) ==
  /\ b \in Registered /\ S \in Capabilities(b) /\ can[b] # S
  /\ can' = [can EXCEPT ![b] = S]
  /\ promised' = [g \in Greeters |-> {}]
  /\ UNCHANGED <<far, socket, reading, server, greeterList, sessions, nextId,
                 lastPower, down>>

(* Display::stop ends the sessions and stops the server, which Qt deletes, *)
(* with the connections and the display, when the handler is over.         *)
ServerStops ==
  /\ ~down /\ reading = NoGreeter /\ server = "up"
  /\ server' = "stopped" /\ sessions' = {}
  /\ UNCHANGED <<far, socket, reading, greeterList, nextId, power, down>>

ServerDeleted ==
  /\ ~down /\ reading = NoGreeter /\ server = "stopped"
  /\ server' = "deleted" /\ sessions' = {}
  /\ Disconnected({g \in Greeters : link[g] = "up"})
  /\ buffer' = [g \in Greeters |-> <<>>]
  /\ UNCHANGED <<far, reading, connects, late, told, nextId, power, down>>

-----------------------------------------------------------------------------
Next ==
  \/ \E g \in Greeters :
       \/ GreeterConnects(g) \/ GreeterCloses(g)
       \/ \E r \in Request : GreeterSends(g, r)
       \/ NewConnection(g) \/ ReadyRead(g) \/ ConnectionCloses(g)
  \/ HandleRequest
  \/ \E s \in sessions : SessionFinished(s)
  \/ SwitchToGreeter
  \/ \E b \in Registered, S \in SUBSET Ops : BackendChanges(b, S)
  \/ ServerStops
  \/ ServerDeleted

Spec == Init /\ [][Next]_vars

-----------------------------------------------------------------------------
(* Properties.                                                             *)

TypeOK ==
  /\ peer \in [Greeters -> {"absent", "open", "closed"}]
  /\ sent \in Nat
  /\ wire \in [Greeters -> Seq(Request)] /\ buffer \in [Greeters -> Seq(Request)]
  /\ link \in [Greeters -> {"none", "up", "gone"}]
  /\ reading \in Greeters \cup {NoGreeter}
  /\ (reading # NoGreeter => link[reading] = "up" /\ buffer[reading] # <<>>)
  /\ server \in {"up", "stopped", "deleted"}
  /\ listed \in [Greeters -> Nat] /\ connects \in [Greeters -> Nat]
  /\ late \subseteq Greeters /\ told \in [Greeters -> SUBSET Nat]
  /\ sessions \subseteq Session /\ nextId \in Nat /\ down \in BOOLEAN
  /\ can \in [Registered -> SUBSET Ops]
  /\ promised \in [Greeters -> SUBSET Ops]
  /\ lastPower \in [by : SUBSET Registered, promised : BOOLEAN]

(* m_greeterSockets holds a connection for each Connect while it is up,    *)
(* and a deleted socket only where `disconnected' came too early, before   *)
(* the greeter was listed, or could not remove a second Connect.           *)
GreetersListed ==
  \A g \in Greeters :
    /\ link[g] = "up" => listed[g] = connects[g]
    /\ link[g] = "gone" /\ listed[g] > 0 => g \in late \/ connects[g] > 1

(* A greeter that said Connect knows of every open session that is shown   *)
(* by Treeland, opened before or after, through whichever greeter; so a    *)
(* greeter that crashed and came back can go on.                           *)
GreetersKnowSessions ==
  Cardinality(Greeters) <= 2 =>
    \A g \in Greeters :
      link[g] = "up" /\ peer[g] = "open" /\ connects[g] > 0 =>
        {s.id : s \in {t \in sessions : t.type = "treeland"}} \subseteq told[g]

(* A power request goes to one backend at most, and to one if the greeter  *)
(* was told of the capability and no backend changed its mind since.       *)
PowerPromiseKept ==
  /\ \A a, b \in lastPower.by : a = b
  /\ lastPower.promised => lastPower.by # {}

(* Whenever the event loop waits again, every request Qt has read was      *)
(* handled, however many came together: Qt does not call readyRead again   *)
(* for what it has already read.                                           *)
NoRequestLeftBehind ==
  \A g \in Greeters : g # reading => buffer[g] = <<>>
=============================================================================
