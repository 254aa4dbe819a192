--------------------------- MODULE Display_proofs ---------------------------
(***************************************************************************)
(* Proofs about Display, for every set of users and connections, every     *)
(* range of VTs, every configuration and every bound.                      *)
(***************************************************************************)
EXTENDS Display, TLAPS

(* A display that is not started has nothing: no connection, no session    *)
(* and no display server.                                                  *)
StoppedIsEmpty ==
  ~started => /\ ~treeland /\ x11 = NoSid
              /\ sockets = {} /\ auths = {} /\ xservers = {}

(* Session ids are fresh: none in use is as large as the next one, and no  *)
(* two auths share one.                                                    *)
SidsFresh ==
  /\ \A a \in auths : a.sid < nextSid
  /\ \A e \in sessions : e.sid < nextSid
  /\ \A a, b \in auths : a.sid = b.sid => a = b

(* dde-seatd groups a VT once.                                             *)
GroupsApart == \A g, h \in grouped : g.vt = h.vt => g = h

SessionInv ==
  /\ SidsFresh /\ GroupsApart /\ OneSessionPerUser /\ RegistryCoversAuths
  /\ RegistryExact /\ ScannedVtExclusive /\ RunningSessionsApart
  /\ LiveTreelandVtGrouped

ScreenInv == ScreenHasOneOwner /\ X11PointerValid

(* The inductive invariant.                                                *)
IInv == TypeOK /\ generation >= 1 /\ StoppedIsEmpty /\ SessionInv /\ ScreenInv

(* The part of the type invariant a login can disturb.                     *)
SessionTypes ==
  /\ treeland \in BOOLEAN /\ x11 \in Nat \cup {NoSid}
  /\ auths \subseteq AuthType /\ nextSid \in Nat
  /\ sessions \subseteq SessionEntry /\ lastSession \in Nat \cup {NoSid}
  /\ xservers \subseteq XServer /\ grouped \subseteq GroupedVt

USE DEF VTs, NoVt, NoSid

-----------------------------------------------------------------------------
(* A VT found by the scan is reserved by nobody; any other one was offered *)
(* by dde-seatd.                                                           *)
LEMMA UserVtAnswer ==
  ASSUME NEW answer \in UserVtAnswers
  PROVE  /\ answer.vt \in VTs \cup {NoVt}
         /\ answer.scanned \in BOOLEAN
         /\ answer.scanned => answer.vt \in VTs \ ReservedByDdm
         /\ ~answer.scanned => answer.vt \in FreeVts \cup {NoVt}
<1>1. PICK inUse \in TtysInUse, offered \in FreeVts \cup {NoVt} :
        answer \in {[vt |-> v, scanned |-> ScannedVts(inUse) # {}] :
                      v \in FetchAvailableUserVt(inUse, offered)}
  BY DEF UserVtAnswers
<1>2. PICK v \in FetchAvailableUserVt(inUse, offered) :
        answer = [vt |-> v, scanned |-> ScannedVts(inUse) # {}]
  BY <1>1
<1>3. CASE ScannedVts(inUse) = {}
  <2>1. v = offered /\ answer.scanned = FALSE /\ answer.vt = offered
    BY <1>2, <1>3 DEF FetchAvailableUserVt
  <2> QED BY <2>1 DEF FreeVts
<1>4. CASE ScannedVts(inUse) # {}
  <2>1. v \in ScannedVts(inUse) /\ answer.scanned = TRUE /\ answer.vt = v
    BY <1>2, <1>4 DEF FetchAvailableUserVt
  <2> QED BY <2>1 DEF ScannedVts
<1> QED BY <1>3, <1>4

(* Adding an auth with a fresh id keeps what is said about the sessions,   *)
(* if its VT is not the one of a running session, and not reserved if it   *)
(* was scanned.                                                            *)
LEMMA OpenedKeepsSessionInv ==
  ASSUME TypeOK, SessionInv, NEW a \in AuthType,
         a.sid = nextSid, ~HasAuth(a.user), a.state = "running",
         a.scanned => a.tty \in VTs \ ReservedByDdm,
         \A b \in auths : b.state # "exited" => b.tty # a.tty,
         nextSid' = nextSid + 1, Opened(a),
         grouped \subseteq grouped', grouped' \subseteq GroupedVt,
         GroupsApart',
         a.type = "treeland" => [sid |-> a.sid, vt |-> a.tty] \in grouped',
         UNCHANGED <<terminalId, generation>>
  PROVE  SessionInv' /\ auths' \subseteq AuthType /\ sessions' \subseteq SessionEntry
<1> DEFINE entry == [sid |-> a.sid, user |-> a.user, vt |-> a.tty]
<1>1. auths' = auths \cup {a} /\ sessions' = sessions \cup {entry}
  BY DEF Opened
<1>2. entry \in SessionEntry /\ entry.sid = nextSid /\ nextSid \in Nat
  BY DEF AuthType, SessionEntry, TypeOK
<1>3. \A b \in auths : b.sid \in Nat /\ b.sid < nextSid
  BY DEF SessionInv, SidsFresh, TypeOK, AuthType
<1>4. \A e \in sessions : e.sid \in Nat /\ e.sid < nextSid
  BY DEF SessionInv, SidsFresh, TypeOK, SessionEntry
<1>5. SidsFresh'
  BY <1>1, <1>2, <1>3, <1>4 DEF SidsFresh, SessionInv
<1>6. OneSessionPerUser'
  BY <1>1 DEF OneSessionPerUser, SessionInv, HasAuth
<1>7. RegistryCoversAuths'
  <2> SUFFICES ASSUME NEW b \in auths'
               PROVE  {e \in sessions' : e.sid = b.sid}
                        = {[sid |-> b.sid, user |-> b.user, vt |-> b.tty]}
    BY DEF RegistryCoversAuths
  <2>1. CASE b = a
    BY <1>1, <1>2, <1>4, <2>1
  <2>2. CASE b \in auths
    <3>1. {e \in sessions : e.sid = b.sid}
            = {[sid |-> b.sid, user |-> b.user, vt |-> b.tty]}
      BY <2>2 DEF SessionInv, RegistryCoversAuths
    <3>2. b.sid # entry.sid
      BY <1>2, <1>3, <2>2
    <3> HIDE DEF entry
    <3> QED BY <1>1, <3>1, <3>2
  <2> QED BY <1>1, <2>1, <2>2
<1>8. RegistryExact'
  <2> SUFFICES ASSUME generation = 1
               PROVE  {e.sid : e \in sessions'} = {b.sid : b \in auths'}
    BY DEF RegistryExact
  <2>1. {e.sid : e \in sessions} = {b.sid : b \in auths}
    BY DEF RegistryExact, SessionInv
  <2>2. {e.sid : e \in sessions'} = {e.sid : e \in sessions} \cup {entry.sid}
    BY <1>1
  <2>3. {b.sid : b \in auths'} = {b.sid : b \in auths} \cup {a.sid}
    BY <1>1
  <2> QED BY <2>1, <2>2, <2>3
<1>9. ScannedVtExclusive'
  <2> SUFFICES ASSUME NEW b \in auths', b.scanned
               PROVE  /\ b.tty # terminalId'
                      /\ \A c \in auths' : c.sid < b.sid => c.tty # b.tty
    BY DEF ScannedVtExclusive
  <2>1. CASE b = a
    BY <1>1, <1>2, <2>1 DEF ReservedByDdm
  <2>2. CASE b \in auths
    <3>1. b.tty # terminalId /\ \A c \in auths : c.sid < b.sid => c.tty # b.tty
      BY <2>2 DEF ScannedVtExclusive, SessionInv
    <3>2. ~(a.sid < b.sid)
      BY <1>2, <1>3, <2>2
    <3> QED BY <1>1, <3>1, <3>2
  <2> QED BY <1>1, <2>1, <2>2
<1>10. RunningSessionsApart'
  BY <1>1 DEF RunningSessionsApart, SessionInv
<1>11. LiveTreelandVtGrouped'
  BY <1>1 DEF LiveTreelandVtGrouped, SessionInv
<1> QED
  BY <1>1, <1>2, <1>5, <1>6, <1>7, <1>8, <1>9, <1>10, <1>11
     DEF SessionInv, TypeOK

(* Nothing opened, and ids only grow: the sessions are as they were.       *)
LEMMA NotOpenedKeepsSessionInv ==
  ASSUME TypeOK, SessionInv, NotOpened, nextSid' \in {nextSid, nextSid + 1},
         grouped \subseteq grouped', grouped' \subseteq GroupedVt,
         GroupsApart', UNCHANGED <<terminalId, generation>>
  PROVE  SessionInv'
<1>1. UNCHANGED <<auths, sessions>>
  BY DEF NotOpened, registry
<1>2. nextSid \in Nat /\ (\A a \in auths : a.sid \in Nat)
       /\ (\A e \in sessions : e.sid \in Nat)
  BY DEF TypeOK, AuthType, SessionEntry
<1>3. SidsFresh'
  BY <1>1, <1>2 DEF SidsFresh, SessionInv
<1>4. LiveTreelandVtGrouped'
  BY <1>1 DEF LiveTreelandVtGrouped, SessionInv
<1>5. /\ OneSessionPerUser' /\ RegistryCoversAuths' /\ RegistryExact'
      /\ ScannedVtExclusive' /\ RunningSessionsApart'
  BY <1>1 DEF OneSessionPerUser, RegistryCoversAuths, RegistryExact,
              ScannedVtExclusive, RunningSessionsApart, SessionInv
<1> QED BY <1>3, <1>4, <1>5 DEF SessionInv

(* A VT newly grouped was free, so it was not grouped.                     *)
LEMMA NewGroupApart ==
  ASSUME TypeOK, GroupsApart, NEW vt \in FreeVts,
         grouped' = grouped \cup {[sid |-> nextSid, vt |-> vt]}
  PROVE  /\ GroupsApart' /\ grouped' \subseteq GroupedVt
         /\ grouped \subseteq grouped'
<1>1. vt \in VTs /\ \A g \in grouped : g.vt # vt
  BY DEF FreeVts, OpenVts
<1> QED BY <1>1 DEF GroupsApart, GroupedVt, TypeOK

(* A free VT is not that of a running session.                             *)
LEMMA FreeIsNotRunning ==
  ASSUME NEW vt \in FreeVts, NEW b \in auths, b.state # "exited"
  PROVE  b.tty # vt
BY DEF FreeVts, OpenVts

(* startUserSession, with a Treeland session: its VT is created for it, so *)
(* it is nobody's.                                                         *)
LEMMA TreelandSessionKeeps ==
  ASSUME TypeOK, SessionInv, ScreenInv, NEW u \in Users, NEW ok \in BOOLEAN,
         ~HasAuth(u), TreelandSession(u, ok), UNCHANGED <<terminalId, generation>>
  PROVE  SessionInv' /\ ScreenInv' /\ SessionTypes'
<1>1. GroupsApart /\ nextSid \in Nat /\ nextSid' = nextSid + 1 /\ UNCHANGED servers
  BY DEF SessionInv, TypeOK, TreelandSession
<1>2. CASE \E vt \in FreeVts :
              /\ ok
              /\ grouped' = grouped \cup {[sid |-> nextSid, vt |-> vt]}
              /\ Opened(NewAuth(u, "treeland", vt, FALSE))
  <2>1. PICK vt \in FreeVts :
              /\ grouped' = grouped \cup {[sid |-> nextSid, vt |-> vt]}
              /\ Opened(NewAuth(u, "treeland", vt, FALSE))
    BY <1>2
  <2> DEFINE a == NewAuth(u, "treeland", vt, FALSE)
  <2>2. vt \in VTs
    BY DEF FreeVts
  <2>3. a \in AuthType /\ a.sid = nextSid /\ a.user = u /\ a.tty = vt
         /\ a.type = "treeland" /\ a.scanned = FALSE /\ a.state = "running"
    BY <1>1, <2>2 DEF NewAuth, AuthType, Kinds
  <2>4. GroupsApart' /\ grouped' \subseteq GroupedVt /\ grouped \subseteq grouped'
    BY <1>1, <2>1, NewGroupApart
  <2>5. \A b \in auths : b.state # "exited" => b.tty # vt
    BY FreeIsNotRunning
  <2>6. [sid |-> a.sid, vt |-> a.tty] \in grouped'
    BY <2>1, <2>3
  <2>7. Opened(a)
    BY <2>1
  <2> HIDE DEF a
  <2>8. SessionInv' /\ auths' \subseteq AuthType /\ sessions' \subseteq SessionEntry
    BY <1>1, <2>3, <2>4, <2>5, <2>6, <2>7, OpenedKeepsSessionInv
  <2>9. ScreenInv'
    BY <1>1, <2>3, <2>7
       DEF ScreenInv, ScreenHasOneOwner, X11PointerValid, Opened, servers
  <2>10. SessionTypes'
    BY <1>1, <2>3, <2>4, <2>7, <2>8 DEF SessionTypes, TypeOK, Opened, servers
  <2> QED BY <2>8, <2>9, <2>10
<1>3. CASE /\ NotOpened
           /\ \/ UNCHANGED grouped
              \/ \E vt \in FreeVts :
                   grouped' = grouped \cup {[sid |-> nextSid, vt |-> vt]}
  <2> UNCHANGED <<auths, sessions, lastSession>>
    BY <1>3 DEF NotOpened, registry
  <2>1. GroupsApart' /\ grouped' \subseteq GroupedVt /\ grouped \subseteq grouped'
    <3>1. CASE UNCHANGED grouped
      BY <1>1, <3>1 DEF GroupsApart, TypeOK
    <3>2. CASE \E vt \in FreeVts :
                  grouped' = grouped \cup {[sid |-> nextSid, vt |-> vt]}
      BY <1>1, <3>2, NewGroupApart
    <3> QED BY <1>3, <3>1, <3>2
  <2>2. SessionInv'
    BY <1>1, <1>3, <2>1, NotOpenedKeepsSessionInv
  <2>3. ScreenInv'
    BY <1>1 DEF ScreenInv, ScreenHasOneOwner, X11PointerValid, servers
  <2>4. SessionTypes'
    BY <1>1, <2>1 DEF SessionTypes, TypeOK, servers
  <2> QED BY <2>2, <2>3, <2>4
<1> QED BY <1>2, <1>3 DEF TreelandSession

(* What ScreenTaken does to the display servers.                           *)
LEMMA ScreenTakenServers ==
  ASSUME TypeOK, ScreenInv, NEW u, NEW kind, NEW vt \in VTs, NEW scanned, NEW ok,
         ScreenTaken(u, kind, vt, scanned, ok)
  PROVE  /\ ScreenInv' /\ treeland' \in BOOLEAN
         /\ x11' \in Nat \cup {NoSid} /\ xservers' \subseteq XServer
<1>1. treeland' = FALSE /\ nextSid \in Nat /\ xservers \subseteq XServer
       /\ x11 \in Nat \cup {NoSid}
  BY DEF ScreenTaken, TypeOK
<1>2. CASE UNCHANGED <<x11, xservers>>
  BY <1>1, <1>2 DEF ScreenInv, ScreenHasOneOwner, X11PointerValid
<1>3. CASE XServerStarts(vt)
  <2>1. [sid |-> nextSid, vt |-> vt, up |-> TRUE] \in XServer
    BY <1>1 DEF XServer
  <2>2. /\ x11' = nextSid
        /\ xservers' = xservers \cup {[sid |-> nextSid, vt |-> vt, up |-> TRUE]}
    BY <1>3 DEF XServerStarts
  <2>3. \E x \in xservers' : x.sid = x11'
    <3> DEFINE x == [sid |-> nextSid, vt |-> vt, up |-> TRUE]
    <3>1. x \in xservers' /\ x.sid = nextSid
      BY <2>2
    <3> QED BY <2>2, <3>1
  <2> QED BY <1>1, <2>1, <2>2, <2>3 DEF ScreenInv, ScreenHasOneOwner, X11PointerValid
<1>4. CASE XServerFails
  BY <1>1, <1>4 DEF XServerFails, ScreenInv, ScreenHasOneOwner, X11PointerValid
<1> QED BY <1>2, <1>3, <1>4 DEF ScreenTaken

(* startUserSession, with a session on a VT of its own: Treeland is gone   *)
(* before it runs.                                                         *)
LEMMA OwnVtSessionKeeps ==
  ASSUME TypeOK, SessionInv, ScreenInv, NEW u \in Users, NEW ok \in BOOLEAN,
         NEW kind \in {"x11", "wayland"}, ~HasAuth(u), OwnVtSession(u, kind, ok),
         UNCHANGED <<terminalId, generation>>
  PROVE  SessionInv' /\ ScreenInv' /\ SessionTypes'
<1>1. /\ nextSid \in Nat /\ nextSid' = nextSid + 1 /\ UNCHANGED grouped
      /\ GroupsApart' /\ grouped' \subseteq GroupedVt /\ grouped \subseteq grouped'
  BY DEF SessionInv, TypeOK, OwnVtSession, GroupsApart
<1>2. PICK answer \in UserVtAnswers :
        \/ answer.vt = NoVt /\ ~ok /\ NotOpened /\ UNCHANGED servers
        \/ answer.vt # NoVt /\ ScreenTaken(u, kind, answer.vt, answer.scanned, ok)
  BY DEF OwnVtSession
<1>3. /\ answer.vt \in VTs \cup {NoVt} /\ answer.scanned \in BOOLEAN
      /\ answer.scanned => answer.vt \in VTs \ ReservedByDdm
      /\ ~answer.scanned => answer.vt \in FreeVts \cup {NoVt}
  BY <1>2, UserVtAnswer
<1>4. CASE NotOpened /\ UNCHANGED servers
  <2>1. SessionInv'
    BY <1>1, <1>4, NotOpenedKeepsSessionInv
  <2>2. ScreenInv'
    BY <1>4 DEF ScreenInv, ScreenHasOneOwner, X11PointerValid, NotOpened, servers
  <2>3. SessionTypes'
    BY <1>1, <1>4 DEF SessionTypes, TypeOK, NotOpened, servers, registry
  <2> QED BY <2>1, <2>2, <2>3
<1>5. CASE answer.vt # NoVt /\ ScreenTaken(u, kind, answer.vt, answer.scanned, ok)
  <2>1. answer.vt \in VTs
    BY <1>3, <1>5
  <2>2. /\ ScreenInv' /\ treeland' \in BOOLEAN
        /\ x11' \in Nat \cup {NoSid} /\ xservers' \subseteq XServer
    BY <1>5, <2>1, ScreenTakenServers
  <2>3. CASE NotOpened
    <3>1. SessionInv'
      BY <1>1, <2>3, NotOpenedKeepsSessionInv
    <3>2. SessionTypes'
      BY <1>1, <2>2, <2>3 DEF SessionTypes, TypeOK, NotOpened, registry
    <3> QED BY <2>2, <3>1, <3>2
  <2>4. CASE Opened(NewAuth(u, kind, answer.vt, answer.scanned))
    <3> DEFINE a == NewAuth(u, kind, answer.vt, answer.scanned)
    <3>1. a \in AuthType /\ a.sid = nextSid /\ a.user = u /\ a.tty = answer.vt
           /\ a.type = kind /\ a.scanned = answer.scanned /\ a.state = "running"
      BY <1>1, <1>3, <2>1 DEF NewAuth, AuthType, Kinds
    <3>2. \A b \in auths : b.state # "exited" => b.tty # answer.vt
      <4>1. CASE answer.scanned
        BY <1>3, <4>1 DEF ReservedByDdm
      <4>2. CASE ~answer.scanned
        BY <1>3, <1>5, <4>2, FreeIsNotRunning
      <4> QED BY <4>1, <4>2
    <3>3. Opened(a)
      BY <2>4
    <3> HIDE DEF a
    <3>4. a.type # "treeland"
      BY <3>1
    <3>5. SessionInv' /\ auths' \subseteq AuthType /\ sessions' \subseteq SessionEntry
      BY <1>1, <1>3, <3>1, <3>2, <3>3, <3>4, OpenedKeepsSessionInv
    <3>6. SessionTypes'
      BY <1>1, <2>2, <3>1, <3>3, <3>5 DEF SessionTypes, Opened
    <3> QED BY <2>2, <3>5, <3>6
  <2> QED BY <1>5, <2>3, <2>4 DEF ScreenTaken
<1> QED BY <1>2, <1>4, <1>5

(* No outcome of startUserSession breaks the invariant.                    *)
LEMMA StartUserSessionKeeps ==
  ASSUME TypeOK, SessionInv, ScreenInv, NEW u \in Users, NEW ok \in BOOLEAN,
         NEW kind, ~HasAuth(u), StartUserSession(u, kind, ok),
         UNCHANGED <<terminalId, generation>>
  PROVE  SessionInv' /\ ScreenInv' /\ SessionTypes'
<1>1. CASE InvalidSession
  <2>1. SessionInv'
    <3>1. GroupsApart' /\ grouped' \subseteq GroupedVt
      BY <1>1 DEF InvalidSession, SessionInv, GroupsApart, TypeOK
    <3> QED BY <1>1, <3>1, NotOpenedKeepsSessionInv DEF InvalidSession
  <2>2. ScreenInv'
    BY <1>1 DEF InvalidSession, ScreenInv, ScreenHasOneOwner, X11PointerValid,
                NotOpened, servers
  <2>3. SessionTypes'
    BY <1>1 DEF InvalidSession, SessionTypes, TypeOK, NotOpened, servers, registry
  <2> QED BY <2>1, <2>2, <2>3
<1>2. CASE TreelandSession(u, ok)
  BY <1>2, TreelandSessionKeeps
<1>3. CASE kind \in {"x11", "wayland"} /\ OwnVtSession(u, kind, ok)
  BY <1>3, OwnVtSessionKeeps
<1> QED BY <1>1, <1>2, <1>3 DEF StartUserSession

-----------------------------------------------------------------------------
(* The steps.                                                              *)

(* The greeter's VT is a VT or none.                                       *)
LEMMA GreeterVtType == GreeterVts \subseteq VTs \cup {NoVt}
<1> SUFFICES ASSUME NEW inUse \in SUBSET VTs, NEW active \in VTs \cup {NoVt},
                    NEW offered \in VTs \cup {NoVt}
             PROVE  FetchAvailableVt(inUse, active, offered) \in VTs \cup {NoVt}
  BY DEF GreeterVts
<1>1. InitialVt \in VTs
  BY VtAssumption
<1> QED BY <1>1 DEF FetchAvailableVt

(* The invariant holds at first.                                           *)
LEMMA InitInv == Init => IInv
<1> SUFFICES ASSUME Init PROVE IInv
  OBVIOUS
<1>1. TypeOK
  <2>1. PICK vt \in GreeterVts, ok \in BOOLEAN :
           /\ terminalId = vt /\ started = ok /\ treeland = ok
           /\ failedStarts = IF ok THEN 0 ELSE 1
    BY DEF Init
  <2>2. terminalId \in VTs \cup {NoVt}
    BY <2>1, GreeterVtType
  <2>3. started \in BOOLEAN /\ treeland \in BOOLEAN /\ failedStarts \in 0 .. 3
    BY <2>1
  <2>4. stateConf \in [user : Users \cup {NoUser}, session : DesktopSessions \cup {"unset"}]
    BY SavedAssumption DEF Init
  <2> QED BY <2>2, <2>3, <2>4 DEF Init, TypeOK
<1>2. StoppedIsEmpty /\ ScreenInv /\ generation >= 1
  BY DEF Init, StoppedIsEmpty, ScreenInv, ScreenHasOneOwner, X11PointerValid
<1>3. SessionInv
  BY DEF Init, SessionInv, SidsFresh, GroupsApart, OneSessionPerUser, RegistryCoversAuths,
         RegistryExact, ScannedVtExclusive, RunningSessionsApart, LiveTreelandVtGrouped
<1> QED BY <1>1, <1>2, <1>3 DEF IInv

(* Steps that touch no session.                                            *)
LEMMA SameSessions ==
  ASSUME IInv, UNCHANGED <<auths, sessions, nextSid, grouped, terminalId, generation>>
  PROVE  SessionInv'
BY DEF IInv, SessionInv, SidsFresh, GroupsApart, OneSessionPerUser,
       RegistryCoversAuths, RegistryExact, ScannedVtExclusive,
       RunningSessionsApart, LiveTreelandVtGrouped

(* A failed start is tried again, with nothing open.                       *)
LEMMA RetryStartInv == ASSUME IInv, RetryStart PROVE IInv'
<1>1. SessionInv'
  BY SameSessions DEF RetryStart, registry
<1>2. PICK ok \in BOOLEAN : started' = ok /\ treeland' = ok
        /\ failedStarts' = IF ok THEN failedStarts ELSE failedStarts + 1
  BY DEF RetryStart
<1>3. ~started /\ failedStarts < 3
  BY DEF RetryStart, MaxStarts
<1>4. TypeOK'
  <2>1. failedStarts' \in 0 .. 3
    BY <1>2, <1>3 DEF IInv, TypeOK
  <2> QED BY <1>2, <2>1 DEF IInv, TypeOK, RetryStart, registry, saved
<1>5. StoppedIsEmpty' /\ ScreenInv'
  BY <1>2, <1>3 DEF IInv, StoppedIsEmpty, ScreenInv, ScreenHasOneOwner,
                    X11PointerValid, RetryStart
<1> QED BY <1>1, <1>4, <1>5 DEF IInv, RetryStart

(* Connections come and go.                                                *)
LEMMA SocketInv ==
  ASSUME IInv, NEW s \in Sockets, AcceptSocket(s) \/ SocketCloses(s)
  PROVE  IInv'
<1>1. /\ UNCHANGED <<object, servers, registry, saved, connectedOnce, auths,
                     nextSid, reply, grouped>>
      /\ sockets' \subseteq Sockets
      /\ ~started => sockets' = {}
  BY DEF AcceptSocket, SocketCloses, IInv, TypeOK, StoppedIsEmpty
<1>2. SessionInv'
  BY <1>1, SameSessions DEF object, registry
<1>3. TypeOK'
  BY <1>1 DEF IInv, TypeOK, object, servers, registry, saved
<1>4. StoppedIsEmpty' /\ ScreenInv'
  BY <1>1 DEF IInv, StoppedIsEmpty, ScreenInv, ScreenHasOneOwner, X11PointerValid,
              object, servers
<1> QED BY <1>1, <1>2, <1>3, <1>4 DEF IInv, object

(* Steps of a request that may open a session: the invariant follows when  *)
(* its session part, its screen part and the types do.                     *)
LEMMA RequestInv ==
  ASSUME IInv, SessionInv', ScreenInv', SessionTypes',
         UNCHANGED <<started, terminalId, failedStarts, generation, sockets>>,
         started, connectedOnce' \in BOOLEAN,
         reply' \in {"none", "LoginFailed", "ShowGreeter", "UserActivate"},
         activated' \in Users \cup {NoUser},
         stateConf' \in [user : Users \cup {NoUser},
                        session : DesktopSessions \cup {"unset"}]
  PROVE  IInv'
BY DEF IInv, TypeOK, SessionTypes, StoppedIsEmpty

(* What a login remembers is a user and a session.                         *)
LEMMA SaveLoginTypes ==
  ASSUME NEW u \in Users, NEW kind \in DesktopSessions, SaveLogin(u, kind)
  PROVE  /\ activated' \in Users \cup {NoUser}
         /\ stateConf' \in [user : Users \cup {NoUser},
                           session : DesktopSessions \cup {"unset"}]
BY DEF SaveLogin, RememberedUser, RememberedSession

(* A request that leaves the sessions and the saved state alone.           *)
LEMMA QuietRequest ==
  ASSUME IInv, UNCHANGED <<servers, registry, saved, auths, nextSid, grouped, object>>
  PROVE  /\ SessionInv' /\ ScreenInv' /\ SessionTypes'
         /\ activated' \in Users \cup {NoUser}
         /\ stateConf' \in [user : Users \cup {NoUser},
                           session : DesktopSessions \cup {"unset"}]
<1>1. SessionInv'
  BY SameSessions DEF registry, object
<1>2. ScreenInv'
  BY DEF IInv, ScreenInv, ScreenHasOneOwner, X11PointerValid, servers
<1>3. SessionTypes'
  BY DEF IInv, SessionTypes, TypeOK, servers, registry
<1> QED BY <1>1, <1>2, <1>3 DEF IInv, TypeOK, saved

(* Greeters are connected only to a display that has started.              *)
LEMMA SocketMeansStarted ==
  ASSUME IInv, NEW s \in sockets
  PROVE  started
BY DEF IInv, StoppedIsEmpty

(* A login: refused, ignored, or the start of a session.                   *)
LEMMA LoginInv ==
  ASSUME IInv, NEW s \in Sockets, NEW u \in Users, Login(s, u)
  PROVE  IInv'
<1>1. started /\ UNCHANGED <<object, sockets, connectedOnce>>
  BY SocketMeansStarted DEF Login
<1>2. UNCHANGED <<started, terminalId, failedStarts, generation, sockets>>
  BY <1>1 DEF object
<1>3. connectedOnce' \in BOOLEAN
  BY <1>1 DEF IInv, TypeOK
<1>4. CASE LoginRefused(u) \/ LoginIgnored(u)
  <2>1. reply' \in {"none", "LoginFailed"}
         /\ UNCHANGED <<servers, registry, saved, auths, nextSid, grouped, object>>
    BY <1>1, <1>4 DEF LoginRefused, LoginIgnored
  <2> QED BY <1>1, <1>2, <1>3, <2>1, QuietRequest, RequestInv
<1>5. CASE \E kind \in DesktopSessions, ok \in BOOLEAN : LoginAuthenticated(u, kind, ok)
  <2>1. PICK kind \in DesktopSessions, ok \in BOOLEAN : LoginAuthenticated(u, kind, ok)
    BY <1>5
  <2>2. SessionInv' /\ ScreenInv' /\ SessionTypes'
    BY <1>2, <2>1, StartUserSessionKeeps DEF LoginAuthenticated, IInv
  <2>3. /\ activated' \in Users \cup {NoUser}
        /\ stateConf' \in [user : Users \cup {NoUser},
                          session : DesktopSessions \cup {"unset"}]
    BY <2>1, SaveLoginTypes DEF LoginAuthenticated
  <2>4. reply' \in {"none", "LoginFailed", "UserActivate"}
    BY <2>1 DEF LoginAuthenticated
  <2> QED BY <1>1, <1>2, <1>3, <2>2, <2>3, <2>4, RequestInv
<1> QED BY <1>4, <1>5 DEF Login

(* A greeter that connects, and autologin on the first of them.            *)
LEMMA ConnectedInv ==
  ASSUME IInv, NEW s \in Sockets, Connected(s)
  PROVE  IInv'
<1>1. started /\ UNCHANGED <<object, sockets>> /\ connectedOnce' = TRUE
  BY SocketMeansStarted DEF Connected
<1>2. UNCHANGED <<started, terminalId, failedStarts, generation, sockets>>
  BY <1>1 DEF object
<1>3. CASE ~TriesAutologin
  <2>1. /\ reply' = "ShowGreeter"
        /\ UNCHANGED <<servers, registry, saved, auths, nextSid, grouped, object>>
    BY <1>1, <1>3 DEF Connected
  <2> QED BY <1>1, <1>2, <2>1, QuietRequest, RequestInv
<1>4. CASE TriesAutologin
  <2>1. PICK ok \in BOOLEAN :
          /\ StartAutologin(ok)
          /\ reply' = IF ok THEN "none" ELSE "ShowGreeter"
    BY <1>4 DEF Connected
  <2>2. reply' \in {"none", "ShowGreeter"}
    BY <2>1 DEF IInv, TypeOK
  <2>3. CASE AutologinRefused
    <3>1. UNCHANGED <<servers, registry, saved, auths, nextSid, grouped, object>>
      BY <1>1, <2>3 DEF AutologinRefused
    <3> QED BY <1>1, <1>2, <2>2, <3>1, QuietRequest, RequestInv
  <2>4. CASE /\ AutologinFile # "unset" /\ SaveLogin(AutologinUser, AutologinFile)
             /\ StartUserSession(AutologinUser, AutologinKind, ok)
    <3>1. AutologinUser \in Users /\ AutologinFile \in DesktopSessions
      BY <1>4, <2>4, AutologinAssumption
         DEF TriesAutologin, AutologinFile, IInv, TypeOK
    <3>2. ~HasAuth(AutologinUser)
      BY <1>4 DEF TriesAutologin, HasAuth
    <3>3. SessionInv' /\ ScreenInv' /\ SessionTypes'
      BY <1>2, <2>4, <3>1, <3>2, StartUserSessionKeeps DEF IInv
    <3>4. /\ activated' \in Users \cup {NoUser}
          /\ stateConf' \in [user : Users \cup {NoUser},
                            session : DesktopSessions \cup {"unset"}]
      BY <2>4, <3>1, SaveLoginTypes
    <3> QED BY <1>1, <1>2, <2>2, <3>3, <3>4, RequestInv
  <2> QED BY <2>1, <2>3, <2>4 DEF StartAutologin
<1> QED BY <1>3, <1>4

(* An unlock opens no session and moves none.                              *)
LEMMA UnlockInv ==
  ASSUME IInv, NEW s \in Sockets, NEW u \in Users, Unlock(s, u)
  PROVE  IInv'
<1>1. started /\ UNCHANGED <<object, servers, registry, connectedOnce, sockets,
                             auths, nextSid, grouped>>
  BY SocketMeansStarted DEF Unlock
<1>2. /\ SessionInv' /\ ScreenInv' /\ SessionTypes'
  <2>1. SessionInv'
    BY <1>1, SameSessions DEF registry, object
  <2>2. ScreenInv'
    BY <1>1 DEF IInv, ScreenInv, ScreenHasOneOwner, X11PointerValid, servers
  <2>3. SessionTypes'
    BY <1>1 DEF IInv, SessionTypes, TypeOK, servers, registry
  <2> QED BY <2>1, <2>2, <2>3
<1>3. connectedOnce' \in BOOLEAN
  BY <1>1 DEF IInv, TypeOK
<1>4. /\ reply' \in {"none", "LoginFailed", "UserActivate"}
      /\ activated' \in Users \cup {NoUser}
      /\ stateConf' \in [user : Users \cup {NoUser},
                        session : DesktopSessions \cup {"unset"}]
  <2>1. CASE UnlockRefused
    BY <2>1 DEF UnlockRefused, saved, IInv, TypeOK
  <2>2. CASE UnlockAccepted(u)
    <3>1. RememberedUser(u) \in Users \cup {NoUser}
      BY DEF RememberedUser
    <3> QED BY <2>2, <3>1 DEF UnlockAccepted, IInv, TypeOK
  <2> QED BY <2>1, <2>2 DEF Unlock
<1> QED BY <1>1, <1>2, <1>3, <1>4, RequestInv DEF object

(* A session process that ends leaves its auth as it is.                   *)
LEMMA EndingInv ==
  ASSUME IInv, NEW a \in auths, NEW state \in {"terminating", "exited"},
         auths' = (auths \ {a}) \cup {[a EXCEPT !.state = state]},
         UNCHANGED <<object, servers, registry, saved, connectedOnce, sockets,
                     nextSid, reply, grouped>>,
         a.state # "exited"
  PROVE  IInv'
<1> DEFINE new == [a EXCEPT !.state = state]
<1>1. /\ new.sid = a.sid /\ new.user = a.user /\ new.type = a.type
      /\ new.tty = a.tty /\ new.scanned = a.scanned /\ new \in AuthType
  BY DEF IInv, TypeOK, AuthType
<1> HIDE DEF new
<1>2. auths' = (auths \ {a}) \cup {new}
  BY DEF new
<1>3. UNCHANGED <<started, terminalId, failedStarts, generation, treeland, x11,
                  xservers, sessions, lastSession, activated, stateConf>>
  BY DEF object, servers, registry, saved
<1>4. SidsFresh'
  BY <1>1, <1>2, <1>3 DEF SidsFresh, IInv, SessionInv
<1>5. OneSessionPerUser'
  BY <1>1, <1>2 DEF OneSessionPerUser, IInv, SessionInv
<1>6. RegistryCoversAuths'
  BY <1>1, <1>2, <1>3 DEF RegistryCoversAuths, IInv, SessionInv
<1>7. RegistryExact'
  <2> SUFFICES ASSUME generation = 1
               PROVE  {e.sid : e \in sessions} = {b.sid : b \in auths'}
    BY <1>3 DEF RegistryExact
  <2>1. {e.sid : e \in sessions} = {b.sid : b \in auths}
    BY DEF RegistryExact, IInv, SessionInv
  <2>2. {b.sid : b \in auths'} = {b.sid : b \in auths}
    BY <1>1, <1>2
  <2> QED BY <2>1, <2>2
<1>8. ScannedVtExclusive'
  BY <1>1, <1>2, <1>3 DEF ScannedVtExclusive, IInv, SessionInv
<1>9. RunningSessionsApart'
  BY <1>1, <1>2 DEF RunningSessionsApart, IInv, SessionInv
<1>10. LiveTreelandVtGrouped'
  BY <1>1, <1>2 DEF LiveTreelandVtGrouped, IInv, SessionInv
<1>11. SessionInv'
  BY <1>4, <1>5, <1>6, <1>7, <1>8, <1>9, <1>10 DEF SessionInv, IInv, GroupsApart
<1>12. TypeOK'
  BY <1>1, <1>2, <1>3 DEF IInv, TypeOK
<1>13. StoppedIsEmpty' /\ ScreenInv'
  BY <1>1, <1>2, <1>3 DEF IInv, StoppedIsEmpty, ScreenInv, ScreenHasOneOwner,
                          X11PointerValid
<1> QED BY <1>3, <1>11, <1>12, <1>13 DEF IInv

(* A logout only tells logind.                                             *)
LEMMA LogoutInv ==
  ASSUME IInv, NEW s \in Sockets, NEW a \in auths, Logout(s, a)
  PROVE  IInv'
<1>1. a.state # "exited"
  BY DEF Logout
<1> QED BY <1>1, EndingInv DEF Logout

(* The process of a session ends; the Auth stays until the pipe says so.   *)
LEMMA SessionExitsInv ==
  ASSUME IInv, NEW a \in auths, SessionExits(a)
  PROVE  IInv'
BY EndingInv DEF SessionExits

(* Only the group of the ended session goes: its VT is grouped once.       *)
LEMMA SessionFinishedInv ==
  ASSUME IInv, NEW a \in auths, SessionFinished(a)
  PROVE  IInv'
<1>1. /\ auths' = auths \ {a} /\ sessions' = {e \in sessions : e.sid # a.sid}
      /\ grouped' \in {grouped, grouped \ GroupsDestroyed(a)}
      /\ UNCHANGED <<started, terminalId, failedStarts, generation, treeland, x11,
                     xservers, lastSession, activated, stateConf, connectedOnce,
                     sockets, nextSid, reply>>
  BY DEF SessionFinished, RemoveSession, object, servers, saved
<1>2. grouped' \subseteq grouped
  BY <1>1
<1>3. SidsFresh' /\ GroupsApart'
  BY <1>1, <1>2 DEF SidsFresh, GroupsApart, IInv, SessionInv
<1>4. OneSessionPerUser' /\ ScannedVtExclusive' /\ RunningSessionsApart'
  BY <1>1 DEF OneSessionPerUser, ScannedVtExclusive, RunningSessionsApart,
              IInv, SessionInv
<1>5. RegistryCoversAuths'
  <2> SUFFICES ASSUME NEW b \in auths'
               PROVE  {e \in sessions' : e.sid = b.sid}
                        = {[sid |-> b.sid, user |-> b.user, vt |-> b.tty]}
    BY DEF RegistryCoversAuths
  <2>1. b \in auths /\ b.sid # a.sid
    BY <1>1 DEF IInv, SessionInv, SidsFresh
  <2>2. {e \in sessions : e.sid = b.sid}
          = {[sid |-> b.sid, user |-> b.user, vt |-> b.tty]}
    BY <2>1 DEF RegistryCoversAuths, IInv, SessionInv
  <2> QED BY <1>1, <2>1, <2>2
<1>6. RegistryExact'
  <2> SUFFICES ASSUME generation = 1
               PROVE  {e.sid : e \in sessions'} = {b.sid : b \in auths'}
    BY <1>1 DEF RegistryExact
  <2>1. {e.sid : e \in sessions} = {b.sid : b \in auths}
    BY DEF RegistryExact, IInv, SessionInv
  <2>2. {e.sid : e \in sessions'} = {e.sid : e \in sessions} \ {a.sid}
    BY <1>1
  <2>3. {b.sid : b \in auths'} = {b.sid : b \in auths} \ {a.sid}
    BY <1>1 DEF IInv, SessionInv, SidsFresh
  <2> QED BY <2>1, <2>2, <2>3
<1>7. LiveTreelandVtGrouped'
  <2> SUFFICES ASSUME NEW b \in auths', b.type = "treeland"
               PROVE  [sid |-> b.sid, vt |-> b.tty] \in grouped'
    BY DEF LiveTreelandVtGrouped
  <2>1. b \in auths /\ b.sid # a.sid
    BY <1>1 DEF IInv, SessionInv, SidsFresh
  <2> DEFINE gb == [sid |-> b.sid, vt |-> b.tty]
             ga == [sid |-> a.sid, vt |-> a.tty]
  <2>2. gb \in grouped
    BY <2>1 DEF LiveTreelandVtGrouped, IInv, SessionInv
  <2>3. gb \notin GroupsDestroyed(a)
    <3> SUFFICES ASSUME a.type = "treeland", gb.vt = a.tty
                 PROVE  FALSE
      BY DEF GroupsDestroyed
    <3>1. ga \in grouped /\ ga.vt = a.tty /\ ga.sid = a.sid /\ gb.sid = b.sid
      BY DEF LiveTreelandVtGrouped, IInv, SessionInv
    <3>2. ga = gb
      BY <2>2, <3>1 DEF GroupsApart, IInv, SessionInv
    <3> QED BY <2>1, <3>1, <3>2
  <2> QED BY <1>1, <2>2, <2>3
<1>8. SessionInv'
  BY <1>3, <1>4, <1>5, <1>6, <1>7 DEF SessionInv
<1>9. TypeOK'
  BY <1>1, <1>2 DEF IInv, TypeOK
<1>10. StoppedIsEmpty' /\ ScreenInv'
  BY <1>1 DEF IInv, StoppedIsEmpty, ScreenInv, ScreenHasOneOwner, X11PointerValid
<1> QED BY <1>1, <1>8, <1>9, <1>10 DEF IInv

(* An X server ends; its object stays until it is noticed.                 *)
LEMMA XServerExitsInv ==
  ASSUME IInv, NEW x \in xservers, XServerExits(x)
  PROVE  IInv'
<1> DEFINE new == [x EXCEPT !.up = FALSE]
<1>1. new \in XServer /\ new.sid = x.sid
  BY DEF IInv, TypeOK, XServer
<1>2. xservers' = (xservers \ {x}) \cup {new}
       /\ UNCHANGED <<started, terminalId, failedStarts, generation, treeland, x11,
                      sessions, lastSession, activated, stateConf, connectedOnce,
                      sockets, auths, nextSid, reply, grouped>>
  BY DEF XServerExits, object, registry, saved
<1> HIDE DEF new
<1>3. SessionInv'
  BY <1>2, SameSessions
<1>4. TypeOK'
  BY <1>1, <1>2 DEF IInv, TypeOK
<1>5. StoppedIsEmpty'
  BY <1>2 DEF IInv, StoppedIsEmpty
<1>6. ScreenInv'
  BY <1>1, <1>2 DEF IInv, ScreenInv, ScreenHasOneOwner, X11PointerValid
<1> QED BY <1>2, <1>3, <1>4, <1>5, <1>6 DEF IInv

(* The display is stopped and replaced: everything it had is gone.         *)
LEMMA XServerFinishedInv ==
  ASSUME IInv, NEW x \in xservers, XServerFinished(x)
  PROVE  IInv'
<1>1. /\ generation' \in Nat /\ generation' >= 2
  BY DEF XServerFinished, StoppedSignals, IInv, TypeOK
<1>2. PICK vt \in GreeterVts, ok \in BOOLEAN :
        /\ terminalId' = vt /\ started' = ok /\ treeland' = ok
        /\ failedStarts' = IF ok THEN 0 ELSE 1
  BY DEF XServerFinished
<1>3. /\ connectedOnce' = FALSE /\ sockets' = {} /\ auths' = {}
      /\ x11' = NoSid /\ xservers' = {}
      /\ UNCHANGED <<sessions, lastSession, activated, stateConf, nextSid, reply,
                     grouped>>
  BY DEF XServerFinished, registry, saved
<1>4. TypeOK'
  <2>1. terminalId' \in VTs \cup {NoVt}
    BY <1>2, GreeterVtType
  <2>2. started' \in BOOLEAN /\ treeland' \in BOOLEAN /\ failedStarts' \in 0 .. 3
    BY <1>2
  <2> QED BY <1>1, <1>3, <2>1, <2>2 DEF IInv, TypeOK
<1>5. SessionInv'
  BY <1>1, <1>3 DEF IInv, SessionInv, SidsFresh, GroupsApart, OneSessionPerUser,
                    RegistryCoversAuths, RegistryExact, ScannedVtExclusive,
                    RunningSessionsApart, LiveTreelandVtGrouped
<1>6. StoppedIsEmpty' /\ ScreenInv'
  BY <1>2, <1>3 DEF StoppedIsEmpty, ScreenInv, ScreenHasOneOwner, X11PointerValid
<1> QED BY <1>1, <1>4, <1>5, <1>6 DEF IInv

(* Steps of others.                                                        *)
LEMMA StutterInv == ASSUME IInv, UNCHANGED vars PROVE IInv'
<1>1. SessionInv'
  BY SameSessions DEF vars, object, registry
<1>2. TypeOK'
  BY DEF IInv, TypeOK, vars, object, servers, registry, saved
<1> QED BY <1>1, <1>2 DEF IInv, StoppedIsEmpty, ScreenInv, ScreenHasOneOwner,
                          X11PointerValid, vars, object, servers

(* Every step keeps the invariant.                                         *)
LEMMA NextInv == IInv /\ [Next]_vars => IInv'
<1> SUFFICES ASSUME IInv, [Next]_vars PROVE IInv'
  OBVIOUS
<1>1. CASE RetryStart
  BY <1>1, RetryStartInv
<1>2. CASE \E s \in Sockets : AcceptSocket(s) \/ SocketCloses(s)
  BY <1>2, SocketInv
<1>3. CASE \E s \in Sockets : Connected(s)
  BY <1>3, ConnectedInv
<1>4. CASE \E s \in Sockets, u \in Users : Login(s, u)
  BY <1>4, LoginInv
<1>5. CASE \E s \in Sockets, u \in Users : Unlock(s, u)
  BY <1>5, UnlockInv
<1>6. CASE \E s \in Sockets, a \in auths : Logout(s, a)
  BY <1>6, LogoutInv
<1>7. CASE \E a \in auths : SessionExits(a)
  BY <1>7, SessionExitsInv
<1>8. CASE \E a \in auths : SessionFinished(a)
  BY <1>8, SessionFinishedInv
<1>9. CASE \E x \in xservers : XServerExits(x)
  BY <1>9, XServerExitsInv
<1>10. CASE \E x \in xservers : XServerFinished(x)
  BY <1>10, XServerFinishedInv
<1>11. CASE UNCHANGED vars
  BY <1>11, StutterInv
<1> QED BY <1>1, <1>2, <1>3, <1>4, <1>5, <1>6, <1>7, <1>8, <1>9, <1>10, <1>11
        DEF Next

-----------------------------------------------------------------------------
(* The theorems.                                                           *)

(* The inductive invariant holds in every behavior of the display.         *)
THEOREM Invariance == Spec => []IInv
BY InitInv, NextInv, PTL DEF Spec

(* Every variable keeps its type.                                          *)
THEOREM TypeCorrect == Spec => []TypeOK
<1>1. IInv => TypeOK
  BY DEF IInv
<1> QED BY <1>1, Invariance, PTL

(* Display::login and startAutologin never give a user two sessions.       *)
THEOREM UsersHaveOneSession == Spec => []OneSessionPerUser
<1>1. IInv => OneSessionPerUser
  BY DEF IInv, SessionInv
<1> QED BY <1>1, Invariance, PTL

(* Every open session is registered on D-Bus, once and as itself.          *)
THEOREM SessionsAreRegistered == Spec => []RegistryCoversAuths
<1>1. IInv => RegistryCoversAuths
  BY DEF IInv, SessionInv
<1> QED BY <1>1, Invariance, PTL

(* A VT picked by fetchAvailableUserVt is neither the greeter's nor that   *)
(* of an older auth.                                                       *)
THEOREM ScannedVtsAreExclusive == Spec => []ScannedVtExclusive
<1>1. IInv => ScannedVtExclusive
  BY DEF IInv, SessionInv
<1> QED BY <1>1, Invariance, PTL

(* Sessions that run are on different VTs.                                 *)
THEOREM RunningSessionsHaveOwnVts == Spec => []RunningSessionsApart
<1>1. IInv => RunningSessionsApart
  BY DEF IInv, SessionInv
<1> QED BY <1>1, Invariance, PTL

(* No cleanup ungroups the VT of another Treeland session.                 *)
THEOREM TreelandVtsStayGrouped == Spec => []LiveTreelandVtGrouped
<1>1. IInv => LiveTreelandVtGrouped
  BY DEF IInv, SessionInv
<1> QED BY <1>1, Invariance, PTL

(* Treeland, X servers and Wayland compositors never share the screen.     *)
THEOREM OneScreenOwner == Spec => []ScreenHasOneOwner
<1>1. IInv => ScreenHasOneOwner
  BY DEF IInv, ScreenInv
<1> QED BY <1>1, Invariance, PTL

(* Until a display was replaced, D-Bus lists exactly the open sessions.    *)
THEOREM RegistryIsExact == Spec => []RegistryExact
<1>1. IInv => RegistryExact
  BY DEF IInv, SessionInv
<1> QED BY <1>1, Invariance, PTL

(* stop() never follows a dangling m_x11Server.                            *)
THEOREM X11PointerStaysValid == Spec => []X11PointerValid
<1>1. IInv => X11PointerValid
  BY DEF IInv, ScreenInv
<1> QED BY <1>1, Invariance, PTL

(* While no end of a session awaits its handler, and until a display was   *)
(* replaced, findUserByVt names the user of every session.                 *)
LEMMA LookupFindsOwner == IInv => VtLookupFindsOwner
<1> SUFFICES ASSUME IInv, generation = 1, NEW a \in auths,
                    \A b \in auths : b.state # "exited"
             PROVE  FindUserByVt(a.tty) = a.user
  BY DEF VtLookupFindsOwner
<1> DEFINE here == {e \in sessions : e.vt = a.tty}
           entry == [sid |-> a.sid, user |-> a.user, vt |-> a.tty]
<1>1. entry \in sessions
  BY DEF IInv, SessionInv, RegistryCoversAuths
<1>2. \A e \in here : e = entry
  <2> SUFFICES ASSUME NEW e \in here PROVE e = entry
    OBVIOUS
  <2>1. PICK b \in auths : b.sid = e.sid
    BY DEF IInv, SessionInv, RegistryExact
  <2>2. e = [sid |-> b.sid, user |-> b.user, vt |-> b.tty]
    BY <2>1 DEF IInv, SessionInv, RegistryCoversAuths
  <2>3. b = a
    BY <2>2 DEF IInv, SessionInv, RunningSessionsApart
  <2> QED BY <2>2, <2>3
<1>3. entry \in here /\ here # {}
  BY <1>1
<1>4. entry.sid <= entry.sid
  BY DEF IInv, TypeOK, AuthType
<1>5. (CHOOSE e \in here : \A f \in here : e.sid <= f.sid) = entry
  <2> HIDE DEF entry, here
  <2> QED BY <1>2, <1>3, <1>4
<1>6. entry.user = a.user
  OBVIOUS
<1>7. FindUserByVt(a.tty) =
        IF here = {} THEN "dde"
        ELSE (CHOOSE e \in here : \A f \in here : e.sid <= f.sid).user
  BY DEF FindUserByVt
<1> HIDE DEF entry, here
<1> QED BY <1>3, <1>5, <1>6, <1>7

(* What D-Bus lists, and what is looked up in it, is what is open.         *)
THEOREM RegistryIsCorrect == Spec => []RegistryCorrect
<1>1. IInv => RegistryCorrect
  BY LookupFindsOwner DEF IInv, SessionInv, RegistryCorrect
<1> QED BY <1>1, Invariance, PTL

(* No two sessions are put on one VT, and none on the greeter's by a scan. *)
THEOREM VtsStayApart == Spec => []VtsApart
<1>1. IInv => VtsApart
  BY DEF IInv, SessionInv, VtsApart
<1> QED BY <1>1, Invariance, PTL

(* One display server owns the screen, and the daemon knows which it is.   *)
THEOREM ScreenIsCorrect == Spec => []ScreenCorrect
<1>1. IInv => ScreenCorrect
  BY DEF IInv, ScreenInv, ScreenCorrect
<1> QED BY <1>1, Invariance, PTL

-----------------------------------------------------------------------------
(* The display implements UserSessions: its auths are the open sessions,   *)
(* and every step of it opens or closes one, fails to, closes all, or is   *)
(* none of the abstract specification's business.                          *)

OpenSessions == {[sid |-> a.sid, user |-> a.user] : a \in auths}
PromiseStep == Promise!Next \/ UNCHANGED <<OpenSessions, nextSid>>

(* A session that was opened is UserSessions' Open.                        *)
LEMMA OpenedIsOpen ==
  ASSUME NEW a, ~HasAuth(a.user), a.sid = nextSid, a.user \in Users,
         Opened(a), nextSid' = nextSid + 1
  PROVE  PromiseStep
<1>1. auths' = auths \cup {a}
  BY DEF Opened
<1>2. OpenSessions' = OpenSessions \cup {[sid |-> nextSid, user |-> a.user]}
  BY <1>1 DEF OpenSessions
<1>3. \A s \in OpenSessions : s.user # a.user
  BY DEF OpenSessions, HasAuth
<1>4. Promise!Open(a.user)
  BY <1>2, <1>3 DEF Promise!Open, OpenSessions
<1> QED BY <1>4 DEF PromiseStep, Promise!Next

(* A session that was not opened is UserSessions' Fail.                    *)
LEMMA NotOpenedIsFail ==
  ASSUME NotOpened, nextSid' = nextSid + 1
  PROVE  PromiseStep
BY DEF NotOpened, Promise!Fail, Promise!Next, PromiseStep

(* What leaves auths and ids alone changes nothing that UserSessions       *)
(* shows.                                                                  *)
LEMMA QuietIsStutter == ASSUME UNCHANGED <<auths, nextSid>> PROVE PromiseStep
BY DEF PromiseStep, OpenSessions

(* Whatever way startUserSession ends, it is an Open or a Fail, or did     *)
(* nothing.                                                                *)
LEMMA StartUserSessionIsPromised ==
  ASSUME NEW u \in Users, NEW kind, NEW ok \in BOOLEAN, ~HasAuth(u),
         StartUserSession(u, kind, ok)
  PROVE  PromiseStep
<1>1. CASE InvalidSession
  BY <1>1, QuietIsStutter DEF InvalidSession, NotOpened
<1>2. CASE TreelandSession(u, ok)
  <2>1. nextSid' = nextSid + 1
    BY <1>2 DEF TreelandSession
  <2>2. ASSUME NEW vt \in FreeVts, Opened(NewAuth(u, "treeland", vt, FALSE))
        PROVE  PromiseStep
    <3> DEFINE a == NewAuth(u, "treeland", vt, FALSE)
    <3>1. a.sid = nextSid /\ a.user = u
      BY DEF NewAuth
    <3>2. Opened(a)
      BY <2>2
    <3> HIDE DEF a
    <3> QED BY <2>1, <3>1, <3>2, OpenedIsOpen
  <2> QED BY <1>2, <2>1, <2>2, NotOpenedIsFail DEF TreelandSession
<1>3. CASE OwnVtSession(u, kind, ok)
  <2>1. nextSid' = nextSid + 1
    BY <1>3 DEF OwnVtSession
  <2>2. ASSUME NEW vt, NEW scanned, Opened(NewAuth(u, kind, vt, scanned))
        PROVE  PromiseStep
    <3> DEFINE a == NewAuth(u, kind, vt, scanned)
    <3>1. a.sid = nextSid /\ a.user = u
      BY DEF NewAuth
    <3>2. Opened(a)
      BY <2>2
    <3> HIDE DEF a
    <3> QED BY <2>1, <3>1, <3>2, OpenedIsOpen
  <2>3. NotOpened \/ \E vt, scanned : Opened(NewAuth(u, kind, vt, scanned))
    BY <1>3 DEF OwnVtSession, ScreenTaken
  <2> QED BY <2>1, <2>2, <2>3, NotOpenedIsFail
<1> QED BY <1>1, <1>2, <1>3 DEF StartUserSession

(* Only an auth that really is one of several with its id could take more  *)
(* than one session away; ids are fresh, so there is none.                 *)
LEMMA SessionFinishedIsClose ==
  ASSUME IInv, NEW a \in auths, SessionFinished(a)
  PROVE  PromiseStep
<1> DEFINE s == [sid |-> a.sid, user |-> a.user]
<1>1. auths' = auths \ {a} /\ nextSid' = nextSid
  BY DEF SessionFinished
<1>2. \A b \in auths : [sid |-> b.sid, user |-> b.user] = s => b = a
  <2> SUFFICES ASSUME NEW b \in auths, [sid |-> b.sid, user |-> b.user] = s
               PROVE  b = a
    OBVIOUS
  <2>1. b.sid = a.sid
    OBVIOUS
  <2> QED BY <2>1 DEF IInv, SessionInv, SidsFresh
<1>3. OpenSessions' = OpenSessions \ {s}
  <2>1. OpenSessions' = {[sid |-> b.sid, user |-> b.user] : b \in auths \ {a}}
    BY <1>1 DEF OpenSessions
  <2> HIDE DEF s
  <2>2. ASSUME NEW x PROVE x \in OpenSessions' <=> x \in OpenSessions \ {s}
    BY <1>2, <2>1 DEF OpenSessions, s
  <2> QED BY <2>2
<1>4. s \in OpenSessions
  BY DEF OpenSessions
<1>5. Promise!Close(s)
  BY <1>1, <1>3 DEF Promise!Close, OpenSessions
<1> QED BY <1>4, <1>5 DEF PromiseStep, Promise!Next, OpenSessions

(* A session that was told to end, or has ended unnoticed, is still open   *)
(* for UserSessions.                                                       *)
LEMMA StateChangeIsStutter ==
  ASSUME NEW a \in auths, NEW state,
         auths' = (auths \ {a}) \cup {[a EXCEPT !.state = state]},
         TypeOK, UNCHANGED nextSid
  PROVE  PromiseStep
<1> DEFINE c == [a EXCEPT !.state = state]
<1>1. a \in AuthType
  BY DEF TypeOK
<1>2. c.sid = a.sid /\ c.user = a.user
  BY <1>1 DEF AuthType
<1>3. auths' = (auths \ {a}) \cup {c}
  OBVIOUS
<1> HIDE DEF c
<1>4. ASSUME NEW x PROVE x \in OpenSessions' <=> x \in OpenSessions
  BY <1>2, <1>3 DEF OpenSessions
<1>5. OpenSessions' = OpenSessions
  BY <1>4
<1> QED BY <1>5 DEF PromiseStep

(* Every step of the display is one of UserSessions, or leaves it alone.   *)
LEMMA NextIsPromised == IInv /\ [Next]_vars => PromiseStep
<1> SUFFICES ASSUME IInv, [Next]_vars PROVE PromiseStep
  OBVIOUS
<1>1. CASE RetryStart \/ UNCHANGED vars \/ \E x \in xservers : XServerExits(x)
  BY <1>1, QuietIsStutter DEF RetryStart, vars, XServerExits
<1>2. CASE \E s \in Sockets : AcceptSocket(s) \/ SocketCloses(s)
  BY <1>2, QuietIsStutter DEF AcceptSocket, SocketCloses
<1>3. CASE \E s \in Sockets : Connected(s)
  <2>1. CASE ~TriesAutologin
    BY <1>3, <2>1, QuietIsStutter DEF Connected
  <2>2. CASE TriesAutologin
    <3>1. PICK ok \in BOOLEAN : StartAutologin(ok)
      BY <1>3, <2>2 DEF Connected
    <3>2. ~HasAuth(AutologinUser) /\ AutologinUser \in Users
      BY <2>2, AutologinAssumption DEF TriesAutologin, HasAuth
    <3>3. CASE AutologinRefused
      BY <3>3, QuietIsStutter DEF AutologinRefused
    <3> QED BY <3>1, <3>2, <3>3, StartUserSessionIsPromised DEF StartAutologin
  <2> QED BY <2>1, <2>2
<1>4. CASE \E s \in Sockets, u \in Users : Login(s, u)
  <2>1. PICK s \in Sockets, u \in Users : Login(s, u)
    BY <1>4
  <2>2. CASE LoginRefused(u) \/ LoginIgnored(u)
    BY <2>2, QuietIsStutter DEF LoginRefused, LoginIgnored
  <2>3. ASSUME NEW kind \in DesktopSessions, NEW ok \in BOOLEAN,
               LoginAuthenticated(u, kind, ok)
        PROVE  PromiseStep
    BY <2>3, StartUserSessionIsPromised DEF LoginAuthenticated
  <2> QED BY <2>1, <2>2, <2>3 DEF Login
<1>5. CASE \E s \in Sockets, u \in Users : Unlock(s, u)
  BY <1>5, QuietIsStutter DEF Unlock
<1>6. CASE \E s \in Sockets, a \in auths : Logout(s, a)
  BY <1>6, StateChangeIsStutter DEF Logout, IInv
<1>7. CASE \E a \in auths : SessionExits(a)
  BY <1>7, StateChangeIsStutter DEF SessionExits, IInv
<1>8. CASE \E a \in auths : SessionFinished(a)
  BY <1>8, SessionFinishedIsClose
<1>9. CASE \E x \in xservers : XServerFinished(x)
  <2>1. auths' = {} /\ nextSid' = nextSid
    BY <1>9 DEF XServerFinished
  <2>2. Promise!CloseAll
    BY <2>1 DEF Promise!CloseAll
  <2> QED BY <2>2 DEF PromiseStep, Promise!Next
<1> QED BY <1>1, <1>2, <1>3, <1>4, <1>5, <1>6, <1>7, <1>8, <1>9 DEF Next

(* Every behavior of the display is one of UserSessions.                   *)
THEOREM SessionsKeepPromise == Spec => PromiseSpec
<1>1. Init => Promise!Init
  BY DEF Init, Promise!Init
<1>2. IInv /\ [Next]_vars => [Promise!Next]_<<OpenSessions, nextSid>>
  BY NextIsPromised DEF PromiseStep
<1> QED BY <1>1, <1>2, Invariance, PTL
        DEF Spec, PromiseSpec, Promise!Spec, OpenSessions

-----------------------------------------------------------------------------
(* What a step may never do.                                               *)

(* Whether or not it succeeds, startUserSession deletes no session, and if *)
(* it succeeds with a new id there is a session with that id.              *)
LEMMA StartOpensOrFails ==
  ASSUME NEW u, NEW kind, NEW ok \in BOOLEAN, StartUserSession(u, kind, ok)
  PROVE  /\ auths \subseteq auths'
         /\ ok /\ nextSid' # nextSid => \E a \in auths' : a.sid = nextSid
<1>1. ASSUME NEW vt, NEW scanned, NEW type, Opened(NewAuth(u, type, vt, scanned))
      PROVE  auths \subseteq auths' /\ \E a \in auths' : a.sid = nextSid
  <2>1. PICK a : a = NewAuth(u, type, vt, scanned)
    OBVIOUS
  <2>2. a.sid = nextSid
    BY <2>1 DEF NewAuth
  <2>3. auths' = auths \cup {a}
    BY <1>1, <2>1 DEF Opened
  <2> QED BY <2>2, <2>3
<1>2. CASE InvalidSession
  BY <1>2 DEF InvalidSession, NotOpened
<1>3. CASE TreelandSession(u, ok)
  <2>1. \/ \E vt : Opened(NewAuth(u, "treeland", vt, FALSE))
        \/ ~ok /\ NotOpened
    BY <1>3 DEF TreelandSession
  <2> QED BY <1>1, <2>1 DEF NotOpened
<1>4. CASE OwnVtSession(u, kind, ok)
  <2>1. \/ \E vt, scanned : Opened(NewAuth(u, kind, vt, scanned))
        \/ ~ok /\ NotOpened
    BY <1>4 DEF OwnVtSession, ScreenTaken
  <2> QED BY <1>1, <2>1 DEF NotOpened
<1> QED BY <1>2, <1>3, <1>4 DEF StartUserSession

(* A step that takes a new id for which no Auth stays behind answers the   *)
(* greeter.                                                                *)
LEMMA FailedStartStep ==
  ASSUME [Next]_vars, nextSid' # nextSid, \A a \in auths' : a.sid # nextSid
  PROVE  reply' \in {"LoginFailed", "ShowGreeter"}
<1>1. CASE \E s \in Sockets : Connected(s)
  <2>1. TriesAutologin
    BY <1>1 DEF Connected
  <2>2. PICK ok \in BOOLEAN :
          StartAutologin(ok) /\ reply' = IF ok THEN "none" ELSE "ShowGreeter"
    BY <1>1, <2>1 DEF Connected
  <2>3. StartUserSession(AutologinUser, AutologinKind, ok)
    BY <2>2 DEF StartAutologin, AutologinRefused
  <2>4. ~ok
    BY <2>3, StartOpensOrFails
  <2> QED BY <2>2, <2>4
<1>2. CASE \E s \in Sockets, u \in Users : Login(s, u)
  <2>1. PICK s \in Sockets, u \in Users : Login(s, u)
    BY <1>2
  <2>2. PICK kind \in DesktopSessions, ok \in BOOLEAN : LoginAuthenticated(u, kind, ok)
    BY <2>1 DEF Login, LoginRefused, LoginIgnored
  <2>3. /\ StartUserSession(u, kind, ok)
        /\ reply' = IF ~ok THEN "LoginFailed"
                    ELSE IF kind = "treeland" THEN "UserActivate" ELSE "none"
    BY <2>2 DEF LoginAuthenticated
  <2>4. ~ok
    BY <2>3, StartOpensOrFails
  <2> QED BY <2>3, <2>4
<1>3. \/ \E s \in Sockets : Connected(s)
      \/ \E s \in Sockets, u \in Users : Login(s, u)
  <2>1. \A s \in Sockets : ~AcceptSocket(s) /\ ~SocketCloses(s)
    BY DEF AcceptSocket, SocketCloses
  <2>2. \A s \in Sockets, u \in Users : ~Unlock(s, u)
    BY DEF Unlock
  <2>3. \A a \in auths : /\ ~SessionExits(a) /\ ~SessionFinished(a)
                         /\ \A s \in Sockets : ~Logout(s, a)
    BY DEF SessionExits, SessionFinished, Logout
  <2>4. \A x \in xservers : ~XServerExits(x) /\ ~XServerFinished(x)
    BY DEF XServerExits, XServerFinished
  <2>5. ~RetryStart /\ ~UNCHANGED vars
    BY DEF RetryStart, vars
  <2> QED BY <2>1, <2>2, <2>3, <2>4, <2>5 DEF Next
<1> QED BY <1>1, <1>2, <1>3

(* An attempt to start a session that used up an id and opened nothing is  *)
(* answered, on every path through startUserSession.                       *)
THEOREM FailedStartAlwaysAnswered == Spec => FailedStartAnswered
<1>1. [Next]_vars =>
        [nextSid' # nextSid /\ (\A a \in auths' : a.sid # nextSid)
           => reply' \in {"LoginFailed", "ShowGreeter"}]_vars
  BY FailedStartStep
<1> QED BY <1>1, PTL DEF Spec, FailedStartAnswered

(* What is left of a session after a step.                                 *)
InOrder ==
  \/ auths' = {} /\ generation' # generation
  \/ \A a \in auths : \/ \E b \in auths' : b.sid = a.sid
                      \/ a.state = "exited"

(* Auths that stay are in order.                                           *)
LEMMA KeptInOrder == ASSUME auths \subseteq auths' PROVE InOrder
BY DEF InOrder

(* A session that moves on to its end is in order.                         *)
LEMMA StateChangeInOrder ==
  ASSUME TypeOK, NEW a \in auths, NEW state,
         auths' = (auths \ {a}) \cup {[a EXCEPT !.state = state]}
  PROVE  InOrder
<1>1. PICK c : c = [a EXCEPT !.state = state]
  OBVIOUS
<1>2. c.sid = a.sid
  BY <1>1 DEF TypeOK, AuthType
<1>3. auths' = (auths \ {a}) \cup {c}
  BY <1>1
<1> QED BY <1>2, <1>3 DEF InOrder

(* In every step an Auth stays, or its process had exited, or its display  *)
(* is replaced.                                                            *)
LEMMA EndStep ==
  ASSUME IInv, [Next]_vars
  PROVE  InOrder
<1>1. CASE RetryStart \/ UNCHANGED vars \/ \E x \in xservers : XServerExits(x)
  BY <1>1, KeptInOrder DEF RetryStart, vars, XServerExits
<1>2. CASE \E s \in Sockets : AcceptSocket(s) \/ SocketCloses(s)
  BY <1>2, KeptInOrder DEF AcceptSocket, SocketCloses
<1>3. CASE \E s \in Sockets : Connected(s)
  <2>1. CASE ~TriesAutologin
    BY <1>3, <2>1, KeptInOrder DEF Connected
  <2>2. CASE TriesAutologin
    <3>1. PICK ok \in BOOLEAN : StartAutologin(ok)
      BY <1>3, <2>2 DEF Connected
    <3>2. CASE AutologinRefused
      BY <3>2, KeptInOrder DEF AutologinRefused
    <3> QED BY <3>1, <3>2, StartOpensOrFails, KeptInOrder DEF StartAutologin
  <2> QED BY <2>1, <2>2
<1>4. CASE \E s \in Sockets, u \in Users : Login(s, u)
  <2>1. PICK s \in Sockets, u \in Users : Login(s, u)
    BY <1>4
  <2>2. CASE LoginRefused(u) \/ LoginIgnored(u)
    BY <2>2, KeptInOrder DEF LoginRefused, LoginIgnored
  <2>3. ASSUME NEW kind \in DesktopSessions, NEW ok \in BOOLEAN,
               LoginAuthenticated(u, kind, ok)
        PROVE  InOrder
    BY <2>3, StartOpensOrFails, KeptInOrder DEF LoginAuthenticated
  <2> QED BY <2>1, <2>2, <2>3 DEF Login
<1>5. CASE \E s \in Sockets, u \in Users : Unlock(s, u)
  BY <1>5, KeptInOrder DEF Unlock
<1>6. CASE \E s \in Sockets, a \in auths : Logout(s, a)
  BY <1>6, StateChangeInOrder DEF Logout, IInv
<1>7. CASE \E a \in auths : SessionExits(a)
  BY <1>7, StateChangeInOrder DEF SessionExits, IInv
<1>8. CASE \E a \in auths : SessionFinished(a)
  BY <1>8 DEF SessionFinished, InOrder
<1>9. CASE \E x \in xservers : XServerFinished(x)
  <2>1. PICK x \in xservers : XServerFinished(x)
    BY <1>9
  <2>2. generation \in Nat /\ StoppedSignals(x) \in {1, 2}
    BY DEF IInv, TypeOK, StoppedSignals
  <2>3. auths' = {} /\ generation' # generation
    BY <2>1, <2>2 DEF XServerFinished
  <2> QED BY <2>3 DEF InOrder
<1> QED BY <1>1, <1>2, <1>3, <1>4, <1>5, <1>6, <1>7, <1>8, <1>9 DEF Next

(* Sessions go away with their display, all at once, or one by one after   *)
(* their process exited; nothing else ends a session.                      *)
THEOREM SessionsAlwaysEndInOrder == Spec => SessionsEndInOrder
<1>1. IInv /\ [Next]_vars =>
        [\/ auths' = {} /\ generation' # generation
         \/ \A a \in auths : \/ \E b \in auths' : b.sid = a.sid
                             \/ a.state = "exited"]_vars
  BY EndStep DEF InOrder
<1> QED BY <1>1, Invariance, PTL DEF Spec, SessionsEndInOrder
=============================================================================
