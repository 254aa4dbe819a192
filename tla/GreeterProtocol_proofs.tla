------------------------ MODULE GreeterProtocol_proofs ------------------------
(***************************************************************************)
(* Proofs about GreeterProtocol, for every finite set of greeters, every   *)
(* list of power backends and every bound.                                 *)
(***************************************************************************)
EXTENDS GreeterProtocol, SequenceTheorems, WellFoundedInduction, TLAPS

(* A connection the daemon has not accepted yet is in no list.             *)
Unlisted ==
  \A g \in Greeters : link[g] = "none" => listed[g] = 0 /\ connects[g] = 0

(* The daemon has a socket only for a connection that was opened.          *)
NoneUnopened == \A g \in Greeters : peer[g] = "absent" => link[g] = "none"

(* What a greeter was told it may ask for, some backend can do.            *)
PromisesBacked == \A g \in Greeters : promised[g] \subseteq Announced

(* The part of the type invariant about the connections.                   *)
SocketTypes ==
  /\ wire \in [Greeters -> Seq(Request)] /\ buffer \in [Greeters -> Seq(Request)]
  /\ link \in [Greeters -> {"none", "up", "gone"}]
  /\ reading \in Greeters \cup {NoGreeter}
  /\ (reading # NoGreeter => link[reading] = "up" /\ buffer[reading] # <<>>)
  /\ listed \in [Greeters -> Nat] /\ connects \in [Greeters -> Nat]
  /\ late \subseteq Greeters

(* The rest of it.                                                         *)
OtherTypes ==
  /\ peer \in [Greeters -> {"absent", "open", "closed"}]
  /\ sent \in Nat /\ server \in {"up", "stopped", "deleted"}
  /\ told \in [Greeters -> SUBSET Nat]
  /\ sessions \subseteq Session /\ nextId \in Nat /\ down \in BOOLEAN
  /\ can \in [Registered -> SUBSET Ops]
  /\ promised \in [Greeters -> SUBSET Ops]
  /\ lastPower \in [by : SUBSET Registered, promised : BOOLEAN]

(* The inductive invariant.                                                *)
ConnectionInv == SocketTypes /\ NoRequestLeftBehind /\ GreetersListed /\ Unlisted
PowerInv == PromisesBacked /\ PowerPromiseKept
IInv ==
  ConnectionInv /\ OtherTypes /\ NoneUnopened /\ PowerInv /\ GreetersKnowSessions

USE GreetersAssumption

-----------------------------------------------------------------------------
(* Sets of numbers have a least element.                                   *)
LEMMA LeastNumber ==
  ASSUME NEW T \in SUBSET Nat, T # {}
  PROVE  \E x \in T : \A y \in T : x <= y
<1> DEFINE R == OpToRel(<, Nat)
<1>1. IsWellFoundedOn(R, Nat)
  BY NatLessThanWellFounded
<1>2. \A x, y \in Nat : y < x => <<y, x>> \in R
  BY DEF OpToRel
<1> HIDE DEF R
<1>3. PICK x \in T : \A y \in T : <<y, x>> \notin R
  BY <1>1, WFMin
<1>4. \A y \in T : ~ (y < x)
  BY <1>2, <1>3
<1> QED BY <1>4

(* A power request is given to at most one backend, and to one if any says *)
(* that it can do it.                                                      *)
LEMMA OneBackendCalled ==
  ASSUME can \in [Registered -> SUBSET Ops], NEW op
  PROVE  /\ CalledBackends(op) \subseteq Registered
         /\ \A a, b \in CalledBackends(op) : a = b
         /\ op \in Announced => CalledBackends(op) # {}
<1>1. AbleBackends(op) \subseteq 1 .. Len(Backends) /\ Len(Backends) \in Nat
  BY BackendsAssumption DEF AbleBackends
<1>2. CalledBackends(op) \subseteq Registered
  BY <1>1 DEF CalledBackends, Registered
<1>3. \A a, b \in CalledBackends(op) : a = b
  <2> SUFFICES ASSUME NEW i \in AbleBackends(op), NEW j \in AbleBackends(op),
                      \A k \in AbleBackends(op) : i <= k,
                      \A k \in AbleBackends(op) : j <= k
               PROVE  Backends[i] = Backends[j]
    BY DEF CalledBackends
  <2>1. i = j
    BY <1>1
  <2> QED BY <2>1
<1>4. ASSUME op \in Announced PROVE CalledBackends(op) # {}
  <2>1. PICK i \in 1 .. Len(Backends) : op \in can[Backends[i]]
    BY <1>4 DEF Announced, Registered
  <2>2. AbleBackends(op) # {}
    BY <2>1 DEF AbleBackends
  <2>3. AbleBackends(op) \in SUBSET Nat
    BY <1>1
  <2>4. PICK j \in AbleBackends(op) : \A k \in AbleBackends(op) : j <= k
    BY <2>2, <2>3, LeastNumber
  <2> QED BY <2>4 DEF CalledBackends
<1> QED BY <1>2, <1>3, <1>4

-----------------------------------------------------------------------------
(* Sockets that break keep what the list of greeters is good for.          *)
LEMMA DisconnectedKeepsList ==
  ASSUME ConnectionInv, NEW S \in SUBSET {g \in Greeters : link[g] = "up"},
         Disconnected(S), UNCHANGED <<connects, late>>
  PROVE  /\ wire' \in [Greeters -> Seq(Request)]
         /\ link' \in [Greeters -> {"none", "up", "gone"}]
         /\ listed' \in [Greeters -> Nat] /\ connects' \in [Greeters -> Nat]
         /\ late' \subseteq Greeters
         /\ GreetersListed' /\ Unlisted'
<1> USE DEF ConnectionInv, SocketTypes, Disconnected, RemoveOne
<1>1. wire' \in [Greeters -> Seq(Request)]
  <2>1. <<>> \in Seq(Request)
    OBVIOUS
  <2> QED BY <2>1
<1>2. link' \in [Greeters -> {"none", "up", "gone"}]
  OBVIOUS
<1>3. listed' \in [Greeters -> Nat] /\ connects' \in [Greeters -> Nat]
  OBVIOUS
<1>4. GreetersListed'
  BY DEF GreetersListed
<1>5. Unlisted'
  BY DEF Unlisted
<1> QED BY <1>1, <1>2, <1>3, <1>4, <1>5

(* The loop of readyRead leaves nothing behind, and goes on only with a    *)
(* socket that is still there.                                             *)
LEMMA ConsumeKeepsBuffers ==
  ASSUME ConnectionInv, reading # NoGreeter, NEW S \in SUBSET Greeters,
         Consume(S), link' = [g \in Greeters |-> IF g \in S THEN "gone" ELSE link[g]]
  PROVE  /\ buffer' \in [Greeters -> Seq(Request)]
         /\ reading' \in Greeters \cup {NoGreeter}
         /\ (reading' # NoGreeter => link'[reading'] = "up" /\ buffer'[reading'] # <<>>)
         /\ NoRequestLeftBehind'
<1> USE DEF ConnectionInv, SocketTypes
<1>1. reading \in Greeters /\ buffer[reading] \in Seq(Request) /\ buffer[reading] # <<>>
  OBVIOUS
<1>2. Tail(buffer[reading]) \in Seq(Request) /\ <<>> \in Seq(Request)
  BY <1>1, HeadTailProperties
<1>3. Remaining(S) \in Seq(Request) /\ (reading \in S => Remaining(S) = <<>>)
  BY <1>2 DEF Remaining
<1>4. /\ buffer' = [g \in Greeters |->
                     IF g = reading THEN Remaining(S)
                     ELSE IF g \in S THEN <<>> ELSE buffer[g]]
      /\ reading' = IF Remaining(S) = <<>> THEN NoGreeter ELSE reading
  BY DEF Consume
<1>5. buffer' \in [Greeters -> Seq(Request)]
  BY <1>2, <1>3, <1>4
<1>6. reading' # NoGreeter => link'[reading'] = "up" /\ buffer'[reading'] # <<>>
  BY <1>1, <1>3, <1>4
<1>7. NoRequestLeftBehind'
  BY <1>1, <1>4 DEF NoRequestLeftBehind
<1> QED BY <1>1, <1>4, <1>5, <1>6, <1>7

(* What a step that reads nothing and calls no backend keeps.              *)
LEMMA ConnectionInvKept ==
  ASSUME ConnectionInv, UNCHANGED <<wire, link, buffer, reading, listed, connects, late>>
  PROVE  ConnectionInv'
BY DEF ConnectionInv, SocketTypes, NoRequestLeftBehind, GreetersListed, Unlisted

(* What leaves backends, promises and the last request alone keeps the     *)
(* part about power.                                                       *)
LEMMA PowerInvKept ==
  ASSUME PowerInv, UNCHANGED <<can, promised, lastPower>>
  PROVE  PowerInv'
BY DEF PowerInv, PromisesBacked, Announced, PowerPromiseKept

(* Greeters stay informed if no session is opened, no greeter joins and    *)
(* none forgets.                                                           *)
LEMMA KnowledgeKept ==
  ASSUME GreetersKnowSessions,
         sessions' \subseteq sessions,
         \A g \in Greeters : told[g] \subseteq told'[g],
         \A g \in Greeters :
           link'[g] = "up" /\ peer'[g] = "open" /\ connects'[g] > 0 =>
             link[g] = "up" /\ peer[g] = "open" /\ connects[g] > 0
  PROVE  GreetersKnowSessions'
BY DEF GreetersKnowSessions

-----------------------------------------------------------------------------
(* The steps of the greeters and of Qt.                                    *)
LEMMA ConnectionStepInv ==
  ASSUME IInv, NEW g \in Greeters,
         \/ GreeterConnects(g) \/ GreeterCloses(g)
         \/ \E r \in Request : GreeterSends(g, r)
         \/ NewConnection(g) \/ ReadyRead(g) \/ ConnectionCloses(g)
  PROVE  IInv'
<1> USE DEF socket, greeterList, power, far
<1>1. CASE GreeterConnects(g) \/ GreeterCloses(g)
  <2>1. UNCHANGED <<socket, reading, greeterList, sessions, nextId, power, sent, server, down>>
    BY <1>1 DEF GreeterConnects, GreeterCloses
  <2>2. OtherTypes' /\ NoneUnopened'
    BY <1>1, <2>1 DEF GreeterConnects, GreeterCloses, IInv, OtherTypes, NoneUnopened
  <2>3. ConnectionInv' /\ PowerInv'
    BY <2>1, ConnectionInvKept, PowerInvKept DEF IInv
  <2>4. \A h \in Greeters : peer'[h] = "open" /\ link[h] # "none" => peer[h] = "open"
    BY <1>1 DEF GreeterConnects, GreeterCloses, IInv, OtherTypes, NoneUnopened
  <2>5. GreetersKnowSessions'
    BY <2>1, <2>4, KnowledgeKept DEF IInv
  <2> QED BY <2>2, <2>3, <2>5 DEF IInv
<1>2. ASSUME NEW r \in Request, GreeterSends(g, r) PROVE IInv'
  <2>1. wire' = [wire EXCEPT ![g] = Append(@, r)]
        /\ UNCHANGED <<peer, link, buffer, reading, server, greeterList, sessions,
                       nextId, power, down>>
    BY <1>2 DEF GreeterSends
  <2>2. wire' \in [Greeters -> Seq(Request)]
    <3>1. wire[g] \in Seq(Request)
      BY DEF IInv, ConnectionInv, SocketTypes
    <3>2. Append(wire[g], r) \in Seq(Request)
      BY <3>1
    <3> QED BY <2>1, <3>2 DEF IInv, ConnectionInv, SocketTypes
  <2>3. ConnectionInv'
    BY <2>1, <2>2 DEF IInv, ConnectionInv, SocketTypes, NoRequestLeftBehind,
                      GreetersListed, Unlisted
  <2>4. OtherTypes' /\ NoneUnopened'
    BY <1>2, <2>1 DEF GreeterSends, IInv, OtherTypes, NoneUnopened
  <2>5. PowerInv' /\ GreetersKnowSessions'
    BY <2>1, PowerInvKept, KnowledgeKept DEF IInv
  <2> QED BY <2>3, <2>4, <2>5 DEF IInv
<1>3. CASE NewConnection(g)
  <2>1. /\ UNCHANGED <<far, wire, buffer, reading, server, greeterList, sessions,
                       nextId, power>>
        /\ reading = NoGreeter /\ peer[g] # "absent" /\ link[g] = "none"
        /\ down' \in BOOLEAN
        /\ link' = link \/ link' = [link EXCEPT ![g] = "up"]
    BY <1>3 DEF NewConnection, IInv, OtherTypes
  <2>2. ConnectionInv'
    <3>1. SocketTypes' /\ NoRequestLeftBehind'
      BY <2>1 DEF IInv, ConnectionInv, SocketTypes, NoRequestLeftBehind
    <3>2. GreetersListed' /\ Unlisted'
      BY <2>1 DEF IInv, ConnectionInv, SocketTypes, GreetersListed, Unlisted
    <3> QED BY <3>1, <3>2 DEF ConnectionInv
  <2>3. OtherTypes' /\ NoneUnopened'
    BY <2>1 DEF IInv, ConnectionInv, SocketTypes, OtherTypes, NoneUnopened
  <2>4. PowerInv'
    BY <2>1, PowerInvKept DEF IInv
  <2>5. connects[g] = 0 /\ \A h \in Greeters \ {g} : link'[h] = link[h]
    BY <2>1 DEF IInv, ConnectionInv, SocketTypes, Unlisted
  <2>6. GreetersKnowSessions'
    BY <2>1, <2>5, KnowledgeKept DEF IInv
  <2> QED BY <2>2, <2>3, <2>4, <2>6 DEF IInv
<1>4. CASE ReadyRead(g)
  <2>1. PICK n \in 1 .. Len(wire[g]) :
          /\ buffer' = [buffer EXCEPT ![g] = @ \o SubSeq(wire[g], 1, n)]
          /\ wire' = [wire EXCEPT ![g] = SubSeq(@, n + 1, Len(@))]
    BY <1>4 DEF ReadyRead
  <2>2. /\ reading = NoGreeter /\ link[g] = "up" /\ reading' = g
        /\ UNCHANGED <<far, link, server, greeterList, sessions, nextId, power, down>>
    BY <1>4 DEF ReadyRead
  <2>3. wire[g] \in Seq(Request) /\ buffer[g] = <<>> /\ n \in Nat /\ n >= 1 /\ n <= Len(wire[g])
    BY <2>1, <2>2 DEF IInv, ConnectionInv, SocketTypes, NoRequestLeftBehind
  <2>4. /\ SubSeq(wire[g], 1, n) \in Seq(Request) /\ Len(SubSeq(wire[g], 1, n)) = n
        /\ SubSeq(wire[g], n + 1, Len(wire[g])) \in Seq(Request)
    BY <2>3
  <2>5. /\ buffer[g] \o SubSeq(wire[g], 1, n) \in Seq(Request)
        /\ buffer[g] \o SubSeq(wire[g], 1, n) # <<>>
    BY <2>3, <2>4, ConcatEmptySeq
  <2>6. /\ buffer' \in [Greeters -> Seq(Request)] /\ wire' \in [Greeters -> Seq(Request)]
        /\ buffer'[g] # <<>> /\ \A h \in Greeters \ {g} : buffer'[h] = buffer[h]
    BY <2>1, <2>4, <2>5 DEF IInv, ConnectionInv, SocketTypes
  <2>7. ConnectionInv'
    <3>1. SocketTypes' /\ NoRequestLeftBehind'
      BY <2>2, <2>6 DEF IInv, ConnectionInv, SocketTypes, NoRequestLeftBehind
    <3>2. GreetersListed' /\ Unlisted'
      BY <2>2 DEF IInv, ConnectionInv, GreetersListed, Unlisted
    <3> QED BY <3>1, <3>2 DEF ConnectionInv
  <2>8. OtherTypes' /\ NoneUnopened'
    BY <2>2 DEF IInv, OtherTypes, NoneUnopened
  <2>9. PowerInv' /\ GreetersKnowSessions'
    BY <2>2, PowerInvKept, KnowledgeKept DEF IInv
  <2> QED BY <2>7, <2>8, <2>9 DEF IInv
<1>5. CASE ConnectionCloses(g)
  <2>1. /\ reading = NoGreeter /\ link[g] = "up" /\ Disconnected({g})
        /\ buffer' = [buffer EXCEPT ![g] = <<>>]
        /\ UNCHANGED <<far, reading, server, connects, late, told, sessions,
                       nextId, power, down>>
    BY <1>5 DEF ConnectionCloses, Broken
  <2>2. ConnectionInv'
    <3>1. /\ wire' \in [Greeters -> Seq(Request)]
          /\ link' \in [Greeters -> {"none", "up", "gone"}]
          /\ listed' \in [Greeters -> Nat] /\ connects' \in [Greeters -> Nat]
          /\ late' \subseteq Greeters /\ GreetersListed' /\ Unlisted'
      BY <2>1, DisconnectedKeepsList DEF IInv
    <3>2. <<>> \in Seq(Request)
      OBVIOUS
    <3>3. buffer' \in [Greeters -> Seq(Request)] /\ NoRequestLeftBehind'
      BY <2>1, <3>2 DEF IInv, ConnectionInv, SocketTypes, NoRequestLeftBehind
    <3> QED BY <2>1, <3>1, <3>3 DEF ConnectionInv, SocketTypes
  <2>3. OtherTypes' /\ NoneUnopened'
    BY <2>1 DEF IInv, ConnectionInv, SocketTypes, OtherTypes, NoneUnopened, Disconnected
  <2>4. PowerInv'
    BY <2>1, PowerInvKept DEF IInv
  <2>5. \A h \in Greeters : link'[h] = "up" => link[h] = "up"
    BY <2>1 DEF Disconnected
  <2>6. GreetersKnowSessions'
    BY <2>1, <2>5, KnowledgeKept DEF IInv
  <2> QED BY <2>2, <2>3, <2>4, <2>6 DEF IInv
<1> QED BY <1>1, <1>2, <1>3, <1>4, <1>5

-----------------------------------------------------------------------------
(* Handling a request.  Every branch takes it out of the buffer, and drops *)
(* the sockets S that turned out to be broken while it was answered.       *)
LEMMA HandledKeepsConnections ==
  ASSUME ConnectionInv, reading # NoGreeter,
         NEW S \in SUBSET {g \in Greeters : link[g] = "up"},
         Disconnected(S), Consume(S), UNCHANGED <<connects, late>>
  PROVE  /\ ConnectionInv'
         /\ \A g \in Greeters : link'[g] = "up" => link[g] = "up"
         /\ \A g \in Greeters : link'[g] = "none" <=> link[g] = "none"
<1>1. link' = [g \in Greeters |-> IF g \in S THEN "gone" ELSE link[g]]
  BY DEF Disconnected
<1>2. /\ buffer' \in [Greeters -> Seq(Request)]
      /\ reading' \in Greeters \cup {NoGreeter}
      /\ (reading' # NoGreeter => link'[reading'] = "up" /\ buffer'[reading'] # <<>>)
      /\ NoRequestLeftBehind'
  BY <1>1, ConsumeKeepsBuffers
<1>3. /\ wire' \in [Greeters -> Seq(Request)]
      /\ link' \in [Greeters -> {"none", "up", "gone"}]
      /\ listed' \in [Greeters -> Nat] /\ connects' \in [Greeters -> Nat]
      /\ late' \subseteq Greeters
      /\ GreetersListed' /\ Unlisted'
  BY DisconnectedKeepsList
<1> QED BY <1>1, <1>2, <1>3 DEF ConnectionInv, SocketTypes

(* A handler on whose writes nothing breaks loses no connection.           *)
LEMMA NothingDropped ==
  ASSUME ConnectionInv, UNCHANGED <<wire, link, listed>>
  PROVE  Disconnected({})
BY DEF ConnectionInv, SocketTypes, Disconnected

(* Activating a session: as one answer among others.  With two greeters at *)
(* most, all that are listed and alive are reached.                        *)
LEMMA ActivatedInAnswer ==
  ASSUME IInv, reading # NoGreeter, NEW ids \in SUBSET Nat,
         ActivateInAnswer(ids), UNCHANGED <<connects, late, peer>>
  PROVE  /\ ConnectionInv' /\ NoneUnopened'
         /\ told' \in [Greeters -> SUBSET Nat] /\ down' \in BOOLEAN
         /\ \A g \in Greeters : told[g] \subseteq told'[g]
         /\ \A g \in Greeters : link'[g] = "up" => link[g] = "up"
         /\ Cardinality(Greeters) <= 2 =>
              \A g \in Greeters :
                listed[g] > 0 /\ link[g] = "up" /\ peer[g] # "closed" => ids \subseteq told'[g]
<1> DEFINE live == {g \in Listed : link[g] = "up" /\ peer[g] # "closed"}
<1>1. PICK S \in Reached : ToldOf(S, ids)
  BY DEF ActivateInAnswer, Activate
<1>2. /\ Disconnected(Broken(Listed)) /\ Consume(Broken(Listed)) /\ down' \in BOOLEAN
      /\ Broken(Listed) \in SUBSET {g \in Greeters : link[g] = "up"}
  BY DEF ActivateInAnswer, Activate, Broken, Listed
<1>3. /\ ConnectionInv'
      /\ \A g \in Greeters : link'[g] = "up" => link[g] = "up"
      /\ \A g \in Greeters : link'[g] = "none" <=> link[g] = "none"
  BY <1>2, HandledKeepsConnections DEF IInv
<1>4. NoneUnopened'
  BY <1>3 DEF IInv, NoneUnopened
<1>5. told' \in [Greeters -> SUBSET Nat] /\ \A g \in Greeters : told[g] \subseteq told'[g]
  BY <1>1 DEF ToldOf, IInv, OtherTypes
<1>6. ASSUME Cardinality(Greeters) <= 2, NEW g \in Greeters,
             listed[g] > 0, link[g] = "up", peer[g] # "closed"
      PROVE  ids \subseteq told'[g]
  <2>1. S = live /\ g \in live
    BY <1>1, <1>6 DEF Reached, Listed
  <2> QED BY <1>1, <2>1 DEF ToldOf
<1> QED BY <1>2, <1>3, <1>4, <1>5, <1>6

(* A power request that was handled went to one backend if it was          *)
(* promised, and to none that is not registered.                           *)
LEMMA HandledPower ==
  ASSUME IInv, HandleRequest
  PROVE  /\ lastPower' \in [by : SUBSET Registered, promised : BOOLEAN]
         /\ PowerPromiseKept'
<1>1. can \in [Registered -> SUBSET Ops] /\ reading \in Greeters
  BY DEF IInv, OtherTypes, ConnectionInv, SocketTypes, HandleRequest
<1>2. CASE NextRequest.type = "Power"
  <2> DEFINE op == NextRequest.op
  <2>1. lastPower' = [by |-> CalledBackends(op), promised |-> op \in promised[reading]]
    BY <1>2 DEF HandleRequest, PowerResult
  <2>2. op \in promised[reading] => op \in Announced
    BY <1>1 DEF IInv, PowerInv, PromisesBacked
  <2> DEFINE p == op \in promised[reading]
  <2>3. p \in BOOLEAN /\ (p => op \in Announced)
    BY <2>2
  <2>4. /\ CalledBackends(op) \subseteq Registered
        /\ \A a, b \in CalledBackends(op) : a = b
        /\ op \in Announced => CalledBackends(op) # {}
    BY <1>1, OneBackendCalled
  <2>5. lastPower' = [by |-> CalledBackends(op), promised |-> p]
    BY <2>1
  <2> HIDE DEF op, p
  <2> QED BY <2>3, <2>4, <2>5 DEF PowerPromiseKept
<1>3. CASE NextRequest.type # "Power"
  <2>1. lastPower' = [by |-> {}, promised |-> FALSE]
    BY <1>3 DEF HandleRequest, NoPower
  <2> QED BY <2>1 DEF PowerPromiseKept
<1> QED BY <1>2, <1>3

(* The promises of a handler that is not Connect's stay as they were.      *)
LEMMA PromisesKept ==
  ASSUME IInv, UNCHANGED <<can, promised>>
  PROVE  /\ can' \in [Registered -> SUBSET Ops]
         /\ promised' \in [Greeters -> SUBSET Ops]
         /\ PromisesBacked'
BY DEF IInv, OtherTypes, PowerInv, PromisesBacked, Announced

(* Connect: the greeter is listed and told of the open sessions, unless    *)
(* its connection breaks meanwhile.                                        *)
LEMMA HandleConnectInv ==
  ASSUME IInv, HandleRequest, HandleConnect
  PROVE  IInv'
<1> DEFINE broken == Broken({reading})
<1>1. /\ reading \in Greeters /\ link[reading] = "up" /\ reading # NoGreeter
      /\ broken \in SUBSET {reading}
      /\ UNCHANGED <<peer, sent, server, sessions, nextId, can, down>>
  BY DEF HandleRequest, HandleConnect, Broken, IInv, ConnectionInv, SocketTypes, far
<1>2. /\ connects' = [connects EXCEPT ![reading] = @ + 1]
      /\ link' = [g \in Greeters |-> IF g \in broken THEN "gone" ELSE link[g]]
      /\ wire' = [g \in Greeters |-> IF g \in broken THEN <<>> ELSE wire[g]]
      /\ listed' = [listed EXCEPT ![reading] =
                      IF broken = {} THEN @ + 1 ELSE RemoveOne(@) + 1]
      /\ late' = late \cup broken
      /\ Consume(broken)
  BY DEF HandleConnect
<1>3. IF broken = {}
      THEN /\ ToldOf({reading}, Replayed)
           /\ promised' = [promised EXCEPT ![reading] = Announced]
      ELSE UNCHANGED <<told, promised>>
  BY DEF HandleConnect
<1> HIDE DEF broken
<1>4. /\ buffer' \in [Greeters -> Seq(Request)]
      /\ reading' \in Greeters \cup {NoGreeter}
      /\ (reading' # NoGreeter => link'[reading'] = "up" /\ buffer'[reading'] # <<>>)
      /\ NoRequestLeftBehind'
  BY <1>1, <1>2, ConsumeKeepsBuffers DEF IInv
<1>5. SocketTypes'
  <2>1. <<>> \in Seq(Request)
    OBVIOUS
  <2>2. wire' \in [Greeters -> Seq(Request)] /\ link' \in [Greeters -> {"none", "up", "gone"}]
    BY <1>2, <2>1 DEF IInv, ConnectionInv, SocketTypes
  <2>3. listed' \in [Greeters -> Nat] /\ connects' \in [Greeters -> Nat]
    BY <1>1, <1>2 DEF IInv, ConnectionInv, SocketTypes, RemoveOne
  <2>4. late' \subseteq Greeters
    BY <1>1, <1>2 DEF IInv, ConnectionInv, SocketTypes
  <2> QED BY <1>4, <2>2, <2>3, <2>4 DEF SocketTypes
<1>6. GreetersListed' /\ Unlisted'
  BY <1>1, <1>2 DEF IInv, ConnectionInv, SocketTypes, GreetersListed, Unlisted
<1>7. NoneUnopened'
  BY <1>1, <1>2 DEF IInv, NoneUnopened
<1>8. /\ can' \in [Registered -> SUBSET Ops] /\ promised' \in [Greeters -> SUBSET Ops]
      /\ PromisesBacked'
  <2>1. Announced' = Announced /\ Announced \subseteq Ops
    BY <1>1 DEF Announced, IInv, OtherTypes
  <2> QED BY <1>1, <1>3, <2>1 DEF IInv, OtherTypes, PowerInv, PromisesBacked
<1>9. told' \in [Greeters -> SUBSET Nat] /\ \A g \in Greeters : told[g] \subseteq told'[g]
  <2>1. Replayed \subseteq Nat
    BY DEF Replayed, IInv, OtherTypes, Session
  <2>2. CASE broken = {}
    <3>1. told' = [g \in Greeters |->
                     IF g \in {reading} THEN told[g] \cup Replayed ELSE told[g]]
      BY <1>3, <2>2 DEF ToldOf
    <3> QED BY <2>1, <3>1 DEF IInv, OtherTypes
  <2>3. CASE broken # {}
    BY <1>3, <2>3 DEF IInv, OtherTypes
  <2> QED BY <2>2, <2>3
<1>10. OtherTypes'
  BY <1>1, <1>8, <1>9, HandledPower DEF IInv, OtherTypes
<1>11. GreetersKnowSessions'
  <2> SUFFICES ASSUME Cardinality(Greeters) <= 2, NEW g \in Greeters,
                      link'[g] = "up", peer'[g] = "open", connects'[g] > 0
               PROVE  {s.id : s \in {t \in sessions' : t.type = "treeland"}} \subseteq told'[g]
    BY DEF GreetersKnowSessions
  <2>1. CASE g = reading
    <3>1. broken = {}
      BY <1>1, <1>2, <2>1
    <3>2. Replayed \subseteq told'[g]
      BY <1>3, <2>1, <3>1 DEF ToldOf
    <3> QED BY <1>1, <3>2 DEF Replayed
  <2>2. CASE g # reading
    <3>1. link[g] = "up" /\ peer[g] = "open" /\ connects[g] > 0
      BY <1>1, <1>2, <2>2 DEF IInv, ConnectionInv, SocketTypes
    <3>2. {s.id : s \in {t \in sessions : t.type = "treeland"}} \subseteq told[g]
      BY <3>1 DEF IInv, GreetersKnowSessions
    <3> QED BY <1>1, <1>9, <3>2
  <2> QED BY <2>1, <2>2
<1> QED BY <1>4, <1>5, <1>6, <1>7, <1>8, <1>10, <1>11, HandledPower
        DEF IInv, ConnectionInv, PowerInv

(* One answer, or none, to the greeter that asked.                         *)
LEMMA Answered ==
  ASSUME IInv, reading # NoGreeter, UNCHANGED <<peer, connects, late, told>>,
         \/ Answer
         \/ Consume({}) /\ UNCHANGED <<wire, link, listed>>
  PROVE  /\ ConnectionInv' /\ NoneUnopened'
         /\ \A g \in Greeters : link'[g] = "up" => link[g] = "up"
<1>1. PICK S \in SUBSET {g \in Greeters : link[g] = "up"} : Disconnected(S) /\ Consume(S)
  <2>1. CASE Answer
    BY <2>1 DEF Answer, Broken, IInv, ConnectionInv, SocketTypes
  <2>2. CASE Consume({}) /\ UNCHANGED <<wire, link, listed>>
    BY <2>2, NothingDropped DEF IInv
  <2> QED BY <2>1, <2>2
<1>2. /\ ConnectionInv'
      /\ \A g \in Greeters : link'[g] = "up" => link[g] = "up"
      /\ \A g \in Greeters : link'[g] = "none" <=> link[g] = "none"
  BY <1>1, HandledKeepsConnections DEF IInv
<1> QED BY <1>2 DEF IInv, NoneUnopened

(* Every other request: a session that opens is told to those listed.      *)
LEMMA HandleOtherInv ==
  ASSUME IInv, HandleRequest, NEW u,
         \/ NextRequest.type = "Login" /\ u \in Users /\ HandleLogin(u)
         \/ HandleUnlock(u) \/ HandleElse
  PROVE  IInv'
<1>1. /\ reading \in Greeters /\ reading # NoGreeter
      /\ UNCHANGED <<far, server, connects, late, can, promised>>
  BY DEF HandleRequest, HandleLogin, HandleUnlock, HandleElse, greeterList,
         IInv, ConnectionInv, SocketTypes
<1>2. /\ can' \in [Registered -> SUBSET Ops] /\ promised' \in [Greeters -> SUBSET Ops]
      /\ PowerInv'
  BY <1>1, PromisesKept, HandledPower DEF PowerInv
<1>3. lastPower' \in [by : SUBSET Registered, promised : BOOLEAN]
  BY HandledPower
<1> DEFINE Quiet == /\ UNCHANGED <<told, sessions, nextId, down>>
                    /\ \/ Answer
                       \/ Consume({}) /\ UNCHANGED <<wire, link, listed>>
<1>4. ASSUME Quiet PROVE IInv'
  <2>1. /\ ConnectionInv' /\ NoneUnopened'
        /\ \A g \in Greeters : link'[g] = "up" => link[g] = "up"
    BY <1>1, <1>4, Answered DEF far
  <2>2. OtherTypes'
    BY <1>1, <1>2, <1>3, <1>4 DEF IInv, OtherTypes, far
  <2>3. GreetersKnowSessions'
    BY <1>1, <1>4, <2>1, KnowledgeKept DEF IInv, far
  <2> QED BY <1>2, <2>1, <2>2, <2>3 DEF IInv
<1>5. ASSUME NEW s \in sessions, ActivateInAnswer({s.id}), UNCHANGED <<sessions, nextId>>
      PROVE  IInv'
  <2>1. {s.id} \in SUBSET Nat
    BY DEF IInv, OtherTypes, Session
  <2>2. /\ ConnectionInv' /\ NoneUnopened'
        /\ told' \in [Greeters -> SUBSET Nat] /\ down' \in BOOLEAN
        /\ \A g \in Greeters : told[g] \subseteq told'[g]
        /\ \A g \in Greeters : link'[g] = "up" => link[g] = "up"
    BY <1>1, <1>5, <2>1, ActivatedInAnswer DEF far
  <2>3. OtherTypes'
    BY <1>1, <1>2, <1>3, <1>5, <2>2 DEF IInv, OtherTypes, far
  <2>4. GreetersKnowSessions'
    BY <1>1, <1>5, <2>2, KnowledgeKept DEF IInv, far
  <2> QED BY <1>2, <2>2, <2>3, <2>4 DEF IInv
<1>6. ASSUME u \in Users, NEW type \in {"treeland", "other"},
             sessions' = sessions \cup {[id |-> nextId, user |-> u, type |-> type]},
             nextId' = nextId + 1,
             IF type = "treeland" THEN ActivateInAnswer({nextId})
             ELSE Consume({}) /\ UNCHANGED <<wire, link, listed, told, down>>
      PROVE  IInv'
  <2> DEFINE new == [id |-> nextId, user |-> u, type |-> type]
  <2>1. nextId \in Nat /\ new \in Session
    BY <1>6 DEF IInv, OtherTypes, Session
  <2>2. CASE type = "treeland"
    <3>1. ActivateInAnswer({nextId}) /\ {nextId} \in SUBSET Nat
      BY <1>6, <2>1, <2>2
    <3>2. /\ ConnectionInv' /\ NoneUnopened'
          /\ told' \in [Greeters -> SUBSET Nat] /\ down' \in BOOLEAN
          /\ \A g \in Greeters : told[g] \subseteq told'[g]
          /\ \A g \in Greeters : link'[g] = "up" => link[g] = "up"
          /\ Cardinality(Greeters) <= 2 =>
               \A g \in Greeters :
                 listed[g] > 0 /\ link[g] = "up" /\ peer[g] # "closed" => nextId \in told'[g]
      BY <1>1, <3>1, ActivatedInAnswer DEF far
    <3>3. OtherTypes'
      BY <1>1, <1>2, <1>3, <1>6, <2>1, <3>2 DEF IInv, OtherTypes, far
    <3>4. GreetersKnowSessions'
      <4> SUFFICES ASSUME Cardinality(Greeters) <= 2, NEW g \in Greeters,
                          link'[g] = "up", peer'[g] = "open", connects'[g] > 0
                   PROVE  {s.id : s \in {t \in sessions' : t.type = "treeland"}} \subseteq told'[g]
        BY DEF GreetersKnowSessions
      <4>1. link[g] = "up" /\ peer[g] = "open" /\ connects[g] > 0
        BY <1>1, <3>2 DEF far
      <4>2. {s.id : s \in {t \in sessions : t.type = "treeland"}} \subseteq told[g]
        BY <4>1 DEF IInv, GreetersKnowSessions
      <4>3. nextId \in told'[g]
        BY <3>2, <4>1 DEF IInv, ConnectionInv, GreetersListed
      <4> QED BY <1>6, <3>2, <4>2, <4>3
    <3> QED BY <1>2, <3>2, <3>3, <3>4 DEF IInv
  <2>3. CASE type = "other"
    <3>1. Consume({}) /\ UNCHANGED <<wire, link, listed, told, down>>
      BY <1>6, <2>3
    <3>2. /\ ConnectionInv' /\ NoneUnopened'
          /\ \A g \in Greeters : link'[g] = "up" => link[g] = "up"
      BY <1>1, <3>1, Answered DEF far
    <3>3. OtherTypes'
      BY <1>1, <1>2, <1>3, <1>6, <2>1, <3>1 DEF IInv, OtherTypes, far
    <3>4. {t \in sessions' : t.type = "treeland"} = {t \in sessions : t.type = "treeland"}
      BY <1>6, <2>3
    <3>5. GreetersKnowSessions'
      BY <1>1, <3>1, <3>4 DEF IInv, GreetersKnowSessions, far
    <3> QED BY <1>2, <3>2, <3>3, <3>5 DEF IInv
  <2> QED BY <1>6, <2>2, <2>3
<1>7. CASE HandleElse
  BY <1>4, <1>7 DEF HandleElse, greeterList
<1>8. CASE HandleUnlock(u)
  <2>1. CASE Answer /\ UNCHANGED <<told, down>>
    BY <1>4, <1>8, <2>1 DEF HandleUnlock
  <2>2. ASSUME NEW s \in sessions,
               IF s.type = "treeland" THEN ActivateInAnswer({s.id})
               ELSE Consume({}) /\ UNCHANGED <<wire, link, listed, told, down>>
        PROVE  IInv'
    <3>1. UNCHANGED <<sessions, nextId>>
      BY <1>8 DEF HandleUnlock
    <3> QED BY <1>4, <1>5, <2>2, <3>1
  <2> QED BY <1>8, <2>1, <2>2 DEF HandleUnlock
<1>9. CASE u \in Users /\ HandleLogin(u)
  <2>1. CASE ~HasSession(u) /\ Answer /\ UNCHANGED <<told, sessions, nextId, down>>
    BY <1>4, <2>1
  <2>2. CASE /\ HasSession(u) /\ Consume({})
             /\ UNCHANGED <<wire, link, listed, told, sessions, nextId, down>>
    BY <1>4, <2>2
  <2>3. ASSUME NEW type \in {"treeland", "other"},
               sessions' = sessions \cup {[id |-> nextId, user |-> u, type |-> type]},
               nextId' = nextId + 1,
               IF type = "treeland" THEN ActivateInAnswer({nextId})
               ELSE Consume({}) /\ UNCHANGED <<wire, link, listed, told, down>>
        PROVE  IInv'
    BY <1>6, <1>9, <2>3
  <2> QED BY <1>9, <2>1, <2>2, <2>3 DEF HandleLogin
<1> QED BY <1>7, <1>8, <1>9

(* One turn of the loop of readyRead, whatever the request.                *)
LEMMA HandleRequestInv ==
  ASSUME IInv, HandleRequest
  PROVE  IInv'
<1>1. NextRequest \in Request
  <2>1. reading \in Greeters /\ buffer[reading] \in Seq(Request) /\ buffer[reading] # <<>>
    BY DEF HandleRequest, IInv, ConnectionInv, SocketTypes
  <2> QED BY <2>1 DEF NextRequest
<1>2. NextRequest.type = "Login" => NextRequest.user \in Users
  BY <1>1 DEF Request
<1> QED BY <1>2, HandleConnectInv, HandleOtherInv DEF HandleRequest

-----------------------------------------------------------------------------
(* The rest of the daemon.                                                 *)
LEMMA DaemonInv ==
  ASSUME IInv,
         \/ \E s \in sessions : SessionFinished(s)
         \/ SwitchToGreeter
         \/ \E b \in Registered, S \in SUBSET Ops : BackendChanges(b, S)
         \/ ServerStops
         \/ ServerDeleted
  PROVE  IInv'
<1> USE DEF socket, greeterList, power
<1>1. CASE ServerStops \/ \E s \in sessions : SessionFinished(s)
  <2>1. /\ UNCHANGED <<far, socket, reading, greeterList, nextId, power, down>>
        /\ server' \in {server, "stopped"} /\ sessions' \subseteq sessions
    BY <1>1 DEF ServerStops, SessionFinished
  <2>2. ConnectionInv' /\ PowerInv' /\ GreetersKnowSessions'
    BY <2>1, ConnectionInvKept, PowerInvKept, KnowledgeKept DEF IInv, far
  <2>3. OtherTypes' /\ NoneUnopened'
    BY <2>1 DEF IInv, OtherTypes, NoneUnopened, far
  <2> QED BY <2>2, <2>3 DEF IInv
<1>2. ASSUME NEW b \in Registered, NEW S \in SUBSET Ops, BackendChanges(b, S)
      PROVE  IInv'
  <2>1. /\ can' = [can EXCEPT ![b] = S] /\ promised' = [g \in Greeters |-> {}]
        /\ UNCHANGED <<far, socket, reading, server, greeterList, sessions, nextId,
                       lastPower, down>>
    BY <1>2 DEF BackendChanges
  <2>2. ConnectionInv' /\ GreetersKnowSessions'
    BY <2>1, ConnectionInvKept, KnowledgeKept DEF IInv, far
  <2>3. OtherTypes' /\ NoneUnopened'
    BY <2>1 DEF IInv, OtherTypes, NoneUnopened, far
  <2>4. PowerInv'
    BY <2>1 DEF IInv, PowerInv, PromisesBacked, PowerPromiseKept
  <2> QED BY <2>2, <2>3, <2>4 DEF IInv
<1>3. CASE SwitchToGreeter \/ ServerDeleted
  <2>1. PICK S \in SUBSET {g \in Greeters : link[g] = "up"} :
          /\ Disconnected(S)
          /\ buffer' \in {[g \in Greeters |-> IF g \in S THEN <<>> ELSE buffer[g]],
                          [g \in Greeters |-> <<>>]}
    BY <1>3 DEF SwitchToGreeter, ServerDeleted, Activate, Broken, Listed
  <2>2. /\ reading = NoGreeter
        /\ UNCHANGED <<far, reading, connects, late, nextId, power>>
        /\ server' \in {server, "deleted"} /\ sessions' \subseteq sessions
        /\ down' \in BOOLEAN
    BY <1>3 DEF SwitchToGreeter, ServerDeleted, Activate, IInv, OtherTypes
  <2>3. told' \in [Greeters -> SUBSET Nat] /\ \A g \in Greeters : told[g] \subseteq told'[g]
    <3>1. CASE told' = told
      BY <3>1 DEF IInv, OtherTypes
    <3>2. ASSUME NEW S2, ToldOf(S2, {}) PROVE told' = told
      BY <3>2 DEF ToldOf, IInv, OtherTypes
    <3> QED BY <1>3, <3>1, <3>2 DEF SwitchToGreeter, ServerDeleted, Activate
  <2>4. /\ wire' \in [Greeters -> Seq(Request)]
        /\ link' \in [Greeters -> {"none", "up", "gone"}]
        /\ listed' \in [Greeters -> Nat] /\ connects' \in [Greeters -> Nat]
        /\ late' \subseteq Greeters /\ GreetersListed' /\ Unlisted'
    BY <2>1, <2>2, DisconnectedKeepsList DEF IInv
  <2>5. \A g \in Greeters : /\ link'[g] = "up" => link[g] = "up"
                            /\ link'[g] = "none" <=> link[g] = "none"
    BY <2>1 DEF Disconnected
  <2>6. buffer' = buffer /\ NoRequestLeftBehind'
    <3>1. \A g \in Greeters : buffer[g] = <<>>
      BY <2>2 DEF IInv, ConnectionInv, NoRequestLeftBehind
    <3>2. \A g \in Greeters : buffer'[g] = <<>>
      BY <2>1, <3>1
    <3> QED BY <2>1, <3>1, <3>2 DEF NoRequestLeftBehind, IInv, ConnectionInv, SocketTypes
  <2>7. ConnectionInv'
    BY <2>2, <2>4, <2>6 DEF IInv, ConnectionInv, SocketTypes
  <2>8. OtherTypes' /\ NoneUnopened'
    BY <2>2, <2>3, <2>5 DEF IInv, OtherTypes, NoneUnopened, far
  <2>9. PowerInv' /\ GreetersKnowSessions'
    BY <2>2, <2>3, <2>5, PowerInvKept, KnowledgeKept DEF IInv, far
  <2> QED BY <2>7, <2>8, <2>9 DEF IInv
<1> QED BY <1>1, <1>2, <1>3

-----------------------------------------------------------------------------
(* The invariant holds at first, and every step keeps it.                  *)
THEOREM Invariance == Spec => []IInv
<1>1. Init => IInv
  <2> SUFFICES ASSUME Init PROVE IInv
    OBVIOUS
  <2>1. <<>> \in Seq(Request)
    OBVIOUS
  <2>2. ConnectionInv /\ NoneUnopened
    BY <2>1 DEF Init, ConnectionInv, SocketTypes, NoRequestLeftBehind,
                GreetersListed, Unlisted, NoneUnopened
  <2>3. OtherTypes
    BY DEF Init, OtherTypes, NoPower
  <2>4. PowerInv /\ GreetersKnowSessions
    BY DEF Init, PowerInv, PromisesBacked, PowerPromiseKept, NoPower, GreetersKnowSessions
  <2> QED BY <2>2, <2>3, <2>4 DEF IInv
<1>2. IInv /\ [Next]_vars => IInv'
  <2> SUFFICES ASSUME IInv, [Next]_vars PROVE IInv'
    OBVIOUS
  <2>1. CASE UNCHANGED vars
    <3>1. UNCHANGED <<peer, sent, wire, link, buffer, reading, server, listed, connects,
                      late, told, sessions, nextId, can, promised, lastPower, down>>
      BY <2>1 DEF vars, far, socket, greeterList, power
    <3>2. ConnectionInv' /\ PowerInv' /\ GreetersKnowSessions'
      BY <3>1, ConnectionInvKept, PowerInvKept, KnowledgeKept DEF IInv
    <3>3. OtherTypes' /\ NoneUnopened'
      BY <3>1 DEF IInv, OtherTypes, NoneUnopened
    <3> QED BY <3>2, <3>3 DEF IInv
  <2> QED BY <2>1, ConnectionStepInv, HandleRequestInv, DaemonInv DEF Next
<1> QED BY <1>1, <1>2, PTL DEF Spec

(* The values of the variables; readyRead runs only for a connection that  *)
(* is there and has a request.                                             *)
THEOREM TypeCorrect == Spec => []TypeOK
<1>1. IInv => TypeOK
  BY DEF IInv, ConnectionInv, SocketTypes, OtherTypes, TypeOK
<1> QED BY <1>1, Invariance, PTL

(* The list of greeters is exact while a connection is up; it holds a      *)
(* deleted socket only if a Connect was answered too late or was not the   *)
(* only one.                                                               *)
THEOREM GreetersAlwaysListed == Spec => []GreetersListed
<1>1. IInv => GreetersListed
  BY DEF IInv, ConnectionInv
<1> QED BY <1>1, Invariance, PTL

(* A greeter that is connected knows the Treeland sessions that are open.  *)
THEOREM GreetersAlwaysKnowSessions == Spec => []GreetersKnowSessions
<1>1. IInv => GreetersKnowSessions
  BY DEF IInv
<1> QED BY <1>1, Invariance, PTL

(* A power request that was announced as possible goes to exactly one      *)
(* backend, however many there are.                                        *)
THEOREM PowerPromiseAlwaysKept == Spec => []PowerPromiseKept
<1>1. IInv => PowerPromiseKept
  BY DEF IInv, PowerInv
<1> QED BY <1>1, Invariance, PTL

(* The daemon never goes back to its event loop with a request that it has *)
(* read and not handled.                                                   *)
THEOREM NeverARequestLeftBehind == Spec => []NoRequestLeftBehind
<1>1. IInv => NoRequestLeftBehind
  BY DEF IInv, ConnectionInv
<1> QED BY <1>1, Invariance, PTL
=============================================================================
