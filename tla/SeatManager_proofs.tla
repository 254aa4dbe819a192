-------------------------- MODULE SeatManager_proofs --------------------------
(***************************************************************************)
(* Proofs about SeatManager, for every set of seats and any number of      *)
(* changes of each.  That the variables keep their types holds in any      *)
(* case; the rest needs that no seat changes before the daemon has listed  *)
(* the seats (StartupRace = FALSE).                                        *)
(***************************************************************************)
EXTENDS SeatManager, FiniteSetTheorems, TLAPS

(* Messages that a LogindSeat of seat s ends with or begins with.          *)
IsLife(m, s) == m.type \in {"SeatNew", "SeatRemoved"} /\ m.seat = s
Life(i, s) == IsLife(inbox[i], s)

(* No such message is among those from i to k.                             *)
NoLife(i, k, s) == \A j \in i .. k : ~Life(j, s)

(* Whether the daemon has a LogindSeat of the seat; whether it has one     *)
(* once the first i messages, of which the last is a Life, are handled.    *)
Known(s) == systemSeats[s] # NoWatcher
KnownAt(i, s) == IF i = 0 THEN Known(s) ELSE inbox[i].type = "SeatNew"
LifeOrNow(i, s) == i = 0 \/ Life(i, s)

(* Messages that tell the LogindSeat of the seat of CanGraphical: changes, *)
(* and the answer to its Get unless it is gone by then.                    *)
Bears(i, s) ==
  \/ inbox[i].type = "Changed" /\ inbox[i].seat = s
  \/ /\ inbox[i].type = "Value" /\ inbox[i].watcher = systemSeats[s]
     /\ NoLife(1, i - 1, s)

(* What the daemon believes of the seat now, and once the first i messages *)
(* are handled.                                                            *)
Can(s) == \E w \in watchers : w.seat = s /\ w.can
CanAt(i, s) == IF i = 0 THEN Can(s) ELSE inbox[i].can
BearsOrNow(i, s) == i = 0 \/ Bears(i, s)

(* No message from i to k has to do with it.                               *)
Calm(i, k, s) == \A j \in i .. k : ~Life(j, s) /\ ~Bears(j, s)

GetPending(s) == \E c \in calls : c.type = "Get" /\ c.watcher = systemSeats[s]

-----------------------------------------------------------------------------
(* The inductive invariant.                                                *)

(* LogindSeats and their entries are one to one, and what is numbered has  *)
(* a number that was given.                                                *)
WatchersInv ==
  /\ \A w \in watchers : systemSeats[w.seat] = w.id
  /\ \A s \in Seats : Known(s) => \E w \in watchers : w.seat = s
  /\ \A w, x \in watchers : w.seat = x.seat => w = x
  /\ \A s, t \in Seats : Known(s) /\ systemSeats[s] = systemSeats[t] => s = t
  /\ \A s \in Seats : systemSeats[s] <= created
NumbersInv ==
  /\ \A i \in 1 .. Len(inbox) : inbox[i].type = "Value" => inbox[i].watcher <= created
  /\ \A c \in calls : c.type = "Get" =>
       /\ c.watcher <= created
       /\ \A s \in Seats : systemSeats[s] = c.watcher => c.seat = s

(* Until the seats are listed nothing happens but that.                    *)
StartInv ==
  /\ ~listAnswered =>
       /\ created = 0 /\ watchers = {} /\ systemSeats = [s \in Seats |-> NoWatcher]
       /\ \/ calls = {[type |-> "ListSeats"]} /\ inbox = <<>>
          \/ calls = {} /\ inbox = <<[type |-> "Seats", seats |-> exists]>>
  /\ listAnswered =>
       /\ \A c \in calls : c.type = "Get"
       /\ \A i \in 1 .. Len(inbox) : inbox[i].type # "Seats"

(* The daemon hears in turn that a seat is there and is not; the last it   *)
(* hears is true.                                                          *)
TurnsOf(s) ==
  /\ \A i \in 0 .. Len(inbox), j \in 1 .. Len(inbox) :
       i < j /\ LifeOrNow(i, s) /\ Life(j, s) /\ NoLife(i + 1, j - 1, s) =>
         (inbox[j].type = "SeatNew" <=> ~KnownAt(i, s))
  /\ \A i \in 0 .. Len(inbox) :
       LifeOrNow(i, s) /\ NoLife(i + 1, Len(inbox), s) =>
         (KnownAt(i, s) <=> s \in exists)
TurnsInv == listAnswered => \A s \in Seats : TurnsOf(s)

(* A change to graphical comes after one to the contrary; the last that    *)
(* the daemon hears is true, and what it believes with nothing under way   *)
(* is not too much, and right if nothing is asked.                         *)
NewsOf(s) ==
  /\ \A i \in 0 .. Len(inbox), j \in 1 .. Len(inbox) :
       /\ i < j /\ BearsOrNow(i, s) /\ Calm(i + 1, j - 1, s)
       /\ inbox[j].type = "Changed" /\ inbox[j].seat = s /\ inbox[j].can
       => ~CanAt(i, s)
  /\ \A i \in 0 .. Len(inbox) :
       BearsOrNow(i, s) /\ Calm(i + 1, Len(inbox), s) =>
         /\ CanAt(i, s) => canGraphical[s]
         /\ i > 0 \/ (Known(s) /\ ~GetPending(s)) => (CanAt(i, s) <=> canGraphical[s])
NewsInv == \A s \in Seats \ unheard : NewsOf(s)

(* Displays are of the seats that the daemon believes to be graphical.     *)
DisplaysInv ==
  \A s \in Seats \ unheard :
    displays[s] = (IF Can(s) THEN 1 ELSE 0) /\ listed[s] = displays[s]

(* A seat that is not there is not graphical.                              *)
ExistsInv == \A s \in Seats \ exists : ~canGraphical[s]

(* The type invariant; there are only so many LogindSeats.                 *)
Types == TypeOK /\ IsFiniteSet(watchers)

IInv ==
  /\ Types /\ WatchersInv /\ NumbersInv /\ StartInv /\ TurnsInv /\ NewsInv
  /\ DisplaysInv /\ ExistsInv

USE SeatsAssumption, RaceAssumption, ChangesAssumption DEF NoWatcher

-----------------------------------------------------------------------------
(* Messages, sequences of them, and numbers.                               *)

(* What messages and calls are made of.                                    *)
LEMMA MessageFacts ==
  /\ \A m \in Message :
       /\ m.type \in {"SeatNew", "SeatRemoved", "Seats", "Changed", "Value", "NoValue"}
       /\ m.type \in {"SeatNew", "SeatRemoved"} => m.seat \in Seats
       /\ m.type = "Seats" => m.seats \in SUBSET Seats
       /\ m.type = "Changed" => m.seat \in Seats /\ m.can \in BOOLEAN
       /\ m.type = "Value" => m.watcher \in Nat \ {0} /\ m.can \in BOOLEAN
  /\ \A c \in Call :
       /\ c.type \in {"ListSeats", "Get"}
       /\ c.type = "ListSeats" => c = [type |-> "ListSeats"]
       /\ c.type = "Get" => c.watcher \in Nat \ {0} /\ c.seat \in Seats
BY DEF Message, Call

(* A message arrives behind the others.                                    *)
LEMMA AppendFacts ==
  ASSUME NEW m \in Message, inbox \in Seq(Message), inbox' = Append(inbox, m)
  PROVE  /\ inbox' \in Seq(Message) /\ Len(inbox) \in Nat
         /\ Len(inbox') = Len(inbox) + 1
         /\ \A i \in 1 .. Len(inbox) : inbox'[i] = inbox[i]
         /\ inbox'[Len(inbox) + 1] = m
         /\ \A i \in 1 .. Len(inbox) : inbox[i] \in Message
OBVIOUS

(* The first message is taken, and the others move up.                     *)
LEMMA TailFacts ==
  ASSUME inbox \in Seq(Message), inbox # <<>>, inbox' = Tail(inbox)
  PROVE  /\ inbox' \in Seq(Message) /\ Len(inbox) \in Nat /\ Len(inbox) >= 1
         /\ Len(inbox') = Len(inbox) - 1
         /\ \A i \in 1 .. Len(inbox) - 1 : inbox'[i] = inbox[i + 1]
         /\ Head(inbox) = inbox[1] /\ inbox[1] \in Message
         /\ \A i \in 1 .. Len(inbox) : inbox[i] \in Message
OBVIOUS

(* Seats can be numbered.                                                  *)
LEMMA NumberingFacts ==
  ASSUME created \in Nat, NEW seats \in SUBSET Seats
  PROVE  /\ Cardinality(seats) \in Nat
         /\ Numbering(seats) \in [seats -> created + 1 .. created + Cardinality(seats)]
         /\ \A s, t \in seats : Numbering(seats)[s] = Numbering(seats)[t] => s = t
<1> DEFINE n == Cardinality(seats)
<1>1. IsFiniteSet(seats)
  BY FS_Subset
<1>2. n \in Nat /\ ExistsBijection(1 .. n, seats)
  BY <1>1, FS_CardinalityType
<1> HIDE DEF n
<1>3. PICK f \in [1 .. n -> seats] : \A s \in seats : \E i \in 1 .. n : f[i] = s
  BY <1>2 DEF ExistsBijection, Bijection, Surjection
<1> DEFINE g == [s \in seats |-> created + CHOOSE i \in 1 .. n : f[i] = s]
<1>4. ASSUME NEW s \in seats
      PROVE  /\ g[s] \in created + 1 .. created + n
             /\ f[g[s] - created] = s
  <2>1. PICK i : i = CHOOSE j \in 1 .. n : f[j] = s
    OBVIOUS
  <2>2. i \in 1 .. n /\ f[i] = s
    BY <1>3, <2>1
  <2>3. g[s] = created + i
    BY <2>1
  <2>4. g[s] \in created + 1 .. created + n /\ g[s] - created = i
    BY <1>2, <2>2, <2>3
  <2> QED BY <2>2, <2>4
<1>5. g \in [seats -> created + 1 .. created + n]
  BY <1>4
<1> HIDE DEF g
<1>6. \A s, t \in seats : g[s] = g[t] => s = t
  <2>1. \A s \in seats : f[g[s] - created] = s
    BY <1>4
  <2> QED BY <2>1, Zenon
<1>7. \E h \in [seats -> created + 1 .. created + n] :
        \A s, t \in seats : h[s] = h[t] => s = t
  BY <1>5, <1>6
<1>8. Numbering(seats) = CHOOSE h \in [seats -> created + 1 .. created + n] :
                           \A s, t \in seats : h[s] = h[t] => s = t
  BY DEF Numbering, n
<1> QED BY <1>2, <1>7, <1>8 DEF n

(* SeatNew gives the new LogindSeat the next number, and asks for          *)
(* CanGraphical.                                                           *)
LEMMA OneSeatAdded ==
  ASSUME created \in Nat, NEW s \in Seats, LogindSeatsAdded({s}),
         systemSeats \in [Seats -> Nat]
  PROVE  /\ created' = created + 1
         /\ watchers' = watchers \cup {[id |-> created + 1, seat |-> s, can |-> FALSE]}
         /\ systemSeats' = [systemSeats EXCEPT ![s] = created + 1]
         /\ calls' = calls \cup {[type |-> "Get", watcher |-> created + 1, seat |-> s]}
         /\ UNCHANGED <<displays, listed>>
<1> DEFINE id == Numbering({s})
<1>1. Cardinality({s}) = 1
  BY FS_Singleton
<1>2. id[s] = created + 1
  <2>1. id \in [{s} -> created + 1 .. created + 1]
    BY <1>1, NumberingFacts
  <2> HIDE DEF id
  <2>2. id[s] \in created + 1 .. created + 1
    BY <2>1
  <2> QED BY <2>2
<1>3. /\ created' = created + 1
      /\ watchers' = watchers \cup {[id |-> id[t], seat |-> t, can |-> FALSE] : t \in {s}}
      /\ systemSeats' = [t \in Seats |-> IF t \in {s} THEN id[t] ELSE systemSeats[t]]
      /\ calls' = calls \cup
           {[type |-> "Get", watcher |-> id[t], seat |-> t] : t \in {s}}
      /\ UNCHANGED <<displays, listed>>
  BY <1>1 DEF LogindSeatsAdded, shown
<1> HIDE DEF id
<1>4. systemSeats' = [systemSeats EXCEPT ![s] = created + 1]
  BY <1>2, <1>3
<1>5. watchers' = watchers \cup {[id |-> created + 1, seat |-> s, can |-> FALSE]}
  BY <1>2, <1>3
<1>6. calls' = calls \cup {[type |-> "Get", watcher |-> created + 1, seat |-> s]}
  BY <1>2, <1>3
<1> QED BY <1>3, <1>4, <1>5, <1>6

-----------------------------------------------------------------------------
(* Types, whether or not seats change before they are listed.              *)

(* Types: LogindSeats for any set of seats.                                *)
LEMMA AddedTypes ==
  ASSUME Types, NEW seats \in SUBSET Seats, LogindSeatsAdded(seats)
  PROVE  /\ watchers' \subseteq Watcher /\ IsFiniteSet(watchers') /\ created' \in Nat
         /\ systemSeats' \in [Seats -> Nat] /\ calls' \subseteq Call
         /\ displays' = displays /\ listed' = listed
<1> DEFINE id == Numbering(seats)
           new == {[id |-> id[s], seat |-> s, can |-> FALSE] : s \in seats}
           asked == {[type |-> "Get", watcher |-> id[s], seat |-> s] : s \in seats}
<1>1. /\ created' = created + Cardinality(seats) /\ watchers' = watchers \cup new
      /\ systemSeats' = [s \in Seats |-> IF s \in seats THEN id[s] ELSE systemSeats[s]]
      /\ calls' = calls \cup asked /\ displays' = displays /\ listed' = listed
  BY DEF LogindSeatsAdded, shown
<1>2. /\ watchers \subseteq Watcher /\ IsFiniteSet(watchers) /\ created \in Nat
      /\ systemSeats \in [Seats -> Nat] /\ calls \subseteq Call
  BY DEF Types, TypeOK
<1>3. /\ Cardinality(seats) \in Nat
      /\ id \in [seats -> created + 1 .. created + Cardinality(seats)]
  BY <1>2, NumberingFacts
<1>4. IsFiniteSet(new)
  <2> DEFINE f == [s \in seats |-> [id |-> id[s], seat |-> s, can |-> FALSE]]
  <2>1. f \in [seats -> new] /\ \A w \in new : \E s \in seats : f[s] = w
    OBVIOUS
  <2>2. f \in Surjection(seats, new)
    BY <2>1 DEF Surjection
  <2>3. IsFiniteSet(seats)
    BY FS_Subset
  <2> QED BY <2>2, <2>3, FS_Surjection
<1> HIDE DEF id
<1>5. \A s \in seats : id[s] \in Nat \ {0}
  <2>1. \A s \in seats : id[s] \in created + 1 .. created + Cardinality(seats)
    BY <1>3
  <2> QED BY <1>2, <1>3, <2>1
<1>6. new \subseteq Watcher
  <2>1. \A s \in seats : [id |-> id[s], seat |-> s, can |-> FALSE] \in Watcher
    BY <1>5 DEF Watcher
  <2> QED BY <2>1
<1>7. asked \subseteq Call
  BY <1>5 DEF Call
<1> HIDE DEF new, asked
<1>8. systemSeats' \in [Seats -> Nat]
  BY <1>1, <1>2, <1>5
<1>9. IsFiniteSet(watchers')
  BY <1>1, <1>2, <1>4, FS_Union
<1> QED BY <1>1, <1>2, <1>3, <1>6, <1>7, <1>8, <1>9

(* Types: removeSeat.                                                      *)
LEMMA RemoveTypes ==
  ASSUME displays \in [Seats -> Nat], listed \in [Seats -> Nat], NEW s \in Seats,
         NEW n \in Nat, RemoveSeat(s, n)
  PROVE  displays' \in [Seats -> Nat] /\ listed' \in [Seats -> Nat]
<1> DEFINE removed == IF displays[s] < n THEN displays[s] ELSE n
<1>1. displays' = [displays EXCEPT ![s] = @ - removed]
  BY DEF RemoveSeat
<1>2. PICK l \in ListedAfter(s, removed) : listed' = [listed EXCEPT ![s] = l]
  BY DEF RemoveSeat
<1>3. displays[s] \in Nat /\ removed \in Nat /\ removed <= displays[s]
  OBVIOUS
<1> HIDE DEF removed
<1>4. displays' \in [Seats -> Nat]
  BY <1>1, <1>3
<1>5. listed[s] \in Nat /\ l \in Nat
  BY <1>2, <1>3 DEF ListedAfter
<1> QED BY <1>2, <1>4, <1>5

(* Types: a LogindSeat that hears of a change.                             *)
LEMMA ChangedTypes ==
  ASSUME Types, NEW s \in Seats, NEW can \in BOOLEAN, PropertiesChanged(s, can)
  PROVE  /\ watchers' \subseteq Watcher /\ IsFiniteSet(watchers')
         /\ displays' \in [Seats -> Nat] /\ listed' \in [Seats -> Nat]
<1> DEFINE those == {w \in watchers : w.seat = s}
           told == {[w EXCEPT !.can = can] : w \in those}
           n == Cardinality(those)
<1>1. watchers' = (watchers \ those) \cup told /\ CanGraphicalChanged(s, can, n)
  BY DEF PropertiesChanged
<1>2. /\ watchers \subseteq Watcher /\ IsFiniteSet(watchers)
      /\ displays \in [Seats -> Nat] /\ listed \in [Seats -> Nat]
  BY DEF Types, TypeOK
<1>3. IsFiniteSet(those) /\ those \subseteq Watcher
  BY <1>2, FS_Subset
<1>4. n \in Nat
  BY <1>3, FS_CardinalityType
<1>5. IsFiniteSet(told)
  <2> DEFINE f == [w \in those |-> [w EXCEPT !.can = can]]
  <2>1. f \in [those -> told] /\ \A w \in told : \E x \in those : f[x] = w
    OBVIOUS
  <2>2. f \in Surjection(those, told)
    BY <2>1 DEF Surjection
  <2> QED BY <1>3, <2>2, FS_Surjection
<1>6. told \subseteq Watcher
  <2>1. \A w \in those : [w EXCEPT !.can = can] \in Watcher
    BY <1>3 DEF Watcher
  <2> QED BY <2>1
<1>7. IsFiniteSet(watchers \ those)
  BY <1>2, FS_Difference
<1> HIDE DEF told, n
<1>8. IsFiniteSet(watchers')
  BY <1>1, <1>5, <1>7, FS_Union
<1>9. displays' \in [Seats -> Nat] /\ listed' \in [Seats -> Nat]
  <2>1. CASE can
    BY <1>1, <1>2, <1>4, <2>1 DEF CanGraphicalChanged, CreateSeat
  <2>2. CASE ~can
    BY <1>1, <1>2, <1>4, <2>2, RemoveTypes DEF CanGraphicalChanged
  <2> QED BY <2>1, <2>2
<1> QED BY <1>1, <1>2, <1>6, <1>8, <1>9

(* Types: a LogindSeat that gets its answer.                               *)
LEMMA AnsweredTypes ==
  ASSUME Types, NEW id \in Nat \ {0}, NEW can \in BOOLEAN, GetAnswered(id, can)
  PROVE  /\ watchers' \subseteq Watcher /\ IsFiniteSet(watchers')
         /\ displays' \in [Seats -> Nat] /\ listed' \in [Seats -> Nat]
<1>1. /\ watchers \subseteq Watcher /\ IsFiniteSet(watchers)
      /\ displays \in [Seats -> Nat] /\ listed \in [Seats -> Nat]
  BY DEF Types, TypeOK
<1>2. CASE News(id, can) = {}
  BY <1>1, <1>2 DEF GetAnswered, objects, shown
<1>3. CASE News(id, can) # {}
  <2>1. PICK w \in News(id, can) :
          /\ watchers' = (watchers \ {w}) \cup {[w EXCEPT !.can = can]}
          /\ CanGraphicalChanged(w.seat, can, 1)
    BY <1>3 DEF GetAnswered
  <2>2. w \in Watcher /\ w.seat \in Seats
    BY <1>1 DEF News, Watcher
  <2>3. [w EXCEPT !.can = can] \in Watcher
    BY <2>2 DEF Watcher
  <2>4. IsFiniteSet(watchers')
    BY <1>1, <2>1, FS_RemoveElement, FS_AddElement
  <2>5. displays' \in [Seats -> Nat] /\ listed' \in [Seats -> Nat]
    <3>1. CASE can
      BY <1>1, <2>1, <2>2, <3>1 DEF CanGraphicalChanged, CreateSeat
    <3>2. CASE ~can
      BY <1>1, <2>1, <2>2, <3>2, RemoveTypes DEF CanGraphicalChanged
    <3> QED BY <3>1, <3>2
  <2> QED BY <1>1, <2>1, <2>3, <2>4, <2>5
<1> QED BY <1>2, <1>3

(* Types: a message that arrives.                                          *)
LEMMA SentTypes ==
  ASSUME inbox \in Seq(Message), NEW m \in Message, Send(m)
  PROVE  inbox' \in Seq(Message)
BY DEF Send

(* Types at first.                                                         *)
LEMMA TypesInit ==
  Init => Types
<1> SUFFICES ASSUME Init PROVE Types
  OBVIOUS
<1>1. IsFiniteSet({})
  BY FS_EmptySet
<1>2. calls \subseteq Call
  BY DEF Init, Call
<1>3. watchers \subseteq Watcher /\ IsFiniteSet(watchers)
  BY <1>1 DEF Init
<1>4. changes \in [Seats -> Nat] /\ \A s \in Seats : changes[s] <= MaxChanges[s]
  BY DEF Init
<1>5. exists \subseteq Seats /\ canGraphical \in [Seats -> BOOLEAN]
  BY DEF Init
<1>6. subscribed \in BOOLEAN /\ created \in Nat
  BY DEF Init
<1>7. inbox \in Seq(Message)
  <2>1. <<>> \in Seq(Message)
    OBVIOUS
  <2>2. inbox = <<>>
    BY DEF Init
  <2> QED BY <2>1, <2>2
<1>8. systemSeats \in [Seats -> Nat] /\ displays \in [Seats -> Nat] /\ listed \in [Seats -> Nat]
  BY DEF Init
<1>9. listAnswered \in BOOLEAN /\ unheard \subseteq Seats
  BY DEF Init
<1> QED BY <1>2, <1>3, <1>4, <1>5, <1>6, <1>7, <1>8, <1>9 DEF Types, TypeOK

(* Types in every step.                                                    *)
LEMMA TypesStep ==
  Types /\ [Next]_vars => Types'
<1> SUFFICES ASSUME Types, [Next]_vars PROVE Types'
  OBVIOUS
<1> USE DEF Types
<1>1. CASE UNCHANGED vars
  BY <1>1 DEF TypeOK, vars, logind, objects, shown
<1>2. CASE Subscribe
  BY <1>2 DEF TypeOK, Subscribe, logind, objects, shown
<1>3. ASSUME NEW s \in Seats, MayChange(s) PROVE
        /\ changes' \in [Seats -> Nat] /\ \A t \in Seats : changes'[t] <= MaxChanges[t]
  <2>1. changes \in [Seats -> Nat] /\ \A t \in Seats : changes[t] <= MaxChanges[t]
    BY DEF TypeOK
  <2> QED BY <1>3, <2>1 DEF MayChange
<1>4. ASSUME NEW s \in Seats, SeatAppears(s) PROVE Types'
  <2>1. inbox' \in Seq(Message)
    <3>1. [type |-> "SeatNew", seat |-> s] \in Message
      BY DEF Message
    <3> QED BY <1>4, <3>1, SentTypes DEF TypeOK, SeatAppears, SendIf
  <2> QED BY <1>3, <1>4, <2>1 DEF TypeOK, SeatAppears, MayChange, objects, shown
<1>5. ASSUME NEW s \in Seats, SeatDisappears(s) PROVE Types'
  <2>1. inbox' \in Seq(Message)
    <3>1. [type |-> "SeatRemoved", seat |-> s] \in Message
      BY DEF Message
    <3> QED BY <1>5, <3>1, SentTypes DEF TypeOK, SeatDisappears, SendIf
  <2> QED BY <1>3, <1>5, <2>1 DEF TypeOK, SeatDisappears, MayChange, objects, shown
<1>6. ASSUME NEW s \in Seats, GraphicsChange(s) PROVE Types'
  <2>1. inbox' \in Seq(Message)
    <3>1. [type |-> "Changed", seat |-> s, can |-> ~canGraphical[s]] \in Message
      BY DEF Message
    <3> QED BY <1>6, <3>1, SentTypes DEF TypeOK, GraphicsChange, SendIf
  <2>2. unheard' \subseteq Seats
    BY <1>6 DEF TypeOK, GraphicsChange
  <2> QED BY <1>3, <1>6, <2>1, <2>2 DEF TypeOK, GraphicsChange, MayChange, objects, shown
<1>7. ASSUME NEW c \in calls, Answer(c) PROVE Types'
  <2>1. c \in Call /\ canGraphical \in [Seats -> BOOLEAN] /\ exists \subseteq Seats
    BY DEF TypeOK
  <2>2. inbox' \in Seq(Message)
    <3>1. CASE AnswerListSeats(c)
      <4>1. [type |-> "Seats", seats |-> exists] \in Message
        BY <2>1 DEF Message
      <4> QED BY <3>1, <4>1, SentTypes DEF TypeOK, AnswerListSeats
    <3>2. CASE AnswerGet(c)
      <4>1. c.watcher \in Nat \ {0} /\ c.seat \in Seats
        BY <2>1, <3>2, MessageFacts DEF AnswerGet
      <4>2. /\ [type |-> "Value", watcher |-> c.watcher, can |-> canGraphical[c.seat]]
                 \in Message
            /\ [type |-> "NoValue", watcher |-> c.watcher] \in Message
        BY <2>1, <4>1 DEF Message
      <4> QED BY <3>2, <4>2, SentTypes DEF TypeOK, AnswerGet
    <3> QED BY <1>7, <3>1, <3>2 DEF Answer
  <2> QED BY <1>7, <2>2 DEF TypeOK, Answer, logind, objects, shown
<1>8. CASE Handle
  <2>1. /\ inbox # <<>> /\ inbox' = Tail(inbox) /\ UNCHANGED <<logind, subscribed, unheard>>
    BY <1>8 DEF Handle
  <2>2. inbox \in Seq(Message)
    BY DEF TypeOK
  <2>3. inbox' \in Seq(Message) /\ Head(inbox) \in Message
    BY <2>1, <2>2, TailFacts
  <2> SUFFICES /\ calls' \subseteq Call
               /\ watchers' \subseteq Watcher /\ IsFiniteSet(watchers') /\ created' \in Nat
               /\ systemSeats' \in [Seats -> Nat]
               /\ displays' \in [Seats -> Nat] /\ listed' \in [Seats -> Nat]
               /\ listAnswered' \in BOOLEAN
    BY <2>1, <2>3 DEF TypeOK, logind
  <2>4. CASE HandleSeats
    <3>1. Head(inbox).seats \in SUBSET Seats
      BY <2>3, <2>4, MessageFacts DEF HandleSeats
    <3> QED BY <2>4, <3>1, AddedTypes DEF TypeOK, HandleSeats
  <2>5. CASE HandleSeatNew
    <3>1. {Head(inbox).seat} \in SUBSET Seats
      BY <2>3, <2>5, MessageFacts DEF HandleSeatNew
    <3> QED BY <2>5, <3>1, AddedTypes DEF TypeOK, HandleSeatNew
  <2>6. CASE HandleSeatRemoved
    <3> DEFINE s == Head(inbox).seat
    <3>1. s \in Seats
      BY <2>3, <2>6, MessageFacts DEF HandleSeatRemoved
    <3>2. LogindSeatRemoved(s) /\ UNCHANGED listAnswered
      BY <2>6 DEF HandleSeatRemoved
    <3> HIDE DEF s
    <3>3. /\ watchers' = RemainingWatchers(s) /\ RemoveSeat(s, 1)
          /\ systemSeats' = [systemSeats EXCEPT ![s] = NoWatcher]
          /\ UNCHANGED <<created, calls>>
      BY <3>2 DEF LogindSeatRemoved
    <3>4. RemainingWatchers(s) \in SUBSET watchers
      BY DEF RemainingWatchers
    <3>5. IsFiniteSet(watchers')
      BY <3>3, <3>4, FS_Subset
    <3>6. displays' \in [Seats -> Nat] /\ listed' \in [Seats -> Nat]
      BY <3>1, <3>3, RemoveTypes DEF TypeOK
    <3> QED BY <3>2, <3>3, <3>4, <3>5, <3>6 DEF TypeOK
  <2>7. CASE HandleChanged
    <3>1. Head(inbox).seat \in Seats /\ Head(inbox).can \in BOOLEAN
      BY <2>3, <2>7, MessageFacts DEF HandleChanged
    <3>2. PropertiesChanged(Head(inbox).seat, Head(inbox).can) /\ UNCHANGED listAnswered
      BY <2>7 DEF HandleChanged
    <3>3. UNCHANGED <<created, systemSeats, calls>>
      BY <3>2 DEF PropertiesChanged
    <3> QED BY <3>1, <3>2, <3>3, ChangedTypes DEF TypeOK
  <2>8. CASE HandleValue
    <3>1. Head(inbox).watcher \in Nat \ {0} /\ Head(inbox).can \in BOOLEAN
      BY <2>3, <2>8, MessageFacts DEF HandleValue
    <3>2. GetAnswered(Head(inbox).watcher, Head(inbox).can) /\ UNCHANGED listAnswered
      BY <2>8 DEF HandleValue
    <3>3. UNCHANGED <<created, systemSeats, calls>>
      BY <3>2 DEF GetAnswered, objects
    <3> QED BY <3>1, <3>2, <3>3, AnsweredTypes DEF TypeOK
  <2>9. CASE HandleNoValue
    BY <2>9 DEF TypeOK, HandleNoValue, objects, shown
  <2> QED BY <1>8, <2>4, <2>5, <2>6, <2>7, <2>8, <2>9 DEF Handle
<1>9. ASSUME NEW s \in Seats, DisplayStopped(s) PROVE Types'
  <2>1. PICK l \in ListedAfter(s, 1) : listed' = [listed EXCEPT ![s] = l + 1]
    BY <1>9 DEF DisplayStopped
  <2>2. l \in Nat
    BY <2>1 DEF ListedAfter, TypeOK
  <2> QED BY <1>9, <2>1, <2>2 DEF TypeOK, DisplayStopped, logind, objects
<1> QED BY <1>1, <1>2, <1>4, <1>5, <1>6, <1>7, <1>8, <1>9 DEF Next

(* The variables of SeatManager keep their types, and no seat changes more *)
(* often than its bound.                                                   *)
THEOREM TypeCorrect == Spec => []TypeOK
<1>1. Types => TypeOK
  BY DEF Types
<1> QED BY <1>1, TypesInit, TypesStep, PTL DEF Spec

-----------------------------------------------------------------------------
(* Messages that arrive and are handled: what becomes of the order in which *)
(* the daemon hears of a seat.                                             *)

(* SeatNew and SeatRemoved still come in turn, and the last is still true, *)
(* if what arrives is what just happened.                                  *)
LEMMA TurnsAppend ==
  ASSUME inbox \in Seq(Message), NEW m \in Message, Send(m),
         NEW s \in Seats, systemSeats'[s] = systemSeats[s], TurnsOf(s),
         IsLife(m, s) => /\ m.type = "SeatNew" <=> s \notin exists
                         /\ m.type = "SeatNew" <=> s \in exists',
         ~IsLife(m, s) => (s \in exists' <=> s \in exists)
  PROVE  TurnsOf(s)'
<1>0. PICK n : n = Len(inbox)
  OBVIOUS
<1>1. /\ n \in Nat /\ Len(inbox') = n + 1 /\ inbox'[n + 1] = m
      /\ \A i \in 1 .. n : inbox'[i] = inbox[i]
  BY <1>0, AppendFacts DEF Send
<1>2. \A i \in 1 .. n : Life(i, s)' <=> Life(i, s)
  BY <1>1 DEF Life
<1>3. Life(n + 1, s)' <=> IsLife(m, s)
  BY <1>1 DEF Life
<1>4. \A i \in 0 .. n : KnownAt(i, s)' <=> KnownAt(i, s)
  BY <1>1 DEF KnownAt, Known
<1>5. \A i \in 0 .. n : LifeOrNow(i, s)' <=> LifeOrNow(i, s)
  BY <1>1, <1>2 DEF LifeOrNow
<1>6. ASSUME NEW i \in 0 .. n, NEW k \in 0 .. n + 1, NoLife(i + 1, k, s)'
      PROVE  /\ k <= n => NoLife(i + 1, k, s)
             /\ k = n + 1 => ~IsLife(m, s) /\ NoLife(i + 1, n, s)
  <2>1. \A j \in i + 1 .. k : ~Life(j, s)'
    BY <1>6 DEF NoLife
  <2>2. \A j \in i + 1 .. k : j \in 1 .. n => ~Life(j, s)
    BY <1>2, <2>1
  <2>3. ASSUME k <= n PROVE NoLife(i + 1, k, s)
    <3>1. \A j \in i + 1 .. k : j \in 1 .. n
      BY <1>1, <2>3
    <3> QED BY <2>2, <3>1 DEF NoLife
  <2>4. ASSUME k = n + 1 PROVE ~IsLife(m, s) /\ NoLife(i + 1, n, s)
    <3>1. n + 1 \in i + 1 .. k
      BY <1>1, <2>4
    <3>2. ~IsLife(m, s)
      BY <1>3, <2>1, <3>1
    <3>3. \A j \in i + 1 .. n : j \in 1 .. n /\ j \in i + 1 .. k
      BY <1>1, <2>4
    <3> QED BY <2>2, <3>2, <3>3 DEF NoLife
  <2> QED BY <2>3, <2>4
<1>7. ASSUME NEW i \in 0 .. n + 1, NEW j \in 1 .. n + 1, i < j, LifeOrNow(i, s)',
             Life(j, s)', NoLife(i + 1, j - 1, s)'
      PROVE  inbox'[j].type = "SeatNew" <=> ~KnownAt(i, s)'
  <2>1. i \in 0 .. n /\ j - 1 \in 0 .. n
    BY <1>1, <1>7
  <2>2. NoLife(i + 1, j - 1, s) /\ LifeOrNow(i, s)
    BY <1>1, <1>5, <1>6, <1>7, <2>1
  <2>3. CASE j = n + 1
    <3>1. IsLife(m, s) /\ inbox'[j] = m /\ j - 1 = n
      BY <1>1, <1>3, <1>7, <2>3
    <3>2. KnownAt(i, s) <=> s \in exists
      BY <1>0, <2>1, <2>2, <3>1 DEF TurnsOf
    <3> QED BY <1>4, <2>1, <3>1, <3>2
  <2>4. CASE j # n + 1
    <3>1. j \in 1 .. n
      BY <1>1, <2>4
    <3>2. Life(j, s) /\ inbox'[j] = inbox[j]
      BY <1>1, <1>2, <1>7, <3>1
    <3>3. inbox[j].type = "SeatNew" <=> ~KnownAt(i, s)
      BY <1>0, <1>7, <2>1, <2>2, <3>1, <3>2 DEF TurnsOf
    <3> QED BY <1>4, <2>1, <3>2, <3>3
  <2> QED BY <2>3, <2>4
<1>8. ASSUME NEW i \in 0 .. n + 1, LifeOrNow(i, s)', NoLife(i + 1, n + 1, s)'
      PROVE  KnownAt(i, s)' <=> s \in exists'
  <2>1. CASE i = n + 1
    <3>1. Life(i, s)' /\ i # 0
      BY <1>1, <1>8, <2>1 DEF LifeOrNow
    <3>2. IsLife(m, s)
      BY <1>3, <2>1, <3>1
    <3> QED BY <1>1, <2>1, <3>1, <3>2 DEF KnownAt
  <2>2. CASE i # n + 1
    <3>1. i \in 0 .. n /\ n + 1 \in 0 .. n + 1
      BY <1>1, <2>2
    <3>2. ~IsLife(m, s) /\ NoLife(i + 1, n, s) /\ LifeOrNow(i, s)
      BY <1>5, <1>6, <1>8, <3>1
    <3>3. KnownAt(i, s) <=> s \in exists
      BY <1>0, <3>1, <3>2 DEF TurnsOf
    <3> QED BY <1>4, <3>1, <3>2, <3>3
  <2> QED BY <2>1, <2>2
<1> QED BY <1>1, <1>7, <1>8 DEF TurnsOf

(* They still do when the first is handled, and the daemon then has a      *)
(* LogindSeat or has none as it said.                                      *)
LEMMA TurnsTail ==
  ASSUME inbox \in Seq(Message), inbox # <<>>, inbox' = Tail(inbox),
         NEW s \in Seats, exists' = exists, TurnsOf(s),
         Known(s)' <=> IF Life(1, s) THEN inbox[1].type = "SeatNew" ELSE Known(s)
  PROVE  TurnsOf(s)'
<1>1. PICK n \in Nat : n = Len(inbox) /\ n >= 1
  BY TailFacts
<1>2. Len(inbox') = n - 1 /\ \A i \in 1 .. n - 1 : inbox'[i] = inbox[i + 1]
  BY <1>1, TailFacts
<1>3. \A i \in 1 .. n - 1 : Life(i, s)' <=> Life(i + 1, s)
  BY <1>2 DEF Life
<1>4. PICK first \in {0, 1} : first = IF Life(1, s) THEN 1 ELSE 0
  OBVIOUS
<1> DEFINE Was(i) == IF i = 0 THEN first ELSE i + 1
<1>5. ASSUME NEW i \in 0 .. n - 1
      PROVE  /\ Was(i) \in 0 .. n /\ Was(i) <= i + 1
             /\ LifeOrNow(i, s)' => LifeOrNow(Was(i), s)
             /\ KnownAt(i, s)' <=> KnownAt(Was(i), s)
  <2>1. CASE i = 0
    BY <1>1, <1>4, <2>1 DEF LifeOrNow, KnownAt
  <2>2. CASE i # 0
    BY <1>1, <1>2, <1>3, <2>2 DEF LifeOrNow, KnownAt
  <2> QED BY <2>1, <2>2
<1>6. ASSUME NEW i \in 0 .. n - 1, NEW k \in 0 .. n - 1, NoLife(i + 1, k, s)'
      PROVE  NoLife(Was(i) + 1, k + 1, s)
  <2> SUFFICES ASSUME NEW j \in Was(i) + 1 .. k + 1 PROVE ~Life(j, s)
    BY DEF NoLife
  <2>1. CASE j = 1
    BY <1>1, <1>4, <1>5, <2>1
  <2>2. CASE j # 1
    <3>1. j - 1 \in i + 1 .. k /\ j - 1 \in 1 .. n - 1
      BY <1>1, <1>4, <2>2
    <3>2. ~Life(j - 1, s)'
      BY <1>6, <3>1 DEF NoLife
    <3>3. (j - 1) + 1 = j
      BY <1>1, <3>1
    <3> QED BY <1>3, <3>1, <3>2, <3>3
  <2> QED BY <2>1, <2>2
<1>7. ASSUME NEW i \in 0 .. n - 1, NEW j \in 1 .. n - 1, i < j, LifeOrNow(i, s)',
             Life(j, s)', NoLife(i + 1, j - 1, s)'
      PROVE  inbox'[j].type = "SeatNew" <=> ~KnownAt(i, s)'
  <2>1. PICK w : w = Was(i)
    OBVIOUS
  <2>2. /\ w \in 0 .. n /\ w < j + 1 /\ LifeOrNow(w, s)
        /\ KnownAt(i, s)' <=> KnownAt(w, s)
    BY <1>1, <1>5, <1>7, <2>1
  <2>3. j - 1 \in 0 .. n - 1 /\ (j - 1) + 1 = (j + 1) - 1 /\ j + 1 \in 1 .. n
    BY <1>1, <1>7
  <2>4. NoLife(w + 1, (j + 1) - 1, s)
    BY <1>6, <1>7, <2>1, <2>3
  <2>5. Life(j + 1, s) /\ inbox'[j] = inbox[j + 1]
    BY <1>2, <1>3, <1>7
  <2>6. inbox[j + 1].type = "SeatNew" <=> ~KnownAt(w, s)
    BY <1>1, <2>2, <2>3, <2>4, <2>5 DEF TurnsOf
  <2> QED BY <2>2, <2>5, <2>6
<1>8. ASSUME NEW i \in 0 .. n - 1, LifeOrNow(i, s)', NoLife(i + 1, n - 1, s)'
      PROVE  KnownAt(i, s)' <=> s \in exists'
  <2>1. PICK w : w = Was(i)
    OBVIOUS
  <2>2. /\ w \in 0 .. n /\ LifeOrNow(w, s)
        /\ KnownAt(i, s)' <=> KnownAt(w, s)
    BY <1>5, <1>8, <2>1
  <2>3. n - 1 \in 0 .. n - 1 /\ (n - 1) + 1 = n
    BY <1>1
  <2>4. NoLife(w + 1, n, s)
    BY <1>6, <1>8, <2>1, <2>3
  <2>5. KnownAt(w, s) <=> s \in exists
    BY <1>1, <2>2, <2>4 DEF TurnsOf
  <2> QED BY <2>2, <2>5
<1> QED BY <1>2, <1>7, <1>8 DEF TurnsOf


(* And what becomes of what it hears of CanGraphical.                      *)
LEMMA NewsAppend ==
  ASSUME inbox \in Seq(Message), NEW m \in Message, Send(m), NEW s \in Seats,
         systemSeats'[s] = systemSeats[s], Can(s)' <=> Can(s), NewsOf(s),
         Bears(Len(inbox), s)' =>
           /\ m.can <=> canGraphical'[s]
           /\ m.type = "Changed" /\ m.can => ~canGraphical[s],
         ~Bears(Len(inbox), s)' /\ ~IsLife(m, s) =>
           /\ canGraphical'[s] <=> canGraphical[s]
           /\ Known(s) /\ ~GetPending(s)' => ~GetPending(s) \/ ~NoLife(1, Len(inbox), s)
  PROVE  NewsOf(s)'
<1>1. PICK n \in Nat : n = Len(inbox)
  BY AppendFacts DEF Send
<1>2. /\ Len(inbox') = n + 1 /\ inbox'[n + 1] = m
      /\ \A i \in 1 .. n : inbox'[i] = inbox[i]
  BY <1>1, AppendFacts DEF Send
<1>3. /\ Bears(n + 1, s)' => /\ m.can <=> canGraphical'[s]
                             /\ m.type = "Changed" /\ m.can => ~canGraphical[s]
      /\ ~Bears(n + 1, s)' /\ ~IsLife(m, s) =>
           /\ canGraphical'[s] <=> canGraphical[s]
           /\ Known(s) /\ ~GetPending(s)' => ~GetPending(s) \/ ~NoLife(1, n, s)
  BY <1>1, <1>2
<1>4. /\ \A i \in 1 .. n : Life(i, s)' <=> Life(i, s)
      /\ Life(n + 1, s)' <=> IsLife(m, s)
  BY <1>1, <1>2 DEF Life
<1>5. \A i \in 1 .. n : NoLife(1, i - 1, s)' <=> NoLife(1, i - 1, s)
  <2> TAKE i \in 1 .. n
  <2>1. \A j \in 1 .. i - 1 : j \in 1 .. n
    BY <1>1
  <2> QED BY <1>4, <2>1 DEF NoLife
<1>6. \A i \in 1 .. n : Bears(i, s)' <=> Bears(i, s)
  BY <1>2, <1>5 DEF Bears
<1>7. \A i \in 0 .. n : /\ CanAt(i, s)' <=> CanAt(i, s)
                        /\ BearsOrNow(i, s)' <=> BearsOrNow(i, s)
  BY <1>1, <1>2, <1>6 DEF CanAt, BearsOrNow
<1>8. ASSUME NEW i \in 0 .. n, NEW k \in 0 .. n + 1, Calm(i + 1, k, s)'
      PROVE  /\ k <= n => Calm(i + 1, k, s)
             /\ k = n + 1 => /\ ~IsLife(m, s) /\ ~Bears(n + 1, s)'
                             /\ Calm(i + 1, n, s)
  <2>1. \A j \in i + 1 .. k : ~Life(j, s)' /\ ~Bears(j, s)'
    BY <1>8 DEF Calm
  <2>2. \A j \in i + 1 .. k : j \in 1 .. n => ~Life(j, s) /\ ~Bears(j, s)
    BY <1>4, <1>6, <2>1
  <2>3. ASSUME k <= n PROVE Calm(i + 1, k, s)
    <3>1. \A j \in i + 1 .. k : j \in 1 .. n
      BY <1>1, <2>3
    <3> QED BY <2>2, <3>1 DEF Calm
  <2>4. ASSUME k = n + 1
        PROVE  ~IsLife(m, s) /\ ~Bears(n + 1, s)' /\ Calm(i + 1, n, s)
    <3>1. n + 1 \in i + 1 .. k
      BY <1>1, <2>4
    <3>2. ~IsLife(m, s) /\ ~Bears(n + 1, s)'
      BY <1>4, <2>1, <3>1
    <3>3. \A j \in i + 1 .. n : j \in 1 .. n /\ j \in i + 1 .. k
      BY <1>1, <2>4
    <3> QED BY <2>2, <3>2, <3>3 DEF Calm
  <2> QED BY <2>3, <2>4
<1>9. ASSUME NEW i \in 0 .. n, BearsOrNow(i, s), Calm(i + 1, n, s)
      PROVE  /\ CanAt(i, s) => canGraphical[s]
             /\ i > 0 \/ (Known(s) /\ ~GetPending(s)) => (CanAt(i, s) <=> canGraphical[s])
  BY <1>1, <1>9 DEF NewsOf
<1>10. ASSUME NEW i \in 0 .. n + 1, NEW j \in 1 .. n + 1, i < j, BearsOrNow(i, s)',
              Calm(i + 1, j - 1, s)',
              inbox'[j].type = "Changed", inbox'[j].seat = s, inbox'[j].can
       PROVE  ~CanAt(i, s)'
  <2>1. i \in 0 .. n /\ j - 1 \in 0 .. n
    BY <1>1, <1>10
  <2>2. Calm(i + 1, j - 1, s) /\ BearsOrNow(i, s)
    BY <1>1, <1>7, <1>8, <1>10, <2>1
  <2>3. CASE j = n + 1
    <3>1. inbox'[j] = m /\ j - 1 = n /\ m.type = "Changed" /\ m.can
      BY <1>1, <1>2, <1>10, <2>3
    <3>2. Bears(n + 1, s)'
      BY <1>10, <2>3 DEF Bears
    <3>3. ~canGraphical[s]
      BY <1>3, <3>1, <3>2
    <3> QED BY <1>7, <1>9, <2>1, <2>2, <3>1, <3>3
  <2>4. CASE j # n + 1
    <3>1. j \in 1 .. n
      BY <1>1, <2>4
    <3>2. inbox'[j] = inbox[j]
      BY <1>2, <3>1
    <3>3. ~CanAt(i, s)
      BY <1>1, <1>10, <2>1, <2>2, <3>1, <3>2 DEF NewsOf
    <3> QED BY <1>7, <2>1, <3>3
  <2> QED BY <2>3, <2>4
<1>11. ASSUME NEW i \in 0 .. n + 1, BearsOrNow(i, s)', Calm(i + 1, n + 1, s)'
       PROVE  /\ CanAt(i, s)' => canGraphical'[s]
              /\ i > 0 \/ (Known(s)' /\ ~GetPending(s)') => (CanAt(i, s)' <=> canGraphical'[s])
  <2>1. CASE i = n + 1
    <3>1. Bears(n + 1, s)'
      BY <1>1, <1>11, <2>1 DEF BearsOrNow
    <3>2. CanAt(i, s)' <=> m.can
      BY <1>1, <1>2, <2>1 DEF CanAt
    <3> QED BY <1>3, <3>1, <3>2
  <2>2. CASE i # n + 1
    <3>1. i \in 0 .. n /\ n + 1 \in 0 .. n + 1
      BY <1>1, <2>2
    <3>2. /\ ~IsLife(m, s) /\ ~Bears(n + 1, s)' /\ Calm(i + 1, n, s)
          /\ BearsOrNow(i, s) /\ (CanAt(i, s)' <=> CanAt(i, s))
      BY <1>7, <1>8, <1>11, <3>1
    <3>3. /\ canGraphical'[s] <=> canGraphical[s]
          /\ Known(s) /\ ~GetPending(s)' => ~GetPending(s) \/ ~NoLife(1, n, s)
      BY <1>3, <3>2
    <3>4. Known(s)' <=> Known(s)
      BY DEF Known
    <3>5. i = 0 => NoLife(1, n, s)
      BY <3>2 DEF Calm, NoLife
    <3>6. CanAt(i, s) => canGraphical[s]
      BY <1>9, <3>1, <3>2
    <3>7. i > 0 \/ (Known(s) /\ ~GetPending(s)) => (CanAt(i, s) <=> canGraphical[s])
      BY <1>9, <3>1, <3>2
    <3>8. CanAt(i, s)' => canGraphical'[s]
      BY <3>2, <3>3, <3>6
    <3>9. CASE i > 0
      BY <3>2, <3>3, <3>7, <3>8, <3>9
    <3>10. CASE i = 0
      BY <3>2, <3>3, <3>4, <3>5, <3>7, <3>8, <3>10
    <3> QED BY <3>1, <3>9, <3>10
  <2> QED BY <2>1, <2>2
<1> QED BY <1>2, <1>10, <1>11 DEF NewsOf

(* News are still news when the first message is handled, if the daemon    *)
(* then believes what it said; a LogindSeat that is gone believes nothing, *)
(* and a new one has asked.                                                *)
LEMMA NewsTail ==
  ASSUME inbox \in Seq(Message), inbox # <<>>, inbox' = Tail(inbox), NEW s \in Seats,
         canGraphical' = canGraphical, NewsOf(s),
         \A i \in 1 .. Len(inbox) - 1 : Bears(i, s)' <=> Bears(i + 1, s),
         \/ /\ ~Life(1, s) /\ ~Bears(1, s) /\ (Can(s)' <=> Can(s))
            /\ Known(s)' /\ ~GetPending(s)' => Known(s) /\ ~GetPending(s)
         \/ Bears(1, s) /\ (Can(s)' <=> inbox[1].can)
         \/ ~Can(s)' /\ (Known(s)' => GetPending(s)')
  PROVE  NewsOf(s)'
<1>1. PICK n \in Nat : n = Len(inbox) /\ n >= 1
  BY TailFacts
<1>2. Len(inbox') = n - 1 /\ \A i \in 1 .. n - 1 : inbox'[i] = inbox[i + 1]
  BY <1>1, TailFacts
<1>3. \A i \in 1 .. n - 1 : /\ Life(i, s)' <=> Life(i + 1, s)
                            /\ Bears(i, s)' <=> Bears(i + 1, s)
  BY <1>1, <1>2 DEF Life
<1>4. ASSUME NEW i \in 0 .. n - 1, NEW k \in 0 .. n - 1, Calm(i + 1, k, s)'
      PROVE  /\ Calm(i + 2, k + 1, s)
             /\ i = 0 /\ ~Life(1, s) /\ ~Bears(1, s) => Calm(1, k + 1, s)
  <2>1. ASSUME NEW j \in i + 2 .. k + 1 PROVE ~Life(j, s) /\ ~Bears(j, s)
    <3>1. j - 1 \in i + 1 .. k /\ j - 1 \in 1 .. n - 1 /\ (j - 1) + 1 = j
      BY <1>1, <2>1
    <3>2. ~Life(j - 1, s)' /\ ~Bears(j - 1, s)'
      BY <1>4, <3>1 DEF Calm
    <3> QED BY <1>3, <3>1, <3>2
  <2>2. ASSUME i = 0, ~Life(1, s), ~Bears(1, s) PROVE Calm(1, k + 1, s)
    <3> SUFFICES ASSUME NEW j \in 1 .. k + 1 PROVE ~Life(j, s) /\ ~Bears(j, s)
      BY DEF Calm
    <3>1. j = 1 \/ j \in i + 2 .. k + 1
      BY <1>1, <2>2
    <3> QED BY <2>1, <2>2, <3>1
  <2> QED BY <2>1, <2>2 DEF Calm
<1>5. ASSUME NEW i \in 1 .. n - 1
      PROVE  /\ BearsOrNow(i, s)' => BearsOrNow(i + 1, s)
             /\ CanAt(i, s)' <=> CanAt(i + 1, s)
  BY <1>1, <1>2, <1>3, <1>5 DEF BearsOrNow, CanAt
<1>6. ASSUME NEW i \in 0 .. n, NEW j \in 1 .. n, i < j, BearsOrNow(i, s),
             Calm(i + 1, j - 1, s),
             inbox[j].type = "Changed", inbox[j].seat = s, inbox[j].can
      PROVE  ~CanAt(i, s)
  BY <1>1, <1>6 DEF NewsOf
<1>7. ASSUME NEW i \in 0 .. n, BearsOrNow(i, s), Calm(i + 1, n, s)
      PROVE  /\ CanAt(i, s) => canGraphical[s]
             /\ i > 0 \/ (Known(s) /\ ~GetPending(s)) => (CanAt(i, s) <=> canGraphical[s])
  BY <1>1, <1>7 DEF NewsOf
<1>8. CanAt(0, s)' <=> Can(s)'
  BY DEF CanAt
<1>9. CanAt(0, s) <=> Can(s)
  BY DEF CanAt
<1>10. Bears(1, s) => BearsOrNow(1, s) /\ (CanAt(1, s) <=> inbox[1].can)
  BY DEF BearsOrNow, CanAt
<1>11. BearsOrNow(0, s)
  BY DEF BearsOrNow
<1>12. ASSUME NEW i \in 0 .. n - 1, NEW j \in 1 .. n - 1, i < j, BearsOrNow(i, s)',
              Calm(i + 1, j - 1, s)',
              inbox'[j].type = "Changed", inbox'[j].seat = s, inbox'[j].can
       PROVE  ~CanAt(i, s)'
  <2>1. /\ j - 1 \in 0 .. n - 1 /\ (j - 1) + 1 = j /\ (j + 1) - 1 = j
        /\ j + 1 \in 1 .. n /\ i < j + 1 /\ inbox'[j] = inbox[j + 1]
    BY <1>1, <1>2, <1>12
  <2>2. Calm(i + 2, (j + 1) - 1, s)
    BY <1>4, <1>12, <2>1
  <2>3. i = 0 /\ ~Life(1, s) /\ ~Bears(1, s) => Calm(1, (j + 1) - 1, s)
    BY <1>4, <1>12, <2>1
  <2>4. CASE i = 0
    <3>1. CASE ~Life(1, s) /\ ~Bears(1, s) /\ (Can(s)' <=> Can(s))
      <4>1. 0 \in 0 .. n /\ 0 < j + 1 /\ 0 + 1 = 1
        BY <1>1, <2>1, <2>4
      <4>2. ~CanAt(0, s)
        BY <1>6, <1>11, <1>12, <2>1, <2>3, <2>4, <3>1, <4>1
      <4> QED BY <1>8, <1>9, <2>4, <3>1, <4>2
    <3>2. CASE Bears(1, s) /\ (Can(s)' <=> inbox[1].can)
      <4>1. 1 \in 0 .. n /\ 1 < j + 1 /\ i + 2 = 1 + 1
        BY <1>1, <2>1, <2>4
      <4>2. ~CanAt(1, s)
        BY <1>6, <1>10, <1>12, <2>1, <2>2, <3>2, <4>1
      <4> QED BY <1>8, <1>10, <2>4, <3>2, <4>2
    <3>3. CASE ~Can(s)'
      BY <1>8, <2>4, <3>3
    <3> QED BY <3>1, <3>2, <3>3
  <2>5. CASE i # 0
    <3>1. i \in 1 .. n - 1 /\ i + 1 \in 0 .. n /\ i + 1 < j + 1 /\ (i + 1) + 1 = i + 2
      BY <1>1, <1>12, <2>5
    <3>2. BearsOrNow(i + 1, s)
      BY <1>5, <1>12, <3>1
    <3>3. ~CanAt(i + 1, s)
      BY <1>6, <1>12, <2>1, <2>2, <3>1, <3>2
    <3> QED BY <1>5, <3>1, <3>3
  <2> QED BY <2>4, <2>5
<1>13. ASSUME NEW i \in 0 .. n - 1, BearsOrNow(i, s)', Calm(i + 1, n - 1, s)'
       PROVE  /\ CanAt(i, s)' => canGraphical'[s]
              /\ i > 0 \/ (Known(s)' /\ ~GetPending(s)') => (CanAt(i, s)' <=> canGraphical'[s])
  <2>1. n - 1 \in 0 .. n - 1 /\ (n - 1) + 1 = n
    BY <1>1
  <2>2. /\ Calm(i + 2, n, s)
        /\ i = 0 /\ ~Life(1, s) /\ ~Bears(1, s) => Calm(1, n, s)
    BY <1>4, <1>13, <2>1
  <2>3. CASE i = 0
    <3>1. CASE /\ ~Life(1, s) /\ ~Bears(1, s) /\ (Can(s)' <=> Can(s))
               /\ Known(s)' /\ ~GetPending(s)' => Known(s) /\ ~GetPending(s)
      <4>1. 0 \in 0 .. n /\ 0 + 1 = 1 /\ ~(0 > 0)
        BY <1>1
      <4>2. /\ CanAt(0, s) => canGraphical[s]
            /\ Known(s) /\ ~GetPending(s) => (CanAt(0, s) <=> canGraphical[s])
        BY <1>7, <1>11, <2>2, <2>3, <3>1, <4>1
      <4> QED BY <1>8, <1>9, <2>3, <3>1, <4>1, <4>2
    <3>2. CASE Bears(1, s) /\ (Can(s)' <=> inbox[1].can)
      <4>1. 1 \in 0 .. n /\ 1 > 0 /\ i + 2 = 1 + 1
        BY <1>1, <2>3
      <4>2. CanAt(1, s) <=> canGraphical[s]
        BY <1>7, <1>10, <2>2, <3>2, <4>1
      <4> QED BY <1>8, <1>10, <2>3, <3>2, <4>2
    <3>3. CASE ~Can(s)' /\ (Known(s)' => GetPending(s)')
      <4>1. ~(0 > 0)
        OBVIOUS
      <4> QED BY <1>8, <2>3, <3>3, <4>1
    <3> QED BY <3>1, <3>2, <3>3
  <2>4. CASE i # 0
    <3>1. i \in 1 .. n - 1 /\ i + 1 \in 0 .. n /\ i + 1 > 0 /\ (i + 1) + 1 = i + 2
      BY <1>1, <1>13, <2>4
    <3>2. BearsOrNow(i + 1, s)
      BY <1>5, <1>13, <3>1
    <3>3. CanAt(i + 1, s) <=> canGraphical[s]
      BY <1>7, <2>2, <3>1, <3>2
    <3> QED BY <1>5, <3>1, <3>3
  <2> QED BY <2>3, <2>4
<1> QED BY <1>2, <1>12, <1>13 DEF NewsOf


(* When the message that arrives bears on the seat.                        *)
LEMMA BearsLast ==
  ASSUME inbox \in Seq(Message), NEW m \in Message, Send(m), NEW s \in Seats,
         systemSeats'[s] = systemSeats[s]
  PROVE  Bears(Len(inbox), s)' <=>
           \/ m.type = "Changed" /\ m.seat = s
           \/ /\ m.type = "Value" /\ m.watcher = systemSeats[s]
              /\ NoLife(1, Len(inbox), s)
<1>1. PICK n \in Nat : n = Len(inbox)
  BY AppendFacts DEF Send
<1>2. /\ Len(inbox') = n + 1 /\ inbox'[n + 1] = m /\ (n + 1) - 1 = n
      /\ \A i \in 1 .. n : inbox'[i] = inbox[i]
  BY <1>1, AppendFacts DEF Send
<1>3. NoLife(1, n, s)' <=> NoLife(1, n, s)
  BY <1>2 DEF NoLife, Life
<1>4. Bears(n + 1, s)' <=>
           \/ m.type = "Changed" /\ m.seat = s
           \/ /\ m.type = "Value" /\ m.watcher = systemSeats[s]
              /\ NoLife(1, n, s)
  BY <1>2, <1>3 DEF Bears
<1> QED BY <1>1, <1>2, <1>4

(* What the daemon has of a seat.                                          *)
LEMMA WatcherFacts ==
  ASSUME Types, WatchersInv
  PROVE  /\ \A w \in watchers : /\ w \in Watcher /\ w.id \in Nat \ {0}
                                /\ w.seat \in Seats /\ w.can \in BOOLEAN
                                /\ systemSeats[w.seat] = w.id /\ Known(w.seat)
         /\ \A s \in Seats : /\ systemSeats[s] \in Nat /\ created \in Nat
                             /\ Can(s) => Known(s)
         /\ \A s \in Seats : Known(s) =>
              \E w \in watchers : w.seat = s /\ (Can(s) <=> w.can)
<1>1. watchers \subseteq Watcher /\ systemSeats \in [Seats -> Nat] /\ created \in Nat
  BY DEF Types, TypeOK
<1>2. \A w \in watchers : /\ w \in Watcher /\ w.id \in Nat \ {0}
                          /\ w.seat \in Seats /\ w.can \in BOOLEAN
  BY <1>1 DEF Watcher
<1>3. \A w \in watchers : systemSeats[w.seat] = w.id /\ Known(w.seat)
  BY <1>2 DEF WatchersInv, Known
<1>4. \A s \in Seats : Can(s) => Known(s)
  BY <1>3 DEF Can
<1>5. \A s \in Seats : Known(s) =>
        \E w \in watchers : w.seat = s /\ (Can(s) <=> w.can)
  BY DEF WatchersInv, Can
<1> QED BY <1>1, <1>2, <1>3, <1>4, <1>5

(* A message that arrives leaves alone what is counted.                    *)
LEMMA Arrival ==
  ASSUME Types, WatchersInv, NumbersInv, StartInv, listAnswered = TRUE,
         NEW m \in Message, Send(m), m.type # "Seats",
         m.type = "Value" => m.watcher <= created,
         calls' \subseteq calls, UNCHANGED <<objects, listAnswered>>
  PROVE  WatchersInv' /\ NumbersInv' /\ StartInv'
<1>1. inbox \in Seq(Message)
  BY DEF Types, TypeOK
<1>2. PICK n \in Nat : n = Len(inbox)
  BY <1>1, AppendFacts DEF Send
<1>3. /\ Len(inbox') = n + 1 /\ inbox'[n + 1] = m
      /\ \A i \in 1 .. n : inbox'[i] = inbox[i]
  BY <1>1, <1>2, AppendFacts DEF Send
<1>4. \A i \in 1 .. n + 1 : i = n + 1 \/ i \in 1 .. n
  BY <1>2
<1>5. WatchersInv'
  BY DEF WatchersInv, Known, objects
<1>6. NumbersInv'
  BY <1>2, <1>3, <1>4 DEF NumbersInv, objects
<1>7. StartInv'
  BY <1>2, <1>3, <1>4 DEF StartInv
<1> QED BY <1>5, <1>6, <1>7

(* Nothing is under way and nothing happens before the seats are listed.   *)
LEMMA ExistsChange ==
  ASSUME IInv, ~StartupRace, NEW s \in Seats, SeatAppears(s) \/ SeatDisappears(s)
  PROVE  WatchersInv' /\ NumbersInv' /\ StartInv' /\ TurnsInv' /\ NewsInv' /\
         DisplaysInv' /\ ExistsInv'
<1> USE DEF IInv
<1>1. /\ subscribed /\ listAnswered = TRUE
      /\ UNCHANGED <<calls, subscribed, objects, shown, listAnswered, unheard>>
  BY DEF SeatAppears, SeatDisappears, MayChange, Types, TypeOK
<1>2. PICK m \in Message : /\ Send(m) /\ m.type \in {"SeatNew", "SeatRemoved"} /\ m.seat = s
                           /\ m.type = "SeatNew" <=> SeatAppears(s)
                           /\ m.type = "SeatNew" <=> s \notin exists
                           /\ m.type = "SeatNew" <=> s \in exists'
  <2>1. CASE SeatAppears(s)
    <3>1. [type |-> "SeatNew", seat |-> s] \in Message
      BY DEF Message
    <3>2. Send([type |-> "SeatNew", seat |-> s]) /\ s \notin exists /\ s \in exists'
      BY <1>1, <2>1 DEF SeatAppears, SendIf
    <3> QED BY <2>1, <3>1, <3>2
  <2>2. CASE SeatDisappears(s)
    <3>1. [type |-> "SeatRemoved", seat |-> s] \in Message
      BY DEF Message
    <3>2. Send([type |-> "SeatRemoved", seat |-> s]) /\ s \in exists /\ s \notin exists'
      BY <1>1, <2>2 DEF SeatDisappears, SendIf
    <3> QED BY <2>2, <3>1, <3>2 DEF SeatAppears
  <2> QED BY <2>1, <2>2
<1>3. \A t \in Seats \ {s} : (t \in exists' <=> t \in exists) /\ canGraphical'[t] = canGraphical[t]
  BY DEF SeatAppears, SeatDisappears, Types, TypeOK
<1>4. inbox \in Seq(Message) /\ \A t \in Seats : systemSeats'[t] = systemSeats[t]
  BY <1>1 DEF objects, Types, TypeOK
<1>5. WatchersInv' /\ NumbersInv' /\ StartInv'
  BY <1>1, <1>2, Arrival
<1>6. TurnsInv'
  <2> SUFFICES ASSUME NEW t \in Seats PROVE TurnsOf(t)'
    BY DEF TurnsInv
  <2>1. TurnsOf(t)
    BY <1>1 DEF TurnsInv
  <2>2. IsLife(m, t) <=> t = s
    BY <1>2 DEF IsLife
  <2> QED BY <1>2, <1>3, <1>4, <2>1, <2>2, TurnsAppend
<1>7. NewsInv'
  <2> SUFFICES ASSUME NEW t \in Seats \ unheard PROVE NewsOf(t)'
    BY <1>1 DEF NewsInv
  <2>1. NewsOf(t)
    BY DEF NewsInv
  <2>2. ~Bears(Len(inbox), t)'
    BY <1>2, <1>4, BearsLast
  <2>3. (Can(t)' <=> Can(t)) /\ (GetPending(t)' <=> GetPending(t))
    BY <1>1 DEF Can, GetPending, objects
  <2>4. IsLife(m, t) <=> t = s
    BY <1>2 DEF IsLife
  <2> QED BY <1>2, <1>3, <1>4, <2>1, <2>2, <2>3, <2>4, NewsAppend
<1>8. DisplaysInv'
  BY <1>1 DEF DisplaysInv, Can, objects, shown
<1>9. ExistsInv'
  <2>1. s \notin exists' => ~canGraphical'[s]
    BY DEF SeatAppears, SeatDisappears, Types, TypeOK
  <2> QED BY <1>3, <2>1 DEF ExistsInv
<1> QED BY <1>5, <1>6, <1>7, <1>8, <1>9

(* CanGraphical changes: it is told as news, or the seat is unheard.       *)
LEMMA GraphicsStep ==
  ASSUME IInv, ~StartupRace, NEW s \in Seats, GraphicsChange(s)
  PROVE  WatchersInv' /\ NumbersInv' /\ StartInv' /\ TurnsInv' /\ NewsInv' /\
         DisplaysInv' /\ ExistsInv'
<1> USE DEF IInv
<1>1. /\ subscribed /\ listAnswered = TRUE /\ s \in exists /\ unheard \subseteq unheard'
      /\ UNCHANGED <<calls, subscribed, objects, shown, listAnswered, exists>>
  BY DEF GraphicsChange, MayChange, Types, TypeOK
<1>2. /\ canGraphical'[s] = ~canGraphical[s]
      /\ \A t \in Seats \ {s} : canGraphical'[t] = canGraphical[t]
  BY DEF GraphicsChange, Types, TypeOK
<1>3. inbox \in Seq(Message) /\ \A t \in Seats : systemSeats'[t] = systemSeats[t]
  BY <1>1 DEF objects, Types, TypeOK
<1>4. \A t \in Seats : (Can(t)' <=> Can(t)) /\ (GetPending(t)' <=> GetPending(t))
  BY <1>1 DEF Can, GetPending, objects
<1>5. DisplaysInv'
  BY <1>1 DEF DisplaysInv, Can, objects, shown
<1>6. ExistsInv'
  BY <1>1, <1>2 DEF ExistsInv
<1>7. CASE Watched(s)
  <2> DEFINE m == [type |-> "Changed", seat |-> s, can |-> ~canGraphical[s]]
  <2>1. Send(m)
    BY <1>7 DEF GraphicsChange, SendIf
  <2>2. m \in Message
    BY DEF Message
  <2>3. PICK x \in Message : /\ Send(x) /\ x.type = "Changed" /\ x.seat = s
                             /\ x.can <=> ~canGraphical[s]
    BY <2>1, <2>2
  <2>4. WatchersInv' /\ NumbersInv' /\ StartInv'
    BY <1>1, <2>3, Arrival
  <2>5. TurnsInv'
    <3> SUFFICES ASSUME NEW t \in Seats PROVE TurnsOf(t)'
      BY DEF TurnsInv
    <3>1. TurnsOf(t) /\ ~IsLife(x, t)
      BY <1>1, <2>3 DEF TurnsInv, IsLife
    <3> QED BY <1>1, <1>3, <2>3, <3>1, TurnsAppend
  <2>6. NewsInv'
    <3> SUFFICES ASSUME NEW t \in Seats \ unheard PROVE NewsOf(t)'
      BY <1>1 DEF NewsInv
    <3>1. NewsOf(t)
      BY DEF NewsInv
    <3>2. Bears(Len(inbox), t)' <=> t = s
      BY <1>3, <2>3, BearsLast
    <3> QED BY <1>2, <1>3, <1>4, <2>3, <3>1, <3>2, NewsAppend
  <2> QED BY <1>5, <1>6, <2>4, <2>5, <2>6
<1>8. CASE ~Watched(s)
  <2>1. inbox' = inbox
    BY <1>8 DEF GraphicsChange, SendIf
  <2>2. WatchersInv' /\ NumbersInv' /\ StartInv'
    BY <1>1, <2>1 DEF WatchersInv, Known, NumbersInv, StartInv, objects
  <2>3. TurnsInv'
    BY <1>1, <2>1 DEF TurnsInv, TurnsOf, LifeOrNow, Life, NoLife, KnownAt, Known, objects
  <2>4. NewsInv'
    <3> SUFFICES ASSUME NEW t \in Seats \ unheard' PROVE NewsOf(t)'
      BY DEF NewsInv
    <3>1. NewsOf(t) /\ t \in Seats
      BY <1>1 DEF NewsInv
    <3>2. CASE t # s
      <4>1. canGraphical'[t] = canGraphical[t]
        BY <1>2, <3>2
      <4>2. systemSeats' = systemSeats
        BY <1>1 DEF objects
      <4>3. \A i \in Nat : /\ Life(i, t)' <=> Life(i, t)
                           /\ Bears(i, t)' <=> Bears(i, t)
                           /\ BearsOrNow(i, t)' <=> BearsOrNow(i, t)
        BY <2>1, <4>2 DEF BearsOrNow, Bears, NoLife, Life
      <4>4. \A i, k \in Nat : Calm(i, k, t)' <=> Calm(i, k, t)
        BY <4>3 DEF Calm
      <4>5. \A i \in Nat : CanAt(i, t)' <=> CanAt(i, t)
        BY <1>4, <2>1, <3>1 DEF CanAt
      <4>6. Known(t)' <=> Known(t)
        BY <4>2 DEF Known
      <4>7. PICK n \in Nat : n = Len(inbox)
        BY <1>3
      <4>8. \A i \in 0 .. n : i \in Nat /\ i + 1 \in Nat
        OBVIOUS
      <4>9. \A j \in 1 .. n : j \in Nat /\ j - 1 \in Nat
        OBVIOUS
      <4>10. Len(inbox') = n
        BY <2>1, <4>7
      <4>11. ASSUME NEW i \in 0 .. n, NEW j \in 1 .. n, i < j, BearsOrNow(i, t)',
                    Calm(i + 1, j - 1, t)',
                    inbox'[j].type = "Changed", inbox'[j].seat = t, inbox'[j].can
             PROVE  ~CanAt(i, t)'
        BY <2>1, <3>1, <4>3, <4>4, <4>5, <4>7, <4>8, <4>9, <4>11 DEF NewsOf
      <4>12. ASSUME NEW i \in 0 .. n, BearsOrNow(i, t)', Calm(i + 1, n, t)'
             PROVE  /\ CanAt(i, t)' => canGraphical'[t]
                    /\ i > 0 \/ (Known(t)' /\ ~GetPending(t)') =>
                         (CanAt(i, t)' <=> canGraphical'[t])
        <5>1. BearsOrNow(i, t) /\ Calm(i + 1, n, t)
          BY <4>3, <4>4, <4>8, <4>12
        <5>2. /\ CanAt(i, t) => canGraphical[t]
              /\ i > 0 \/ (Known(t) /\ ~GetPending(t)) => (CanAt(i, t) <=> canGraphical[t])
          BY <3>1, <4>7, <5>1 DEF NewsOf
        <5>3. CanAt(i, t)' <=> CanAt(i, t)
          BY <4>5, <4>8
        <5> QED BY <1>4, <3>1, <4>1, <4>6, <5>2, <5>3
      <4> QED BY <4>10, <4>11, <4>12 DEF NewsOf
    <3>3. CASE t = s
      <4>1. ~Known(s)
        BY <1>1, <1>8, WatcherFacts DEF Watched, WatchersInv
      <4>2. ~Known(s)' /\ ~Can(s)'
        BY <1>1, <1>4, <4>1, WatcherFacts DEF Known, objects
      <4>3. ~ChangeUnderWay(s)
        BY <1>8, <3>3 DEF GraphicsChange
      <4>4. ASSUME NEW i \in 1 .. Len(inbox) PROVE ~Bears(i, s)'
        <5>1. inbox[i] \in Message /\ i \in DOMAIN inbox
          BY <1>3
        <5>2. ~(inbox[i].type = "Changed" /\ inbox[i].seat = s)
          BY <4>3, <5>1 DEF ChangeUnderWay
        <5>3. inbox[i].type = "Value" => inbox[i].watcher # 0
          BY <5>1, MessageFacts
        <5>4. systemSeats'[s] = 0
          BY <4>2 DEF Known
        <5> QED BY <2>1, <5>2, <5>3, <5>4 DEF Bears
      <4>5. \A i \in 0 .. Len(inbox) : i = 0 \/ i \in 1 .. Len(inbox)
        OBVIOUS
      <4>6. \A i \in 0 .. Len(inbox) : BearsOrNow(i, s)' => i = 0
        BY <4>4, <4>5 DEF BearsOrNow
      <4>7. ~CanAt(0, s)'
        BY <4>2 DEF CanAt
      <4> QED BY <2>1, <3>3, <4>2, <4>6, <4>7 DEF NewsOf
    <3> QED BY <3>2, <3>3
  <2> QED BY <1>5, <1>6, <2>2, <2>3, <2>4
<1> QED BY <1>7, <1>8


(* ListSeats is answered while no seat changes: what it says of the seats  *)
(* is true.                                                                *)
LEMMA AnswerListStep ==
  ASSUME IInv, NEW c \in calls, Answer(c), AnswerListSeats(c)
  PROVE  WatchersInv' /\ NumbersInv' /\ StartInv' /\ TurnsInv' /\ NewsInv' /\
         DisplaysInv' /\ ExistsInv'
<1> USE DEF IInv
<1>1. /\ calls' = calls \ {c} /\ c.type = "ListSeats"
      /\ Send([type |-> "Seats", seats |-> exists])
      /\ UNCHANGED <<logind, subscribed, objects, shown, listAnswered, unheard>>
  BY DEF Answer, AnswerListSeats
<1>2. /\ listAnswered = FALSE /\ calls = {[type |-> "ListSeats"]} /\ inbox = <<>>
      /\ created = 0 /\ watchers = {} /\ systemSeats = [s \in Seats |-> NoWatcher]
  BY <1>1 DEF StartInv, Types, TypeOK
<1>3. calls' = {}
  BY <1>1, <1>2
<1>4. PICK m \in Message : m = [type |-> "Seats", seats |-> exists] /\ m.type = "Seats"
  <2>1. exists \in SUBSET Seats
    BY DEF Types, TypeOK
  <2>2. [type |-> "Seats", seats |-> exists] \in Message
    BY <2>1 DEF Message
  <2> QED BY <2>2
<1>5. Send(m) /\ inbox \in Seq(Message) /\ inbox' = <<m>>
  BY <1>1, <1>2, <1>4 DEF Send, Types, TypeOK
<1>6. /\ created' = created /\ watchers' = watchers /\ systemSeats' = systemSeats
      /\ exists' = exists /\ canGraphical' = canGraphical
      /\ displays' = displays /\ listed' = listed
      /\ listAnswered' = listAnswered /\ unheard' = unheard
  BY <1>1 DEF logind, objects, shown
<1>7. WatchersInv'
  BY <1>6 DEF WatchersInv, Known
<1>8. NumbersInv'
  BY <1>3, <1>4, <1>5 DEF NumbersInv
<1>9. StartInv'
  BY <1>2, <1>3, <1>4, <1>5, <1>6 DEF StartInv
<1>10. TurnsInv'
  BY <1>2, <1>6 DEF TurnsInv
<1>11. NewsInv'
  <2> SUFFICES ASSUME NEW s \in Seats \ unheard PROVE NewsOf(s)'
    BY <1>6 DEF NewsInv
  <2>1. NewsOf(s)
    BY DEF NewsInv
  <2>2. Can(s)' <=> Can(s)
    BY <1>6 DEF Can
  <2>3. ~Bears(Len(inbox), s)'
    BY <1>4, <1>5, <1>6, BearsLast
  <2>4. ~GetPending(s)
    BY <1>2 DEF GetPending
  <2> QED BY <1>5, <1>6, <2>1, <2>2, <2>3, <2>4, NewsAppend
<1>12. DisplaysInv' /\ ExistsInv'
  BY <1>6 DEF DisplaysInv, Can, ExistsInv
<1> QED BY <1>7, <1>8, <1>9, <1>10, <1>11, <1>12

(* Get is answered: with what is true now, behind the changes that came    *)
(* before.                                                                 *)
LEMMA AnswerGetStep ==
  ASSUME IInv, NEW c \in calls, Answer(c), AnswerGet(c)
  PROVE  WatchersInv' /\ NumbersInv' /\ StartInv' /\ TurnsInv' /\ NewsInv' /\
         DisplaysInv' /\ ExistsInv'
<1> USE DEF IInv
<1>1. /\ calls' = calls \ {c} /\ c.type = "Get"
      /\ UNCHANGED <<logind, subscribed, objects, shown, listAnswered, unheard>>
  BY DEF Answer, AnswerGet
<1>2. /\ c \in Call /\ c.watcher \in Nat \ {0} /\ c.seat \in Seats
      /\ inbox \in Seq(Message) /\ canGraphical \in [Seats -> BOOLEAN]
  BY <1>1, MessageFacts DEF Types, TypeOK
<1>3. listAnswered = TRUE
  BY <1>1 DEF StartInv, Types, TypeOK
<1>4. PICK m \in Message : /\ Send(m) /\ m.type \in {"Value", "NoValue"}
                           /\ m.type = "Value" <=> c.seat \in exists
                           /\ m.type = "Value" =>
                                m.watcher = c.watcher /\ (m.can <=> canGraphical[c.seat])
  <2>1. CASE c.seat \in exists
    <3>1. [type |-> "Value", watcher |-> c.watcher, can |-> canGraphical[c.seat]]
            \in Message
      BY <1>2 DEF Message
    <3> QED BY <2>1, <3>1 DEF AnswerGet
  <2>2. CASE c.seat \notin exists
    <3>1. [type |-> "NoValue", watcher |-> c.watcher] \in Message
      BY <1>2 DEF Message
    <3> QED BY <2>2, <3>1 DEF AnswerGet
  <2> QED BY <2>1, <2>2
<1>5. /\ created' = created /\ watchers' = watchers /\ systemSeats' = systemSeats
      /\ exists' = exists /\ canGraphical' = canGraphical
      /\ displays' = displays /\ listed' = listed
      /\ listAnswered' = listAnswered /\ unheard' = unheard
  BY <1>1 DEF logind, objects, shown
<1>6. /\ c.watcher <= created
      /\ \A s \in Seats : systemSeats[s] = c.watcher => c.seat = s
  BY <1>1 DEF NumbersInv
<1>7. WatchersInv' /\ NumbersInv' /\ StartInv'
  BY <1>1, <1>3, <1>4, <1>6, Arrival
<1>8. TurnsInv'
  <2> SUFFICES ASSUME NEW s \in Seats PROVE TurnsOf(s)'
    BY DEF TurnsInv
  <2>1. TurnsOf(s) /\ ~IsLife(m, s)
    BY <1>3, <1>4 DEF TurnsInv, IsLife
  <2> QED BY <1>2, <1>4, <1>5, <2>1, TurnsAppend
<1>9. NewsInv'
  <2> SUFFICES ASSUME NEW s \in Seats \ unheard PROVE NewsOf(s)'
    BY <1>5 DEF NewsInv
  <2>1. NewsOf(s) /\ TurnsOf(s)
    BY <1>3 DEF NewsInv, TurnsInv
  <2>2. Can(s)' <=> Can(s)
    BY <1>5 DEF Can
  <2>3. Bears(Len(inbox), s)' <=>
          m.type = "Value" /\ m.watcher = systemSeats[s] /\ NoLife(1, Len(inbox), s)
    BY <1>2, <1>4, <1>5, BearsLast
  <2>4. CASE systemSeats[s] # c.watcher
    <3>1. ~Bears(Len(inbox), s)'
      BY <1>4, <2>3, <2>4
    <3>2. GetPending(s)' <=> GetPending(s)
      BY <1>1, <1>5, <2>4 DEF GetPending
    <3> QED BY <1>2, <1>4, <1>5, <2>1, <2>2, <3>1, <3>2, NewsAppend
  <2>5. CASE systemSeats[s] = c.watcher
    <3>1. c.seat = s /\ Known(s)
      BY <1>2, <1>6, <2>5 DEF Known
    <3>2. NoLife(1, Len(inbox), s) => s \in exists
      <4>1. LifeOrNow(0, s) /\ KnownAt(0, s) /\ 0 \in 0 .. Len(inbox) /\ 0 + 1 = 1
        BY <1>2, <3>1 DEF LifeOrNow, KnownAt
      <4> QED BY <2>1, <4>1 DEF TurnsOf
    <3>3. Bears(Len(inbox), s)' <=> NoLife(1, Len(inbox), s)
      BY <1>4, <2>3, <2>5, <3>1, <3>2
    <3>4. Bears(Len(inbox), s)' => (m.can <=> canGraphical'[s])
      BY <1>4, <1>5, <3>1, <3>2, <3>3
    <3> QED BY <1>2, <1>4, <1>5, <2>1, <2>2, <3>3, <3>4, NewsAppend
  <2> QED BY <2>4, <2>5
<1>10. DisplaysInv' /\ ExistsInv'
  BY <1>5 DEF DisplaysInv, Can, ExistsInv
<1> QED BY <1>7, <1>8, <1>9, <1>10

(* The display of a seat that stopped is replaced.                         *)
LEMMA StoppedStep ==
  ASSUME IInv, NEW s \in Seats, DisplayStopped(s)
  PROVE  WatchersInv' /\ NumbersInv' /\ StartInv' /\ TurnsInv' /\ NewsInv' /\
         DisplaysInv' /\ ExistsInv'
<1> USE DEF IInv
<1>1. UNCHANGED <<logind, calls, subscribed, inbox, objects, displays, listAnswered, unheard>>
  BY DEF DisplayStopped
<1>2. WatchersInv' /\ NumbersInv' /\ StartInv' /\ ExistsInv'
  BY <1>1 DEF WatchersInv, NumbersInv, StartInv, ExistsInv, Known, objects, logind
<1>3. TurnsInv'
  <2> SUFFICES ASSUME NEW t \in Seats, listAnswered PROVE TurnsOf(t)'
    BY <1>1 DEF TurnsInv
  <2>1. TurnsOf(t)
    BY DEF TurnsInv
  <2> QED BY <1>1, <2>1 DEF TurnsOf, LifeOrNow, Life, NoLife, KnownAt, Known, objects, logind
<1>4. NewsInv'
  BY <1>1 DEF NewsInv, NewsOf, BearsOrNow, Bears, Calm, CanAt, Can, Known, GetPending, NoLife,
              Life, objects, logind
<1>5. DisplaysInv'
  <2>1. PICK l \in ListedAfter(s, 1) : listed' = [listed EXCEPT ![s] = l + 1]
    BY DEF DisplayStopped
  <2>2. \A t \in Seats : Can(t)' <=> Can(t)
    BY <1>1 DEF Can, objects
  <2>3. \A t \in Seats \ unheard : displays[t] = (IF Can(t) THEN 1 ELSE 0) /\ listed[t] = displays[t]
    BY DEF DisplaysInv
  <2>4. \A t \in Seats \ {s} : listed'[t] = listed[t]
    BY <2>1 DEF Types, TypeOK
  <2>5. s \notin unheard => listed'[s] = listed[s]
    <3> SUFFICES ASSUME s \notin unheard PROVE listed'[s] = 1 /\ listed[s] = 1
      OBVIOUS
    <3>1. displays[s] = 1 /\ listed[s] = 1
      BY <2>3 DEF DisplayStopped
    <3>2. l = 0
      BY <2>1, <3>1 DEF ListedAfter
    <3> QED BY <2>1, <3>1, <3>2 DEF Types, TypeOK
  <2>6. \A t \in Seats \ unheard : listed'[t] = listed[t]
    BY <2>4, <2>5
  <2> QED BY <1>1, <2>2, <2>3, <2>6 DEF DisplaysInv
<1> QED BY <1>2, <1>3, <1>4, <1>5


(* What was second becomes first: the same messages bear on a seat.        *)
LEMMA BearsShift ==
  ASSUME inbox \in Seq(Message), inbox # <<>>, inbox' = Tail(inbox), NEW s \in Seats,
         \/ ~Life(1, s) /\ systemSeats'[s] = systemSeats[s]
         \/ /\ Life(1, s)
            /\ \A i \in 1 .. Len(inbox) :
                 inbox[i].type = "Value" => inbox[i].watcher # systemSeats'[s]
  PROVE  \A i \in 1 .. Len(inbox) - 1 : Bears(i, s)' <=> Bears(i + 1, s)
<1>1. PICK n \in Nat : n = Len(inbox) /\ n >= 1
  BY TailFacts
<1>2. \A i \in 1 .. n - 1 : inbox'[i] = inbox[i + 1]
  BY <1>1, TailFacts
<1>3. ASSUME NEW i \in 1 .. n - 1
      PROVE  NoLife(1, (i + 1) - 1, s) <=> ~Life(1, s) /\ NoLife(1, i - 1, s)'
  <2>1. (i + 1) - 1 = i /\ \A j \in 1 .. i - 1 : j \in 1 .. n - 1
    BY <1>1
  <2>2. \A j \in 1 .. i - 1 : Life(j, s)' <=> Life(j + 1, s)
    BY <1>2, <2>1 DEF Life
  <2>3. ASSUME NoLife(1, i, s) PROVE ~Life(1, s) /\ NoLife(1, i - 1, s)'
    <3>1. 1 \in 1 .. i /\ \A j \in 1 .. i - 1 : j + 1 \in 1 .. i
      BY <1>1
    <3>2. ~Life(1, s) /\ \A j \in 1 .. i - 1 : ~Life(j, s)'
      BY <2>2, <2>3, <3>1 DEF NoLife
    <3> QED BY <3>2 DEF NoLife
  <2>4. ASSUME ~Life(1, s), NoLife(1, i - 1, s)' PROVE NoLife(1, i, s)
    <3>1. \A j \in 1 .. i - 1 : ~Life(j + 1, s)
      BY <2>2, <2>4 DEF NoLife
    <3>2. \A j \in 1 .. i : j = 1 \/ (j - 1 \in 1 .. i - 1 /\ (j - 1) + 1 = j)
      BY <1>1
    <3> QED BY <2>4, <3>1, <3>2 DEF NoLife
  <2> QED BY <2>1, <2>3, <2>4
<1>4. ASSUME NEW i \in 1 .. n - 1
      PROVE  Bears(i, s)' <=> Bears(i + 1, s)
  <2>1. inbox'[i] = inbox[i + 1] /\ i + 1 \in 1 .. n
    BY <1>1, <1>2
  <2>2. CASE ~Life(1, s) /\ systemSeats'[s] = systemSeats[s]
    <3>1. Bears(i + 1, s) <=>
            \/ inbox[i + 1].type = "Changed" /\ inbox[i + 1].seat = s
            \/ /\ inbox[i + 1].type = "Value" /\ inbox[i + 1].watcher = systemSeats[s]
               /\ NoLife(1, (i + 1) - 1, s)
      BY DEF Bears
    <3>2. NoLife(1, (i + 1) - 1, s) <=> NoLife(1, i - 1, s)'
      BY <1>3, <2>2
    <3>3. Bears(i, s)' <=>
            \/ inbox'[i].type = "Changed" /\ inbox'[i].seat = s
            \/ /\ inbox'[i].type = "Value" /\ inbox'[i].watcher = systemSeats'[s]
               /\ NoLife(1, i - 1, s)'
      BY DEF Bears
    <3> QED BY <2>1, <2>2, <3>1, <3>2, <3>3
  <2>3. CASE /\ Life(1, s)
             /\ \A j \in 1 .. n :
                  inbox[j].type = "Value" => inbox[j].watcher # systemSeats'[s]
    BY <1>3, <2>1, <2>3 DEF Bears
  <2> QED BY <1>1, <2>2, <2>3
<1> QED BY <1>1, <1>4

(* What handling a message leaves alone, once the seats are listed.        *)
LEMMA Handled ==
  ASSUME Types, NumbersInv, StartInv, listAnswered = TRUE,
         inbox # <<>>, inbox' = Tail(inbox),
         UNCHANGED <<created, calls, systemSeats, listAnswered>>
  PROVE  NumbersInv' /\ StartInv'
<1>1. inbox \in Seq(Message)
  BY DEF Types, TypeOK
<1>2. PICK n \in Nat : n = Len(inbox) /\ n >= 1
  BY <1>1, TailFacts
<1>3. Len(inbox') = n - 1 /\ \A i \in 1 .. n - 1 : inbox'[i] = inbox[i + 1] /\ i + 1 \in 1 .. n
  BY <1>1, <1>2, TailFacts
<1>4. NumbersInv'
  BY <1>2, <1>3 DEF NumbersInv
<1>5. StartInv'
  BY <1>2, <1>3 DEF StartInv
<1> QED BY <1>4, <1>5

(* A message that is not about a seat leaves what is known of it.          *)
LEMMA NotConcerned ==
  ASSUME inbox \in Seq(Message), inbox # <<>>, inbox' = Tail(inbox), NEW s \in Seats,
         UNCHANGED <<exists, canGraphical>>, systemSeats'[s] = systemSeats[s],
         Can(s)' <=> Can(s), GetPending(s) => GetPending(s)',
         ~Life(1, s), ~Bears(1, s)
  PROVE  /\ TurnsOf(s) => TurnsOf(s)'
         /\ NewsOf(s) => NewsOf(s)'
<1>1. Known(s)' <=> Known(s)
  BY DEF Known
<1>2. \A i \in 1 .. Len(inbox) - 1 : Bears(i, s)' <=> Bears(i + 1, s)
  BY BearsShift
<1>3. TurnsOf(s) => TurnsOf(s)'
  BY <1>1, TurnsTail
<1>4. NewsOf(s) => NewsOf(s)'
  BY <1>1, <1>2, NewsTail
<1> QED BY <1>3, <1>4


(* The answer to ListSeats: each seat gets its LogindSeat, which asks.     *)
LEMMA SeatsHandled ==
  ASSUME IInv, Handle, HandleSeats
  PROVE  WatchersInv' /\ NumbersInv' /\ StartInv' /\ TurnsInv' /\ NewsInv' /\
         DisplaysInv' /\ ExistsInv'
<1> USE DEF IInv
<1>1. /\ inbox # <<>> /\ inbox' = Tail(inbox) /\ UNCHANGED <<logind, subscribed, unheard>>
      /\ Head(inbox).type = "Seats" /\ listAnswered' = TRUE
      /\ LogindSeatsAdded(Head(inbox).seats)
  BY DEF Handle, HandleSeats
<1>2. inbox \in Seq(Message) /\ exists \subseteq Seats /\ listAnswered \in BOOLEAN
      /\ IsFiniteSet(Seats)
  BY DEF Types, TypeOK
<1>3. ~listAnswered
  <2>1. 1 \in 1 .. Len(inbox) /\ Head(inbox) = inbox[1]
    BY <1>1, <1>2, TailFacts
  <2> QED BY <1>1, <2>1 DEF StartInv
<1>4. /\ inbox = <<[type |-> "Seats", seats |-> exists]>> /\ calls = {}
      /\ created = 0 /\ watchers = {} /\ systemSeats = [s \in Seats |-> 0]
  BY <1>1, <1>3 DEF StartInv
<1>5. inbox' = <<>> /\ Head(inbox).seats = exists
  BY <1>1, <1>4
<1> DEFINE id == Numbering(exists)
<1>6. /\ created' = Cardinality(exists) /\ Cardinality(exists) \in Nat
      /\ id \in [exists -> 1 .. Cardinality(exists)]
      /\ \A s, t \in exists : id[s] = id[t] => s = t
  BY <1>1, <1>2, <1>4, <1>5, NumberingFacts DEF LogindSeatsAdded
<1>7. /\ watchers' = {[id |-> id[s], seat |-> s, can |-> FALSE] : s \in exists}
      /\ systemSeats' = [s \in Seats |-> IF s \in exists THEN id[s] ELSE 0]
      /\ calls' = {[type |-> "Get", watcher |-> id[s], seat |-> s] : s \in exists}
      /\ displays' = displays /\ listed' = listed
  BY <1>1, <1>4, <1>5 DEF LogindSeatsAdded, shown
<1> HIDE DEF id
<1>8. \A s \in exists : s \in Seats /\ id[s] \in 1 .. created' /\ id[s] # 0
  BY <1>2, <1>6
<1>9. \A s \in Seats : /\ Known(s)' <=> s \in exists
                       /\ systemSeats'[s] = IF s \in exists THEN id[s] ELSE 0
  BY <1>7, <1>8 DEF Known
<1>10. \A s \in Seats : ~Can(s) /\ ~Can(s)'
  BY <1>4, <1>7 DEF Can
<1>11. \A s \in Seats : Known(s)' => GetPending(s)'
  <2> SUFFICES ASSUME NEW s \in Seats, s \in exists PROVE GetPending(s)'
    BY <1>9
  <2>1. [type |-> "Get", watcher |-> id[s], seat |-> s] \in calls'
    BY <1>7
  <2>2. systemSeats'[s] = id[s]
    BY <1>9
  <2> QED BY <2>1, <2>2 DEF GetPending
<1>12. WatchersInv'
  <2>1. \A w \in watchers' : \E s \in exists :
          w = [id |-> id[s], seat |-> s, can |-> FALSE]
    BY <1>7
  <2>2. \A w \in watchers' : systemSeats'[w.seat] = w.id
    BY <1>8, <1>9, <2>1
  <2>3. \A s \in Seats : Known(s)' => \E w \in watchers' : w.seat = s
    <3> SUFFICES ASSUME NEW s \in Seats, s \in exists PROVE \E w \in watchers' : w.seat = s
      BY <1>9
    <3>1. [id |-> id[s], seat |-> s, can |-> FALSE] \in watchers'
      BY <1>7
    <3> QED BY <3>1
  <2>4. ASSUME NEW w \in watchers', NEW x \in watchers', w.seat = x.seat
        PROVE  w = x
    <3>1. PICK s \in exists : w = [id |-> id[s], seat |-> s, can |-> FALSE]
      BY <2>1
    <3>2. PICK t \in exists : x = [id |-> id[t], seat |-> t, can |-> FALSE]
      BY <2>1
    <3>3. s = t
      BY <2>4, <3>1, <3>2
    <3> QED BY <3>1, <3>2, <3>3
  <2>5. \A s, t \in Seats : Known(s)' /\ systemSeats'[s] = systemSeats'[t] => s = t
    BY <1>6, <1>8, <1>9
  <2>6. \A s \in Seats : systemSeats'[s] <= created'
    BY <1>6, <1>8, <1>9
  <2> QED BY <2>2, <2>3, <2>4, <2>5, <2>6 DEF WatchersInv
<1>13. \A c \in calls' : \E s \in exists :
         c = [type |-> "Get", watcher |-> id[s], seat |-> s]
  BY <1>7
<1>14. NumbersInv'
  <2>1. \A i \in 1 .. Len(inbox') : FALSE
    BY <1>5
  <2>2. ASSUME NEW c \in calls'
        PROVE  /\ c.watcher <= created'
               /\ \A s \in Seats : systemSeats'[s] = c.watcher => c.seat = s
    <3>1. PICK t \in exists : c = [type |-> "Get", watcher |-> id[t], seat |-> t]
      BY <1>13
    <3>2. c.watcher = id[t] /\ c.seat = t /\ id[t] \in 1 .. created' /\ id[t] # 0
      BY <1>8, <3>1
    <3>3. c.watcher <= created'
      BY <1>6, <3>2
    <3>4. \A s \in Seats : systemSeats'[s] = c.watcher => c.seat = s
      BY <1>6, <1>9, <3>2
    <3> QED BY <3>3, <3>4
  <2> QED BY <2>1, <2>2 DEF NumbersInv
<1>15. StartInv'
  <2>1. \A i \in 1 .. Len(inbox') : FALSE
    BY <1>5
  <2>2. \A c \in calls' : c.type = "Get"
    BY <1>13
  <2> QED BY <1>1, <2>1, <2>2 DEF StartInv
<1>16. exists' = exists /\ canGraphical' = canGraphical /\ unheard' = unheard
  BY <1>1 DEF logind
<1>17. TurnsInv'
  <2> SUFFICES ASSUME NEW s \in Seats PROVE TurnsOf(s)'
    BY DEF TurnsInv
  <2>1. Len(inbox') = 0
    BY <1>5
  <2>2. KnownAt(0, s)' <=> s \in exists'
    BY <1>9, <1>16 DEF KnownAt
  <2> QED BY <2>1, <2>2 DEF TurnsOf
<1>18. NewsInv'
  <2> SUFFICES ASSUME NEW s \in Seats \ unheard PROVE NewsOf(s)'
    BY <1>16 DEF NewsInv
  <2>1. Len(inbox') = 0
    BY <1>5
  <2>2. ~CanAt(0, s)' /\ (Known(s)' => GetPending(s)') /\ ~(0 > 0)
    BY <1>10, <1>11 DEF CanAt
  <2> QED BY <2>1, <2>2 DEF NewsOf
<1>19. DisplaysInv'
  BY <1>7, <1>10, <1>16 DEF DisplaysInv
<1>20. ExistsInv'
  BY <1>16 DEF ExistsInv
<1> QED BY <1>12, <1>14, <1>15, <1>17, <1>18, <1>19, <1>20

(* What the first message shows, once the seats are listed.                *)
LEMMA FirstMessage ==
  ASSUME IInv, Handle, Head(inbox).type # "Seats"
  PROVE  /\ inbox # <<>> /\ inbox' = Tail(inbox) /\ inbox \in Seq(Message)
         /\ inbox[1] \in Message /\ Head(inbox) = inbox[1] /\ 1 \in 1 .. Len(inbox)
         /\ exists' = exists /\ canGraphical' = canGraphical /\ unheard' = unheard
         /\ listAnswered = TRUE
<1> USE DEF IInv
<1>1. /\ inbox # <<>> /\ inbox' = Tail(inbox) /\ UNCHANGED <<logind, subscribed, unheard>>
  BY DEF Handle
<1>2. inbox \in Seq(Message) /\ listAnswered \in BOOLEAN
  BY DEF Types, TypeOK
<1>3. inbox[1] \in Message /\ Head(inbox) = inbox[1] /\ 1 \in 1 .. Len(inbox)
  BY <1>1, <1>2, TailFacts
<1>4. listAnswered = TRUE
  <2> SUFFICES ASSUME ~listAnswered PROVE FALSE
    BY <1>2
  <2>1. inbox = <<[type |-> "Seats", seats |-> exists]>>
    BY <1>1 DEF StartInv
  <2> QED BY <2>1
<1> QED BY <1>1, <1>2, <1>3, <1>4 DEF logind


(* SeatNew: the seat has no LogindSeat, as messages come in turn, and gets *)
(* one.                                                                    *)
LEMMA SeatNewHandled ==
  ASSUME IInv, Handle, HandleSeatNew
  PROVE  WatchersInv' /\ NumbersInv' /\ StartInv' /\ TurnsInv' /\ NewsInv' /\
         DisplaysInv' /\ ExistsInv'
<1> USE DEF IInv
<1>1. /\ Head(inbox).type = "SeatNew" /\ listAnswered' = listAnswered
      /\ LogindSeatsAdded({Head(inbox).seat})
  BY DEF HandleSeatNew
<1>2. /\ inbox # <<>> /\ inbox' = Tail(inbox) /\ inbox \in Seq(Message)
      /\ inbox[1] \in Message /\ Head(inbox) = inbox[1] /\ 1 \in 1 .. Len(inbox)
      /\ exists' = exists /\ canGraphical' = canGraphical /\ unheard' = unheard
      /\ listAnswered = TRUE
  BY <1>1, FirstMessage
<1>3. PICK s \in Seats : s = inbox[1].seat
  BY <1>1, <1>2, MessageFacts
<1>4. created \in Nat /\ systemSeats \in [Seats -> Nat]
  BY DEF Types, TypeOK
<1>5. PICK n \in Nat : n = created + 1
  BY <1>4
<1>6. /\ created' = n
      /\ watchers' = watchers \cup {[id |-> n, seat |-> s, can |-> FALSE]}
      /\ systemSeats' = [systemSeats EXCEPT ![s] = n]
      /\ calls' = calls \cup {[type |-> "Get", watcher |-> n, seat |-> s]}
      /\ displays' = displays /\ listed' = listed
  BY <1>1, <1>2, <1>3, <1>4, <1>5, OneSeatAdded
<1>7. /\ n > created /\ n > 0 /\ systemSeats'[s] = n
      /\ \A t \in Seats \ {s} : systemSeats'[t] = systemSeats[t]
      /\ \A t \in Seats : systemSeats[t] \in Nat /\ systemSeats[t] < n
  <2>1. \A t \in Seats : systemSeats[t] <= created
    BY DEF WatchersInv
  <2> QED BY <1>4, <1>5, <1>6, <2>1
<1>8. \A t \in Seats : Life(1, t) <=> t = s
  BY <1>1, <1>2, <1>3 DEF Life, IsLife
<1>9. ~Known(s)
  <2>1. TurnsOf(s)
    BY <1>2 DEF TurnsInv
  <2>2. /\ 0 \in 0 .. Len(inbox) /\ 0 < 1 /\ LifeOrNow(0, s) /\ NoLife(0 + 1, 1 - 1, s)
        /\ Life(1, s) /\ inbox[1].type = "SeatNew"
    BY <1>1, <1>2, <1>8 DEF LifeOrNow, NoLife
  <2>3. ~KnownAt(0, s)
    BY <1>2, <2>1, <2>2 DEF TurnsOf
  <2> QED BY <2>3 DEF KnownAt
<1>10. \A w \in watchers : /\ w.seat # s /\ w.seat \in Seats
                           /\ systemSeats'[w.seat] = w.id
  BY <1>7, <1>9, WatcherFacts
<1>11. \A w \in watchers' : w \in watchers \/ w = [id |-> n, seat |-> s, can |-> FALSE]
  BY <1>6
<1>12. ~Can(s)' /\ Known(s)' /\ \A t \in Seats : Can(t)' <=> Can(t)
  <2>1. \A w \in watchers' : w.can => w \in watchers
    BY <1>11
  <2>2. watchers \subseteq watchers'
    BY <1>6
  <2>3. ~Can(s)'
    BY <1>10, <2>1 DEF Can
  <2>4. \A t \in Seats : Can(t)' <=> Can(t)
    BY <2>1, <2>2 DEF Can
  <2> QED BY <1>7, <2>3, <2>4 DEF Known
<1>13. WatchersInv'
  <2>1. \A w \in watchers' : systemSeats'[w.seat] = w.id
    BY <1>7, <1>10, <1>11
  <2>2. ASSUME NEW t \in Seats, Known(t)' PROVE \E w \in watchers' : w.seat = t
    <3>1. CASE t = s
      <4>1. [id |-> n, seat |-> s, can |-> FALSE] \in watchers'
        BY <1>6
      <4> QED BY <3>1, <4>1
    <3>2. CASE t # s
      BY <1>6, <1>7, <2>2, <3>2 DEF WatchersInv, Known
    <3> QED BY <3>1, <3>2
  <2>3. ASSUME NEW w \in watchers', NEW x \in watchers', w.seat = x.seat
        PROVE  w = x
    <3>1. CASE w \in watchers /\ x \in watchers
      BY <2>3, <3>1 DEF WatchersInv
    <3>2. CASE w.seat = s
      <4>1. w \notin watchers /\ x \notin watchers
        BY <1>10, <2>3, <3>2
      <4> QED BY <1>11, <4>1
    <3>3. \A y \in watchers' : y \in watchers \/ y.seat = s
      BY <1>11
    <3> QED BY <2>3, <3>1, <3>2, <3>3
  <2>4. ASSUME NEW t \in Seats, NEW u \in Seats, Known(t)', systemSeats'[t] = systemSeats'[u]
        PROVE  t = u
    <3>1. CASE t = s \/ u = s
      <4>1. \A v \in Seats \ {s} : systemSeats'[v] # n
        BY <1>5, <1>7
      <4> QED BY <1>7, <2>4, <3>1, <4>1
    <3>2. CASE t # s /\ u # s
      BY <1>7, <2>4, <3>2 DEF WatchersInv, Known
    <3> QED BY <3>1, <3>2
  <2>5. ASSUME NEW t \in Seats PROVE systemSeats'[t] <= created'
    <3>1. t = s \/ systemSeats'[t] = systemSeats[t]
      BY <1>7
    <3> QED BY <1>5, <1>6, <1>7, <3>1
  <2> QED BY <2>1, <2>2, <2>3, <2>4, <2>5 DEF WatchersInv
<1>14. PICK l \in Nat : l = Len(inbox) /\ l >= 1
  BY <1>2, TailFacts
<1>15. Len(inbox') = l - 1 /\ \A i \in 1 .. l - 1 : inbox'[i] = inbox[i + 1] /\ i + 1 \in 1 .. l
  BY <1>2, <1>14, TailFacts
<1>16. \A i \in 1 .. l : inbox[i].type = "Value" =>
          inbox[i].watcher \in Nat \ {0} /\ inbox[i].watcher <= created
  <2>1. \A i \in 1 .. l : inbox[i] \in Message
    BY <1>2, <1>14
  <2> QED BY <1>14, <2>1, MessageFacts DEF NumbersInv
<1>17. \A c \in calls : c.type = "Get" /\ c.watcher \in Nat \ {0} /\ c.watcher <= created
  <2>1. \A c \in calls : c.type = "Get" /\ c \in Call
    BY <1>2 DEF StartInv, Types, TypeOK
  <2> QED BY <2>1, MessageFacts DEF NumbersInv
<1>18. \A c \in calls' : c \in calls \/ c = [type |-> "Get", watcher |-> n, seat |-> s]
  BY <1>6
<1>19. NumbersInv'
  <2>1. ASSUME NEW i \in 1 .. l - 1, inbox'[i].type = "Value"
        PROVE  inbox'[i].watcher <= created'
    <3>1. inbox'[i] = inbox[i + 1] /\ i + 1 \in 1 .. l
      BY <1>15
    <3>2. inbox[i + 1].watcher \in Nat /\ inbox[i + 1].watcher <= created
      BY <1>16, <2>1, <3>1
    <3>3. created' = created + 1 /\ created \in Nat
      BY <1>4, <1>5, <1>6
    <3> QED BY <3>1, <3>2, <3>3
  <2>2. ASSUME NEW c \in calls'
        PROVE  /\ c.watcher <= created'
               /\ \A t \in Seats : systemSeats'[t] = c.watcher => c.seat = t
    <3>1. CASE c \in calls
      <4>1. \A t \in Seats : systemSeats[t] = c.watcher => c.seat = t
        BY <1>17, <3>1 DEF NumbersInv
      <4> QED BY <1>4, <1>5, <1>6, <1>7, <1>17, <3>1, <4>1
    <3>2. CASE c = [type |-> "Get", watcher |-> n, seat |-> s]
      BY <1>5, <1>6, <1>7, <3>2
    <3> QED BY <1>18, <3>1, <3>2
  <2> QED BY <1>15, <2>1, <2>2 DEF NumbersInv
<1>20. StartInv'
  <2>1. \A i \in 1 .. l - 1 : inbox'[i].type # "Seats"
    BY <1>2, <1>14, <1>15 DEF StartInv
  <2>2. \A c \in calls' : c.type = "Get"
    BY <1>17, <1>18
  <2> QED BY <1>1, <1>2, <1>15, <2>1, <2>2 DEF StartInv
<1>21. TurnsInv' /\ NewsInv'
  <2>1. ASSUME NEW t \in Seats PROVE (TurnsOf(t) => TurnsOf(t)') /\ (NewsOf(t) => NewsOf(t)')
    <3>1. CASE t = s
      <4>1. Known(s)' <=> IF Life(1, s) THEN inbox[1].type = "SeatNew" ELSE Known(s)
        BY <1>1, <1>2, <1>8, <1>12
      <4>2. \A i \in 1 .. Len(inbox) :
              inbox[i].type = "Value" => inbox[i].watcher # systemSeats'[s]
        <5>1. \A k \in Nat : k <= created => k # systemSeats'[s]
          BY <1>4, <1>5, <1>7
        <5> QED BY <1>14, <1>16, <5>1
      <4>3. \A i \in 1 .. Len(inbox) - 1 : Bears(i, s)' <=> Bears(i + 1, s)
        BY <1>2, <1>8, <4>2, BearsShift
      <4>4. GetPending(s)'
        <5>1. [type |-> "Get", watcher |-> n, seat |-> s] \in calls'
          BY <1>6
        <5> QED BY <1>7, <5>1 DEF GetPending
      <4>5. TurnsOf(s) => TurnsOf(s)'
        BY <1>2, <4>1, TurnsTail
      <4>6. NewsOf(s) => NewsOf(s)'
        BY <1>2, <1>12, <4>3, <4>4, NewsTail
      <4> QED BY <3>1, <4>5, <4>6
    <3>2. CASE t # s
      <4>1. ~Life(1, t) /\ ~Bears(1, t)
        BY <1>1, <1>2, <1>8, <3>2 DEF Bears
      <4>2. systemSeats'[t] = systemSeats[t]
        BY <1>7, <3>2
      <4>3. GetPending(t) => GetPending(t)'
        BY <1>6, <4>2 DEF GetPending
      <4> QED BY <1>2, <1>12, <4>1, <4>2, <4>3, NotConcerned
    <3> QED BY <3>1, <3>2
  <2> QED BY <1>2, <2>1 DEF TurnsInv, NewsInv
<1>22. DisplaysInv'
  BY <1>2, <1>6, <1>12 DEF DisplaysInv
<1>23. ExistsInv'
  BY <1>2 DEF ExistsInv
<1> QED BY <1>13, <1>19, <1>20, <1>21, <1>22, <1>23


(* A display comes or goes as the daemon believes.                         *)
LEMMA DisplayRemoved ==
  ASSUME Types, NEW s \in Seats, RemoveSeat(s, 1)
  PROVE  /\ \A t \in Seats \ {s} : displays'[t] = displays[t] /\ listed'[t] = listed[t]
         /\ displays[s] \in {0, 1} /\ listed[s] = displays[s] =>
              displays'[s] = 0 /\ listed'[s] = 0
<1> DEFINE removed == IF displays[s] < 1 THEN displays[s] ELSE 1
<1>1. displays' = [displays EXCEPT ![s] = @ - removed]
  BY DEF RemoveSeat
<1>2. PICK l \in ListedAfter(s, removed) : listed' = [listed EXCEPT ![s] = l]
  BY DEF RemoveSeat
<1>3. displays \in [Seats -> Nat] /\ listed \in [Seats -> Nat]
  BY DEF Types, TypeOK
<1>4. ASSUME displays[s] \in {0, 1}, listed[s] = displays[s]
      PROVE  displays'[s] = 0 /\ listed'[s] = 0
  <2>1. removed = displays[s]
    BY <1>4
  <2>2. l = 0
    BY <1>2, <1>4, <2>1 DEF ListedAfter
  <2> QED BY <1>1, <1>2, <1>3, <1>4, <2>1, <2>2
<1> QED BY <1>1, <1>2, <1>3, <1>4

(* createSeat for a seat that has no display touches only its own.         *)
LEMMA DisplayCreated ==
  ASSUME Types, NEW s \in Seats, CreateSeat(s, 1)
  PROVE  /\ \A t \in Seats \ {s} : displays'[t] = displays[t] /\ listed'[t] = listed[t]
         /\ displays[s] = 0 /\ listed[s] = 0 => displays'[s] = 1 /\ listed'[s] = 1
BY DEF CreateSeat, Types, TypeOK

(* SeatRemoved: the LogindSeat goes with its entry, and takes the display  *)
(* along.                                                                  *)
LEMMA SeatRemovedHandled ==
  ASSUME IInv, Handle, HandleSeatRemoved
  PROVE  WatchersInv' /\ NumbersInv' /\ StartInv' /\ TurnsInv' /\ NewsInv' /\
         DisplaysInv' /\ ExistsInv'
<1> USE DEF IInv
<1>1. /\ Head(inbox).type = "SeatRemoved" /\ listAnswered' = listAnswered
      /\ LogindSeatRemoved(Head(inbox).seat)
  BY DEF HandleSeatRemoved
<1>2. /\ inbox # <<>> /\ inbox' = Tail(inbox) /\ inbox \in Seq(Message)
      /\ inbox[1] \in Message /\ Head(inbox) = inbox[1] /\ 1 \in 1 .. Len(inbox)
      /\ exists' = exists /\ canGraphical' = canGraphical /\ unheard' = unheard
      /\ listAnswered = TRUE
  BY <1>1, FirstMessage
<1>3. PICK s \in Seats : s = inbox[1].seat
  BY <1>1, <1>2, MessageFacts
<1>4. created \in Nat /\ systemSeats \in [Seats -> Nat]
  BY DEF Types, TypeOK
<1>5. /\ watchers' = RemainingWatchers(s) /\ RemoveSeat(s, 1)
      /\ systemSeats' = [systemSeats EXCEPT ![s] = 0]
      /\ created' = created /\ calls' = calls
  BY <1>1, <1>2, <1>3 DEF LogindSeatRemoved
<1>6. systemSeats'[s] = 0 /\ \A t \in Seats \ {s} : systemSeats'[t] = systemSeats[t]
  BY <1>4, <1>5
<1>7. \A t \in Seats : Life(1, t) <=> t = s
  BY <1>1, <1>2, <1>3 DEF Life, IsLife
<1>8. \A w \in watchers : /\ w \in watchers' <=> w.seat # s
                          /\ w.seat \in Seats /\ systemSeats[w.seat] = w.id
  <2>1. \A w \in watchers : w.id = systemSeats[s] <=> w.seat = s
    <3> SUFFICES ASSUME NEW w \in watchers, w.id = systemSeats[s] PROVE w.seat = s
      BY WatcherFacts
    <3>1. Known(w.seat) /\ w.seat \in Seats /\ systemSeats[w.seat] = systemSeats[s]
      BY WatcherFacts
    <3> QED BY <3>1 DEF WatchersInv
  <2>2. \A w \in watchers : w \in watchers' <=> w.id # systemSeats[s]
    BY <1>5 DEF RemainingWatchers
  <2> QED BY <2>1, <2>2, WatcherFacts
<1>9. watchers' \subseteq watchers
  BY <1>5 DEF RemainingWatchers
<1>10. /\ ~Known(s)' /\ ~Can(s)'
       /\ \A t \in Seats \ {s} : (Known(t)' <=> Known(t)) /\ (Can(t)' <=> Can(t))
  BY <1>6, <1>8, <1>9 DEF Known, Can
<1>11. WatchersInv'
  <2>1. \A w \in watchers' : systemSeats'[w.seat] = w.id
    BY <1>6, <1>8, <1>9
  <2>2. \A t \in Seats : Known(t)' => \E w \in watchers' : w.seat = t
    BY <1>8, <1>10 DEF WatchersInv
  <2>3. \A w, x \in watchers' : w.seat = x.seat => w = x
    BY <1>9 DEF WatchersInv
  <2>4. ASSUME NEW t \in Seats, NEW u \in Seats, Known(t)', systemSeats'[t] = systemSeats'[u]
        PROVE  t = u
    <3>1. t # s /\ u # s
      BY <1>6, <2>4 DEF Known
    <3> QED BY <1>6, <1>10, <2>4, <3>1 DEF WatchersInv
  <2>5. \A t \in Seats : systemSeats'[t] <= created'
    BY <1>4, <1>5, <1>6 DEF WatchersInv
  <2> QED BY <2>1, <2>2, <2>3, <2>4, <2>5 DEF WatchersInv
<1>12. PICK l \in Nat : l = Len(inbox) /\ l >= 1
  BY <1>2, TailFacts
<1>13. Len(inbox') = l - 1 /\ \A i \in 1 .. l - 1 : inbox'[i] = inbox[i + 1] /\ i + 1 \in 1 .. l
  BY <1>2, <1>12, TailFacts
<1>14. \A i \in 1 .. l : inbox[i].type = "Value" =>
          inbox[i].watcher # 0 /\ inbox[i].watcher <= created
  <2>1. \A i \in 1 .. l : inbox[i] \in Message
    BY <1>2, <1>12
  <2> QED BY <1>12, <2>1, MessageFacts DEF NumbersInv
<1>15. NumbersInv'
  <2>1. \A i \in 1 .. l - 1 : inbox'[i].type = "Value" => inbox'[i].watcher <= created'
    BY <1>5, <1>13, <1>14
  <2>2. ASSUME NEW c \in calls', c.type = "Get"
        PROVE  /\ c.watcher <= created'
               /\ \A t \in Seats : systemSeats'[t] = c.watcher => c.seat = t
    <3>1. c.watcher \in Nat \ {0}
      BY <1>5, <2>2, MessageFacts DEF Types, TypeOK
    <3>2. c.watcher <= created /\ \A t \in Seats : systemSeats[t] = c.watcher => c.seat = t
      BY <1>5, <2>2 DEF NumbersInv
    <3> QED BY <1>5, <1>6, <3>1, <3>2
  <2> QED BY <1>13, <2>1, <2>2 DEF NumbersInv
<1>16. StartInv'
  <2>1. \A i \in 1 .. l - 1 : inbox'[i].type # "Seats"
    BY <1>2, <1>12, <1>13 DEF StartInv
  <2> QED BY <1>1, <1>2, <1>5, <1>13, <2>1 DEF StartInv
<1>17. TurnsInv' /\ NewsInv'
  <2>1. ASSUME NEW t \in Seats PROVE (TurnsOf(t) => TurnsOf(t)') /\ (NewsOf(t) => NewsOf(t)')
    <3>1. CASE t = s
      <4>1. Known(s)' <=> IF Life(1, s) THEN inbox[1].type = "SeatNew" ELSE Known(s)
        BY <1>1, <1>2, <1>7, <1>10
      <4>2. \A i \in 1 .. Len(inbox) :
              inbox[i].type = "Value" => inbox[i].watcher # systemSeats'[s]
        BY <1>6, <1>12, <1>14
      <4>3. \A i \in 1 .. Len(inbox) - 1 : Bears(i, s)' <=> Bears(i + 1, s)
        BY <1>2, <1>7, <4>2, BearsShift
      <4>4. TurnsOf(s) => TurnsOf(s)'
        BY <1>2, <4>1, TurnsTail
      <4>5. NewsOf(s) => NewsOf(s)'
        BY <1>2, <1>10, <4>3, NewsTail
      <4> QED BY <3>1, <4>4, <4>5
    <3>2. CASE t # s
      <4>1. ~Life(1, t) /\ ~Bears(1, t)
        BY <1>1, <1>2, <1>7, <3>2 DEF Bears
      <4>2. systemSeats'[t] = systemSeats[t] /\ (Can(t)' <=> Can(t))
        BY <1>6, <1>10, <3>2
      <4>3. GetPending(t) => GetPending(t)'
        BY <1>5, <4>2 DEF GetPending
      <4> QED BY <1>2, <4>1, <4>2, <4>3, NotConcerned
    <3> QED BY <3>1, <3>2
  <2> QED BY <1>2, <2>1 DEF TurnsInv, NewsInv
<1>18. DisplaysInv'
  <2> SUFFICES ASSUME NEW t \in Seats \ unheard
               PROVE  displays'[t] = (IF Can(t)' THEN 1 ELSE 0) /\ listed'[t] = displays'[t]
    BY <1>2 DEF DisplaysInv
  <2>1. displays[t] = (IF Can(t) THEN 1 ELSE 0) /\ listed[t] = displays[t]
    BY DEF DisplaysInv
  <2>2. CASE t = s
    BY <1>5, <1>10, <2>1, <2>2, DisplayRemoved
  <2>3. CASE t # s
    BY <1>5, <1>10, <2>1, <2>3, DisplayRemoved
  <2> QED BY <2>2, <2>3
<1>19. ExistsInv'
  BY <1>2 DEF ExistsInv
<1> QED BY <1>11, <1>15, <1>16, <1>17, <1>18, <1>19

(* What a LogindSeat of seat s hears, of a change or in the answer to its  *)
(* question.                                                               *)
LEMMA Told ==
  ASSUME IInv, Handle, Head(inbox).type \in {"Changed", "Value"},
         UNCHANGED <<listAnswered, created, systemSeats, calls>>,
         NEW s \in Seats, NEW w \in watchers, w.seat = s, Bears(1, s),
         NEW can \in BOOLEAN, inbox[1].can = can,
         watchers' = (watchers \ {w}) \cup {[w EXCEPT !.can = can]},
         \A t \in Seats \ {s} : ~Bears(1, t),
         CanGraphicalChanged(s, can, 1), can /\ s \notin unheard => ~Can(s)
  PROVE  WatchersInv' /\ NumbersInv' /\ StartInv' /\ TurnsInv' /\ NewsInv' /\
         DisplaysInv' /\ ExistsInv'
<1> USE DEF IInv
<1>1. /\ inbox # <<>> /\ inbox' = Tail(inbox) /\ inbox \in Seq(Message)
      /\ inbox[1] \in Message /\ Head(inbox) = inbox[1] /\ 1 \in 1 .. Len(inbox)
      /\ exists' = exists /\ canGraphical' = canGraphical /\ unheard' = unheard
      /\ listAnswered = TRUE
  BY FirstMessage
<1>2. PICK x : x = [w EXCEPT !.can = can]
  OBVIOUS
<1>3. /\ w \in Watcher /\ x.id = w.id /\ x.seat = s /\ x.can = can
      /\ systemSeats[s] = w.id
  BY <1>2, WatcherFacts DEF Watcher
<1>4. watchers' = (watchers \ {w}) \cup {x}
  BY <1>2
<1>5. \A y \in watchers : y # w => y.seat # s
  BY DEF WatchersInv
<1>6. \A t \in Seats : Known(t)' <=> Known(t)
  BY DEF Known
<1>7. (Can(s)' <=> can) /\ (Can(s) <=> w.can)
  BY <1>3, <1>4, <1>5 DEF Can
<1>8. \A t \in Seats \ {s} : Can(t)' <=> Can(t)
  BY <1>3, <1>4 DEF Can
<1>9. \A t \in Seats : ~Life(1, t)
  BY <1>1 DEF Life, IsLife
<1>10. \A t \in Seats : GetPending(t)' <=> GetPending(t)
  BY DEF GetPending
<1>11. WatchersInv'
  <2>1. \A y \in watchers' : systemSeats'[y.seat] = y.id
    BY <1>3, <1>4 DEF WatchersInv
  <2>2. \A t \in Seats : Known(t)' => \E y \in watchers' : y.seat = t
    BY <1>3, <1>4, <1>6 DEF WatchersInv
  <2>3. \A y, z \in watchers' : y.seat = z.seat => y = z
    <3>1. \A y \in watchers' : (y \in watchers /\ y.seat # s) \/ y = x
      BY <1>4, <1>5
    <3> QED BY <1>3, <3>1 DEF WatchersInv
  <2> QED BY <1>6, <2>1, <2>2, <2>3 DEF WatchersInv
<1>12. NumbersInv' /\ StartInv'
  BY <1>1, Handled
<1>13. TurnsInv' /\ NewsInv'
  <2>1. ASSUME NEW t \in Seats PROVE (TurnsOf(t) => TurnsOf(t)') /\ (NewsOf(t) => NewsOf(t)')
    <3>1. CASE t = s
      <4>1. \A i \in 1 .. Len(inbox) - 1 : Bears(i, s)' <=> Bears(i + 1, s)
        BY <1>1, <1>9, BearsShift
      <4>2. TurnsOf(s) => TurnsOf(s)'
        BY <1>1, <1>6, <1>9, TurnsTail
      <4>3. NewsOf(s) => NewsOf(s)'
        BY <1>1, <1>7, <4>1, NewsTail
      <4> QED BY <3>1, <4>2, <4>3
    <3>2. CASE t # s
      BY <1>1, <1>8, <1>9, <1>10, <3>2, NotConcerned
    <3> QED BY <3>1, <3>2
  <2> QED BY <1>1, <2>1 DEF TurnsInv, NewsInv
<1>14. DisplaysInv'
  <2> SUFFICES ASSUME NEW t \in Seats \ unheard
               PROVE  displays'[t] = (IF Can(t)' THEN 1 ELSE 0) /\ listed'[t] = displays'[t]
    BY <1>1 DEF DisplaysInv
  <2>1. displays[t] = (IF Can(t) THEN 1 ELSE 0) /\ listed[t] = displays[t]
    BY DEF DisplaysInv
  <2>2. CASE can
    <3>1. CreateSeat(s, 1) /\ (s \notin unheard => ~Can(s))
      BY <2>2 DEF CanGraphicalChanged
    <3>2. CASE t = s
      BY <1>7, <2>1, <2>2, <3>1, <3>2, DisplayCreated
    <3>3. CASE t # s
      BY <1>8, <2>1, <3>1, <3>3, DisplayCreated
    <3> QED BY <3>2, <3>3
  <2>3. CASE ~can
    <3>1. RemoveSeat(s, 1)
      BY <2>3 DEF CanGraphicalChanged
    <3>2. CASE t = s
      BY <1>7, <2>1, <2>3, <3>1, <3>2, DisplayRemoved
    <3>3. CASE t # s
      BY <1>8, <2>1, <3>1, <3>3, DisplayRemoved
    <3> QED BY <3>2, <3>3
  <2> QED BY <2>2, <2>3
<1>15. ExistsInv'
  BY <1>1 DEF ExistsInv
<1> QED BY <1>11, <1>12, <1>13, <1>14, <1>15


(* News that changes nothing.                                              *)
LEMMA Ignored ==
  ASSUME IInv, Handle, Head(inbox).type \in {"Changed", "Value", "NoValue"},
         UNCHANGED <<listAnswered, objects, shown, calls>>,
         \A t \in Seats : ~Bears(1, t) \/ (Can(t) <=> inbox[1].can) \/ ~Known(t)
  PROVE  WatchersInv' /\ NumbersInv' /\ StartInv' /\ TurnsInv' /\ NewsInv' /\
         DisplaysInv' /\ ExistsInv'
<1> USE DEF IInv
<1>1. /\ inbox # <<>> /\ inbox' = Tail(inbox) /\ inbox \in Seq(Message)
      /\ inbox[1] \in Message /\ Head(inbox) = inbox[1] /\ 1 \in 1 .. Len(inbox)
      /\ exists' = exists /\ canGraphical' = canGraphical /\ unheard' = unheard
      /\ listAnswered = TRUE
  BY FirstMessage
<1>2. /\ watchers' = watchers /\ created' = created /\ systemSeats' = systemSeats
      /\ displays' = displays /\ listed' = listed /\ calls' = calls
      /\ listAnswered' = listAnswered
  BY DEF objects, shown
<1>3. WatchersInv'
  BY <1>2 DEF WatchersInv, Known
<1>4. NumbersInv' /\ StartInv'
  BY <1>1, <1>2, Handled
<1>5. \A t \in Seats : (Known(t)' <=> Known(t)) /\ (Can(t)' <=> Can(t))
  BY <1>2 DEF Known, Can
<1>6. \A t \in Seats : ~Life(1, t)
  BY <1>1 DEF Life, IsLife
<1>7. ASSUME NEW t \in Seats PROVE (TurnsOf(t) => TurnsOf(t)') /\ (NewsOf(t) => NewsOf(t)')
  <2>1. \A i \in 1 .. Len(inbox) - 1 : Bears(i, t)' <=> Bears(i + 1, t)
    BY <1>1, <1>2, <1>6, BearsShift
  <2>2. TurnsOf(t) => TurnsOf(t)'
    BY <1>1, <1>5, <1>6, TurnsTail
  <2>3. NewsOf(t) => NewsOf(t)'
    <3>1. CASE ~Bears(1, t)
      <4>1. GetPending(t)' <=> GetPending(t)
        BY <1>2 DEF GetPending
      <4> QED BY <1>1, <1>5, <1>6, <2>1, <3>1, <4>1, NewsTail
    <3>2. CASE Bears(1, t) /\ (Can(t) <=> inbox[1].can)
      BY <1>1, <1>5, <2>1, <3>2, NewsTail
    <3>3. CASE ~Known(t)
      <4>1. ~Can(t)' /\ ~Known(t)'
        BY <1>5, <3>3, WatcherFacts
      <4> QED BY <1>1, <2>1, <4>1, NewsTail
    <3> QED BY <3>1, <3>2, <3>3
  <2> QED BY <2>2, <2>3
<1>8. TurnsInv' /\ NewsInv'
  BY <1>1, <1>2, <1>7 DEF TurnsInv, NewsInv
<1>9. DisplaysInv' /\ ExistsInv'
  BY <1>1, <1>2, <1>5 DEF DisplaysInv, ExistsInv
<1> QED BY <1>3, <1>4, <1>8, <1>9

(* PropertiesChanged: if the seat has a LogindSeat, a change to graphical  *)
(* finds it without a display.                                             *)
LEMMA ChangedHandled ==
  ASSUME IInv, Handle, HandleChanged
  PROVE  WatchersInv' /\ NumbersInv' /\ StartInv' /\ TurnsInv' /\ NewsInv' /\
         DisplaysInv' /\ ExistsInv'
<1> USE DEF IInv
<1>1. /\ Head(inbox).type = "Changed" /\ listAnswered' = listAnswered
      /\ PropertiesChanged(Head(inbox).seat, Head(inbox).can)
  BY DEF HandleChanged
<1>2. /\ inbox[1] \in Message /\ Head(inbox) = inbox[1] /\ 1 \in 1 .. Len(inbox)
      /\ listAnswered = TRUE
  BY <1>1, FirstMessage
<1>3. PICK s \in Seats, can \in BOOLEAN : s = inbox[1].seat /\ can = inbox[1].can
  BY <1>1, <1>2, MessageFacts
<1> DEFINE those == {w \in watchers : w.seat = s}
<1>4. /\ watchers' = (watchers \ those) \cup {[w EXCEPT !.can = can] : w \in those}
      /\ CanGraphicalChanged(s, can, Cardinality(those))
      /\ UNCHANGED <<created, systemSeats, calls>>
  BY <1>1, <1>2, <1>3 DEF PropertiesChanged
<1>5. \A t \in Seats : Bears(1, t) <=> t = s
  BY <1>1, <1>2, <1>3 DEF Bears
<1>6. CASE Known(s)
  <2>1. PICK w \in watchers : w.seat = s
    BY <1>6, WatcherFacts
  <2>2. those = {w}
    BY <2>1 DEF WatchersInv
  <2>3. Cardinality({w}) = 1
    BY FS_Singleton
  <2>4. CanGraphicalChanged(s, can, 1)
    BY <1>4, <2>2, <2>3
  <2>5. watchers' = (watchers \ {w}) \cup {[w EXCEPT !.can = can]}
    BY <1>4, <2>2
  <2>6. can /\ s \notin unheard => ~Can(s)
    <3> SUFFICES ASSUME can, s \notin unheard PROVE ~Can(s)
      OBVIOUS
    <3>1. NewsOf(s)
      BY DEF NewsInv
    <3>2. BearsOrNow(0, s) /\ Calm(0 + 1, 1 - 1, s)
      BY DEF BearsOrNow, Calm
    <3>3. inbox[1].type = "Changed" /\ inbox[1].seat = s /\ inbox[1].can
      BY <1>1, <1>2, <1>3
    <3>4. 0 \in 0 .. Len(inbox) /\ 0 < 1
      BY <1>2
    <3>5. ~CanAt(0, s)
      BY <1>2, <3>1, <3>2, <3>3, <3>4 DEF NewsOf
    <3> QED BY <3>5 DEF CanAt
  <2> HIDE DEF those
  <2> QED BY <1>1, <1>3, <1>4, <1>5, <2>1, <2>4, <2>5, <2>6, Told
<1>7. CASE ~Known(s)
  <2>1. those = {}
    BY <1>7, WatcherFacts
  <2>2. Cardinality({}) = 0
    BY FS_EmptySet
  <2>3. watchers' = watchers
    BY <1>4, <2>1
  <2>4. CanGraphicalChanged(s, can, 0)
    BY <1>4, <2>1, <2>2
  <2>5. displays \in [Seats -> Nat] /\ listed \in [Seats -> Nat]
    BY DEF Types, TypeOK
  <2>6. displays' = displays /\ listed' = listed
    <3>1. CASE can
      <4>1. /\ displays' = [displays EXCEPT ![s] = @ + 0]
            /\ listed' = [listed EXCEPT ![s] = @ + 0]
        BY <2>4, <3>1 DEF CanGraphicalChanged, CreateSeat
      <4>2. displays[s] + 0 = displays[s] /\ listed[s] + 0 = listed[s]
        BY <2>5
      <4> QED BY <2>5, <4>1, <4>2
    <3>2. CASE ~can
      <4>1. RemoveSeat(s, 0)
        BY <2>4, <3>2 DEF CanGraphicalChanged
      <4>2. (IF displays[s] < 0 THEN displays[s] ELSE 0) = 0
        BY <2>5
      <4>3. displays' = [displays EXCEPT ![s] = @ - 0]
        BY <4>1, <4>2 DEF RemoveSeat
      <4>4. PICK l \in ListedAfter(s, 0) : listed' = [listed EXCEPT ![s] = l]
        BY <4>1, <4>2 DEF RemoveSeat
      <4>5. l = listed[s]
        BY <4>4 DEF ListedAfter
      <4> QED BY <2>5, <4>3, <4>4, <4>5
    <3> QED BY <3>1, <3>2
  <2> HIDE DEF those
  <2> QED BY <1>1, <1>4, <1>5, <1>7, <2>3, <2>6, Ignored DEF objects, shown
<1> QED BY <1>6, <1>7

(* The answer to Get: it finds its LogindSeat or nobody; a display it asks *)
(* for is the first.                                                       *)
LEMMA ValueHandled ==
  ASSUME IInv, Handle, HandleValue
  PROVE  WatchersInv' /\ NumbersInv' /\ StartInv' /\ TurnsInv' /\ NewsInv' /\
         DisplaysInv' /\ ExistsInv'
<1> USE DEF IInv
<1>1. /\ Head(inbox).type = "Value" /\ listAnswered' = listAnswered
      /\ GetAnswered(Head(inbox).watcher, Head(inbox).can)
  BY DEF HandleValue
<1>2. /\ inbox[1] \in Message /\ Head(inbox) = inbox[1] /\ 1 \in 1 .. Len(inbox)
      /\ listAnswered = TRUE
  BY <1>1, FirstMessage
<1>3. PICK id \in Nat \ {0}, can \in BOOLEAN : id = inbox[1].watcher /\ can = inbox[1].can
  BY <1>1, <1>2, MessageFacts
<1>4. \A t \in Seats : Bears(1, t) <=> systemSeats[t] = id
  <2>1. \A t \in Seats : NoLife(1, 1 - 1, t)
    BY DEF NoLife
  <2> QED BY <1>1, <1>2, <1>3, <2>1 DEF Bears
<1>5. GetAnswered(id, can)
  BY <1>1, <1>2, <1>3
<1>6. CASE News(id, can) = {}
  <2>1. UNCHANGED <<objects, shown, calls>>
    BY <1>5, <1>6 DEF GetAnswered
  <2>2. ASSUME NEW t \in Seats, Bears(1, t), Known(t) PROVE Can(t) <=> inbox[1].can
    <3>1. PICK w \in watchers : w.seat = t /\ (Can(t) <=> w.can)
      BY <2>2, WatcherFacts
    <3>2. w.id = id /\ w.can \in BOOLEAN
      BY <1>4, <2>2, <3>1, WatcherFacts
    <3>3. w.can = can
      BY <1>6, <3>2 DEF News
    <3> QED BY <1>3, <3>1, <3>3
  <2> QED BY <1>1, <2>1, <2>2, Ignored
<1>7. CASE News(id, can) # {}
  <2>1. PICK w \in News(id, can) :
          /\ watchers' = (watchers \ {w}) \cup {[w EXCEPT !.can = can]}
          /\ CanGraphicalChanged(w.seat, can, 1)
          /\ UNCHANGED <<created, systemSeats, calls>>
    BY <1>5, <1>7 DEF GetAnswered
  <2>2. /\ w \in watchers /\ w.id = id /\ w.can # can /\ w.can \in BOOLEAN
        /\ w.seat \in Seats /\ systemSeats[w.seat] = id /\ Known(w.seat)
    BY <2>1, WatcherFacts DEF News
  <2>3. \A t \in Seats : Bears(1, t) <=> t = w.seat
    BY <1>4, <2>2 DEF WatchersInv
  <2>4. can => ~Can(w.seat)
    BY <2>2 DEF Can, WatchersInv
  <2> QED BY <1>1, <1>3, <2>1, <2>2, <2>3, <2>4, Told
<1> QED BY <1>6, <1>7

(* An answer that says that the seat is gone.                              *)
LEMMA NoValueHandled ==
  ASSUME IInv, Handle, HandleNoValue
  PROVE  WatchersInv' /\ NumbersInv' /\ StartInv' /\ TurnsInv' /\ NewsInv' /\
         DisplaysInv' /\ ExistsInv'
<1>1. /\ Head(inbox).type = "NoValue" /\ UNCHANGED <<listAnswered, objects, shown, calls>>
  BY DEF HandleNoValue
<1>2. Head(inbox) = inbox[1]
  BY <1>1, FirstMessage
<1>3. \A t \in Seats : ~Bears(1, t)
  BY <1>1, <1>2 DEF Bears
<1> QED BY <1>1, <1>3, Ignored

-----------------------------------------------------------------------------
(* The theorems.                                                           *)

(* The invariant holds at first.                                           *)
LEMMA InvInit ==
  Init => IInv
<1> SUFFICES ASSUME Init PROVE IInv
  OBVIOUS
<1>1. /\ inbox = <<>> /\ watchers = {} /\ created = 0 /\ calls = {[type |-> "ListSeats"]}
      /\ systemSeats = [s \in Seats |-> 0] /\ listAnswered = FALSE /\ unheard = {}
      /\ displays = [s \in Seats |-> 0] /\ listed = [s \in Seats |-> 0]
  BY DEF Init
<1>2. Types
  BY TypesInit
<1>3. \A s \in Seats : ~Known(s) /\ ~Can(s)
  BY <1>1 DEF Known, Can
<1>4. WatchersInv
  BY <1>1, <1>3 DEF WatchersInv
<1>5. NumbersInv /\ StartInv /\ TurnsInv
  BY <1>1 DEF NumbersInv, StartInv, TurnsInv
<1>6. NewsInv
  <2> SUFFICES ASSUME NEW s \in Seats PROVE NewsOf(s)
    BY DEF NewsInv
  <2>1. Len(inbox) = 0 /\ ~CanAt(0, s) /\ ~Known(s) /\ ~(0 > 0)
    BY <1>1, <1>3 DEF CanAt
  <2> QED BY <2>1 DEF NewsOf
<1>7. DisplaysInv
  BY <1>1, <1>3 DEF DisplaysInv
<1>8. ExistsInv
  BY DEF Init, ExistsInv
<1> QED BY <1>2, <1>4, <1>5, <1>6, <1>7, <1>8 DEF IInv

(* Every step keeps the invariant, if no seat changes before the seats are *)
(* listed.                                                                 *)
LEMMA InvStep ==
  ASSUME ~StartupRace
  PROVE  IInv /\ [Next]_vars => IInv'
<1> SUFFICES ASSUME IInv, [Next]_vars
             PROVE  WatchersInv' /\ NumbersInv' /\ StartInv' /\ TurnsInv' /\ NewsInv' /\
                    DisplaysInv' /\ ExistsInv'
  BY TypesStep DEF IInv
<1>1. ASSUME UNCHANGED <<logind, calls, inbox, objects, shown, listAnswered, unheard>>
      PROVE  WatchersInv' /\ NumbersInv' /\ StartInv' /\ TurnsInv' /\ NewsInv' /\
             DisplaysInv' /\ ExistsInv'
  <2>1. /\ WatchersInv /\ NumbersInv /\ StartInv /\ TurnsInv /\ NewsInv
        /\ DisplaysInv /\ ExistsInv
    BY DEF IInv
  <2>2. WatchersInv' /\ NumbersInv' /\ StartInv' /\ ExistsInv' /\ DisplaysInv'
    BY <1>1, <2>1 DEF WatchersInv, NumbersInv, StartInv, ExistsInv, DisplaysInv, Known, Can,
                      objects, logind, shown
  <2>3. TurnsInv'
    BY <1>1, <2>1 DEF TurnsInv, TurnsOf, LifeOrNow, Life, NoLife, KnownAt, Known, objects,
                      logind
  <2>4. NewsInv'
    BY <1>1, <2>1 DEF NewsInv, NewsOf, BearsOrNow, Bears, Calm, CanAt, Can, Known, GetPending,
                      NoLife, Life, objects, logind
  <2> QED BY <2>2, <2>3, <2>4
<1>2. CASE UNCHANGED vars
  BY <1>1, <1>2 DEF vars
<1>3. CASE Subscribe
  BY <1>1, <1>3 DEF Subscribe
<1>4. ASSUME NEW s \in Seats, SeatAppears(s) \/ SeatDisappears(s) \/ GraphicsChange(s)
      PROVE  WatchersInv' /\ NumbersInv' /\ StartInv' /\ TurnsInv' /\ NewsInv' /\
             DisplaysInv' /\ ExistsInv'
  BY <1>4, ExistsChange, GraphicsStep
<1>5. ASSUME NEW c \in calls, Answer(c)
      PROVE  WatchersInv' /\ NumbersInv' /\ StartInv' /\ TurnsInv' /\ NewsInv' /\
             DisplaysInv' /\ ExistsInv'
  BY <1>5, AnswerListStep, AnswerGetStep DEF Answer
<1>6. CASE Handle
  <2>1. \/ HandleSeats \/ HandleSeatNew \/ HandleSeatRemoved
        \/ HandleChanged \/ HandleValue \/ HandleNoValue
    BY <1>6 DEF Handle
  <2> QED BY <1>6, <2>1, SeatsHandled, SeatNewHandled, SeatRemovedHandled, ChangedHandled,
             ValueHandled, NoValueHandled
<1>7. ASSUME NEW s \in Seats, DisplayStopped(s)
      PROVE  WatchersInv' /\ NumbersInv' /\ StartInv' /\ TurnsInv' /\ NewsInv' /\
             DisplaysInv' /\ ExistsInv'
  BY <1>7, StoppedStep
<1> QED BY <1>2, <1>3, <1>4, <1>5, <1>6, <1>7 DEF Next

(* When no seat changes before the daemon has listed the seats, what it    *)
(* knows, what is under way and what logind has always fit together: the   *)
(* inductive invariant.                                                    *)
THEOREM Invariance ==
  ASSUME ~StartupRace
  PROVE  Spec => []IInv
BY InvInit, InvStep, PTL DEF Spec

(* No seat ever has two displays, unless it came back and changed unheard, *)
(* and no LogindSeat outlives its entry in systemSeats.                    *)
THEOREM NeverTwice ==
  ASSUME ~StartupRace
  PROVE  Spec => []NothingTwice
<1>1. IInv => NothingTwice
  <2> SUFFICES ASSUME IInv PROVE NothingTwice
    OBVIOUS
  <2>1. OneDisplayPerSeat
    BY DEF IInv, DisplaysInv, OneDisplayPerSeat
  <2>2. NoWatcherLeaks
    BY DEF IInv, WatchersInv, NoWatcherLeaks
  <2> QED BY <2>1, <2>2 DEF NothingTwice
<1> QED BY <1>1, Invariance, PTL

(* When everything was handled, the graphical seats are those with a       *)
(* display, and D-Bus lists those, with the same exception.                *)
THEOREM DisplaysAlwaysFollowLogind ==
  ASSUME ~StartupRace
  PROVE  Spec => []DisplaysFollowLogind
<1>1. IInv => DisplaysFollowLogind
  <2> SUFFICES ASSUME IInv, Quiet, NEW s \in Seats \ unheard
               PROVE  /\ displays[s] = IF canGraphical[s] THEN 1 ELSE 0
                      /\ listed[s] = displays[s]
    BY DEF DisplaysFollowLogind
  <2> USE DEF IInv
  <2>1. inbox = <<>> /\ calls = {} /\ Len(inbox) = 0
    BY DEF Quiet
  <2>2. listAnswered
    BY <2>1 DEF StartInv
  <2>3. NewsOf(s) /\ TurnsOf(s)
    BY <2>2 DEF NewsInv, TurnsInv
  <2>4. /\ BearsOrNow(0, s) /\ Calm(0 + 1, 0, s) /\ LifeOrNow(0, s) /\ NoLife(0 + 1, 0, s)
        /\ 0 \in 0 .. 0 /\ (CanAt(0, s) <=> Can(s)) /\ (KnownAt(0, s) <=> Known(s))
    BY DEF BearsOrNow, Calm, LifeOrNow, NoLife, CanAt, KnownAt
  <2>5. ~GetPending(s)
    BY <2>1 DEF GetPending
  <2>6. Known(s) <=> s \in exists
    BY <2>1, <2>3, <2>4 DEF TurnsOf
  <2>7. Can(s) <=> canGraphical[s]
    <3>1. CASE Known(s)
      BY <2>1, <2>3, <2>4, <2>5, <3>1 DEF NewsOf
    <3>2. CASE ~Known(s)
      BY <2>6, <3>2, WatcherFacts DEF ExistsInv
    <3> QED BY <3>1, <3>2
  <2> QED BY <2>7 DEF DisplaysInv
<1> QED BY <1>1, Invariance, PTL

(* "These will exist for all seats", as SeatManager.h says of systemSeats: *)
(* it is so when everything was handled.                                   *)
THEOREM SystemSeatsAlwaysForAllSeats ==
  ASSUME ~StartupRace
  PROVE  Spec => []SystemSeatsForAllSeats
<1>1. IInv => SystemSeatsForAllSeats
  <2> SUFFICES ASSUME IInv, Quiet, NEW s \in exists PROVE systemSeats[s] # NoWatcher
    BY DEF SystemSeatsForAllSeats
  <2> USE DEF IInv
  <2>1. inbox = <<>> /\ calls = {} /\ Len(inbox) = 0
    BY DEF Quiet
  <2>2. listAnswered /\ s \in Seats
    BY <2>1 DEF StartInv, Types, TypeOK
  <2>3. TurnsOf(s)
    BY <2>2 DEF TurnsInv
  <2>4. LifeOrNow(0, s) /\ NoLife(0 + 1, 0, s) /\ 0 \in 0 .. 0 /\ (KnownAt(0, s) <=> Known(s))
    BY DEF LifeOrNow, NoLife, KnownAt
  <2>5. Known(s)
    BY <2>1, <2>3, <2>4 DEF TurnsOf
  <2> QED BY <2>5 DEF Known
<1> QED BY <1>1, Invariance, PTL

===============================================================================
