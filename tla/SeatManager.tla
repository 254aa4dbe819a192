---------------------------- MODULE SeatManager ----------------------------
(***************************************************************************)
(* How the daemon learns of seats and gives every graphical one a display  *)
(* (src/src/daemon/SeatManager.cpp), and the seats it lists on D-Bus       *)
(* (src/src/daemon/DisplayManager.cpp).                                    *)
(*                                                                         *)
(* logind is another process.  The daemon calls it asynchronously and      *)
(* subscribes to its signals; the bus delivers logind's replies and        *)
(* signals in the order logind sent them, and the event loop handles one   *)
(* at a time.  Operators before another one with its parameters that no    *)
(* definition uses are wrong versions of it, as in Display.                *)
(***************************************************************************)
EXTENDS Naturals, Sequences, FiniteSets

CONSTANTS
  Seats,          \* names of the seats logind may have
  StartupRace,    \* may logind's seats change before ListSeats is answered?
  MaxChanges      \* bound: seat |-> changes of it in logind

ASSUME SeatsAssumption == IsFiniteSet(Seats)
ASSUME RaceAssumption == StartupRace \in BOOLEAN
ASSUME ChangesAssumption == MaxChanges \in [Seats -> Nat]

VARIABLES
  \* logind.
  exists,         \* its seats
  canGraphical,   \* seat |-> its property CanGraphical
  changes,        \* seat |-> changes so far
  \* Between logind and the daemon.
  calls,          \* calls of the daemon that logind has not answered
  subscribed,     \* the bus forwards SeatNew and SeatRemoved
  inbox,          \* messages of logind the event loop has not handled
  \* The daemon.
  watchers,       \* the LogindSeat objects that exist
  created,        \* LogindSeat objects created so far, which numbers them
  systemSeats,    \* seat |-> its LogindSeat in systemSeats, or NoWatcher
  displays,       \* seat |-> number of its displays in SeatManager::displays
  listed,         \* seat |-> number of its entries in DisplayManager::m_seats
  listAnswered,   \* the answer to ListSeats was handled
  \* History: seats with a change of CanGraphical that no LogindSeat was there
  \* to hear of while the message of an earlier change was under way.
  unheard

logind == <<exists, canGraphical, changes>>
objects == <<watchers, created, systemSeats>>
shown == <<displays, listed>>
vars == <<logind, calls, subscribed, inbox, objects, shown, listAnswered, unheard>>

NoWatcher == 0
Watcher == [id : Nat \ {0}, seat : Seats, can : BOOLEAN]

Message ==
  [type : {"SeatNew", "SeatRemoved"}, seat : Seats] \cup
  [type : {"Seats"}, seats : SUBSET Seats] \cup
  [type : {"Changed"}, seat : Seats, can : BOOLEAN] \cup
  [type : {"Value"}, watcher : Nat \ {0}, can : BOOLEAN] \cup
  [type : {"NoValue"}, watcher : Nat \ {0}]

Call == [type : {"ListSeats"}] \cup
        [type : {"Get"}, watcher : Nat \ {0}, seat : Seats]

-----------------------------------------------------------------------------
(* SeatManager::initialize asks for the seats, then subscribes.            *)
Init ==
  /\ exists \in SUBSET Seats
  /\ canGraphical \in [Seats -> BOOLEAN]
  /\ \A s \in Seats \ exists : ~canGraphical[s]
  /\ changes = [s \in Seats |-> 0]
  /\ calls = {[type |-> "ListSeats"]} /\ subscribed = FALSE /\ inbox = <<>>
  /\ watchers = {} /\ created = 0
  /\ systemSeats = [s \in Seats |-> NoWatcher]
  /\ displays = [s \in Seats |-> 0] /\ listed = [s \in Seats |-> 0]
  /\ listAnswered = FALSE /\ unheard = {}

-----------------------------------------------------------------------------
(* logind and the bus.                                                     *)

Subscribe ==
  /\ ~subscribed /\ subscribed' = TRUE
  /\ UNCHANGED <<logind, calls, inbox, objects, shown, listAnswered, unheard>>

Send(m) == inbox' = Append(inbox, m)
SendIf(wanted, m) == IF wanted THEN Send(m) ELSE UNCHANGED inbox

(* A LogindSeat subscribes to PropertiesChanged before it calls Get.  A    *)
(* change the bus does not forward yet is in the answer to that call.      *)
Watched(s) == subscribed /\ \E w \in watchers : w.seat = s

MayChange(s) ==
  /\ changes[s] < MaxChanges[s]
  /\ StartupRace \/ (subscribed /\ listAnswered)
  /\ changes' = [changes EXCEPT ![s] = @ + 1]
  /\ UNCHANGED <<calls, subscribed, objects, shown, listAnswered>>

SeatAppears(s) ==
  /\ MayChange(s) /\ s \notin exists
  /\ exists' = exists \cup {s}
  /\ \E can \in BOOLEAN : canGraphical' = [canGraphical EXCEPT ![s] = can]
  /\ SendIf(subscribed, [type |-> "SeatNew", seat |-> s])
  /\ UNCHANGED unheard

SeatDisappears(s) ==
  /\ MayChange(s) /\ s \in exists
  /\ exists' = exists \ {s}
  /\ canGraphical' = [canGraphical EXCEPT ![s] = FALSE]
  /\ SendIf(subscribed, [type |-> "SeatRemoved", seat |-> s])
  /\ UNCHANGED unheard

ChangeUnderWay(s) ==
  \E i \in DOMAIN inbox : inbox[i].type = "Changed" /\ inbox[i].seat = s

(* PropertiesChanged is sent when CanGraphical really changed.             *)
GraphicsChange(s) ==
  /\ MayChange(s) /\ s \in exists
  /\ canGraphical' = [canGraphical EXCEPT ![s] = ~@]
  /\ SendIf(Watched(s),
            [type |-> "Changed", seat |-> s, can |-> ~canGraphical[s]])
  /\ unheard' = IF ~Watched(s) /\ ChangeUnderWay(s) THEN unheard \cup {s}
                                                     ELSE unheard
  /\ UNCHANGED exists

AnswerListSeats(c) ==
  /\ c.type = "ListSeats"
  /\ Send([type |-> "Seats", seats |-> exists])

(* The bus got the first subscriptions before any call to Get.             *)
AnswerGet(c) ==
  /\ c.type = "Get" /\ subscribed
  /\ Send(IF c.seat \in exists
          THEN [type |-> "Value", watcher |-> c.watcher,
                can |-> canGraphical[c.seat]]
          ELSE [type |-> "NoValue", watcher |-> c.watcher])

Answer(c) ==
  /\ calls' = calls \ {c}
  /\ AnswerListSeats(c) \/ AnswerGet(c)
  /\ UNCHANGED <<logind, subscribed, objects, shown, listAnswered, unheard>>

-----------------------------------------------------------------------------
(* Displays.  createSeat appends a display and DisplayManager lists the    *)
(* seat; removeSeat takes out the first display of that name, if any, and  *)
(* DisplayManager drops the seat.                                          *)

CreateSeat(s, n) ==
  /\ displays' = [displays EXCEPT ![s] = @ + n]
  /\ listed' = [listed EXCEPT ![s] = @ + n]

(* DisplayManager::RemoveSeat goes on iterating over the list it removes   *)
(* from.  With one entry of the name it drops that one; with several it    *)
(* may come across the others, in the elements left behind by the shift.   *)
ListedAfter(s, removed) ==
  IF removed = 0 THEN {listed[s]}
  ELSE IF listed[s] <= removed THEN {0} ELSE 0 .. listed[s] - removed

RemoveSeatUnchecked(s, n) ==
  /\ displays' = [displays EXCEPT ![s] = @ - n]
  /\ listed' = [listed EXCEPT ![s] = @ - n]
RemoveSeat(s, n) ==
  LET removed == IF displays[s] < n THEN displays[s] ELSE n
  IN  /\ displays' = [displays EXCEPT ![s] = @ - removed]
      /\ \E l \in ListedAfter(s, removed) : listed' = [listed EXCEPT ![s] = l]

(* canGraphicalChanged, emitted by n LogindSeat objects of seat s.         *)
CanGraphicalOnly(s, can, n) ==
  IF can THEN CreateSeat(s, n) ELSE UNCHANGED shown
CanGraphicalChanged(s, can, n) ==
  IF can THEN CreateSeat(s, n) ELSE RemoveSeat(s, n)

-----------------------------------------------------------------------------
(* The handlers of the daemon.                                             *)

(* SeatManager::logindSeatAdded for every seat of `seats': a LogindSeat    *)
(* asks for CanGraphical, and replaces the entry of an earlier one, which  *)
(* goes on watching.                                                       *)
Numbering(seats) ==
  CHOOSE f \in [seats -> created + 1 .. created + Cardinality(seats)] :
    \A s, t \in seats : f[s] = f[t] => s = t

LogindSeatsAdded(seats) ==
  LET id == Numbering(seats)
  IN  /\ created' = created + Cardinality(seats)
      /\ watchers' = watchers \cup
           {[id |-> id[s], seat |-> s, can |-> FALSE] : s \in seats}
      /\ systemSeats' = [s \in Seats |-> IF s \in seats THEN id[s]
                                         ELSE systemSeats[s]]
      /\ calls' = calls \cup
           {[type |-> "Get", watcher |-> id[s], seat |-> s] : s \in seats}
      /\ UNCHANGED shown

LeakedWatchers(s) == watchers
RemainingWatchers(s) == {w \in watchers : w.id # systemSeats[s]}

LogindSeatRemoved(s) ==
  /\ watchers' = RemainingWatchers(s)
  /\ systemSeats' = [systemSeats EXCEPT ![s] = NoWatcher]
  /\ RemoveSeat(s, 1)
  /\ UNCHANGED <<created, calls>>

(* LogindSeat::propertiesChanged of every LogindSeat of the seat.          *)
PropertiesChanged(s, can) ==
  LET those == {w \in watchers : w.seat = s}
  IN  /\ watchers' = (watchers \ those) \cup {[w EXCEPT !.can = can] : w \in those}
      /\ CanGraphicalChanged(s, can, Cardinality(those))
      /\ UNCHANGED <<created, systemSeats, calls>>

(* The answer to Get counts if it differs from what the LogindSeat knows,  *)
(* and only while the LogindSeat exists.                                   *)
NewsAlways(id, can) == {w \in watchers : w.id = id}
News(id, can) == {w \in watchers : w.id = id /\ w.can # can}

GetUnanswered(id, can) == UNCHANGED <<objects, shown, calls>>
GetAnswered(id, can) ==
  IF News(id, can) = {}
  THEN UNCHANGED <<objects, shown, calls>>
  ELSE \E w \in News(id, can) :
         /\ watchers' = (watchers \ {w}) \cup {[w EXCEPT !.can = can]}
         /\ CanGraphicalChanged(w.seat, can, 1)
         /\ UNCHANGED <<created, systemSeats, calls>>

HandleSeats ==
  /\ Head(inbox).type = "Seats" /\ listAnswered' = TRUE
  /\ LogindSeatsAdded(Head(inbox).seats)
HandleSeatNew ==
  /\ Head(inbox).type = "SeatNew" /\ UNCHANGED listAnswered
  /\ LogindSeatsAdded({Head(inbox).seat})
HandleSeatRemoved ==
  /\ Head(inbox).type = "SeatRemoved" /\ UNCHANGED listAnswered
  /\ LogindSeatRemoved(Head(inbox).seat)
HandleChanged ==
  /\ Head(inbox).type = "Changed" /\ UNCHANGED listAnswered
  /\ PropertiesChanged(Head(inbox).seat, Head(inbox).can)
HandleValue ==
  /\ Head(inbox).type = "Value" /\ UNCHANGED listAnswered
  /\ GetAnswered(Head(inbox).watcher, Head(inbox).can)
HandleNoValue ==
  /\ Head(inbox).type = "NoValue"
  /\ UNCHANGED <<objects, shown, calls, listAnswered>>

Handle ==
  /\ inbox # <<>> /\ inbox' = Tail(inbox)
  /\ \/ HandleSeats \/ HandleSeatNew \/ HandleSeatRemoved
     \/ HandleChanged \/ HandleValue \/ HandleNoValue
  /\ UNCHANGED <<logind, subscribed, unheard>>

(* SeatManager::displayStopped: the first display of that name goes, and a *)
(* new one comes.                                                          *)
DisplayStopped(s) ==
  /\ displays[s] > 0
  /\ \E l \in ListedAfter(s, 1) : listed' = [listed EXCEPT ![s] = l + 1]
  /\ UNCHANGED <<logind, calls, subscribed, inbox, objects, displays,
                 listAnswered, unheard>>

-----------------------------------------------------------------------------
Next ==
  \/ Subscribe
  \/ \E s \in Seats : SeatAppears(s) \/ SeatDisappears(s) \/ GraphicsChange(s)
  \/ \E c \in calls : Answer(c)
  \/ Handle
  \/ \E s \in Seats : DisplayStopped(s)

Spec == Init /\ [][Next]_vars

(* The bus, logind and the event loop do what they were asked to do.       *)
FairSpec ==
  /\ Spec
  /\ WF_vars(Subscribe) /\ WF_vars(Handle)
  /\ WF_vars(\E c \in calls : Answer(c))

-----------------------------------------------------------------------------
(* Properties.                                                             *)

TypeOK ==
  /\ exists \subseteq Seats /\ canGraphical \in [Seats -> BOOLEAN]
  /\ changes \in [Seats -> Nat] /\ \A s \in Seats : changes[s] <= MaxChanges[s]
  /\ calls \subseteq Call /\ subscribed \in BOOLEAN /\ inbox \in Seq(Message)
  /\ watchers \subseteq Watcher /\ created \in Nat
  /\ systemSeats \in [Seats -> Nat]
  /\ displays \in [Seats -> Nat] /\ listed \in [Seats -> Nat]
  /\ listAnswered \in BOOLEAN /\ unheard \subseteq Seats

(* Nothing is under way between logind and the daemon.                     *)
Quiet == subscribed /\ calls = {} /\ inbox = <<>>

(* A seat never has two displays, in whatever order signals and answers    *)
(* about it are handled; but a seat that goes, comes back and changes      *)
(* unheard, so that an old message says what a new one says again.         *)
OneDisplayPerSeat == \A s \in Seats \ unheard : displays[s] <= 1

(* When everything was handled, the graphical seats are those with a       *)
(* display, and D-Bus lists those; with the same exception.                *)
DisplaysFollowLogind ==
  Quiet => \A s \in Seats \ unheard :
             /\ displays[s] = IF canGraphical[s] THEN 1 ELSE 0
             /\ listed[s] = displays[s]

(* No LogindSeat outlives its entry in systemSeats.                        *)
NoWatcherLeaks == \A w \in watchers : systemSeats[w.seat] = w.id

(* At every moment a seat has one display and one LogindSeat at most.      *)
NothingTwice == OneDisplayPerSeat /\ NoWatcherLeaks

(* A seat that becomes graphical gets a display, and a display whose seat  *)
(* is graphical no longer goes away.                                       *)
DisplaysCatchUp ==
  \A s \in Seats :
    /\ canGraphical[s] ~> (displays[s] > 0 \/ ~canGraphical[s])
    /\ ~canGraphical[s] ~> (displays[s] = 0 \/ canGraphical[s] \/ s \in unheard)

(* SeatManager.h says of systemSeats: "these will exist for all seats".    *)
SystemSeatsForAllSeats ==
  Quiet => \A s \in exists : systemSeats[s] # NoWatcher
=============================================================================
