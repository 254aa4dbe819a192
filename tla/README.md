# A TLA+ verification project for ddm

ddm is a display manager: a daemon that starts a greeter (the Treeland
compositor) on every graphical seat, authenticates users, opens their sessions
on virtual terminals (VTs) and follows the active VT. This directory holds TLA+
models of the daemon's own logic, TLC configurations that check them on small
instances, and proofs that TLAPS checks for every value of the constants.
Paths below are relative to `src/src/` unless they start with `src/`.

## 1. The system

The daemon is one process with one Qt event loop. Its handlers wait for D-Bus
calls, sockets and pipes without going back to the loop, so handlers never
overlap. Everything hard comes from the other processes, which act between and
during handlers: session leaders and what they start, X servers, Treeland,
logind, dde-seatd, and a person who switches VTs.

| Component | State it keeps | Operations | Correct means |
|---|---|---|---|
| `daemon/Display.cpp` | `auths`, the greeter's VT, Treeland and X server, `m_connectedOnce`, sockets | start, stop, connected, login, autologin, unlock, lock, logout, the end of a session | one session per user, VTs of sessions apart, one owner of the screen, failures answered, cleanup that hits only its own session |
| `daemon/DisplayManager.cpp` | seats and sessions on D-Bus, LastSession, LastActivatedUser | AddSession, RemoveSession, AddSeat, RemoveSeat, findUserByVt | lists what is open, once, and names the owner of a VT |
| `daemon/SeatManager.cpp` | `LogindSeat` objects, `systemSeats`, `displays` | logind's signals and answers, createSeat, removeSeat, retries, handleVtChanged | exactly one display per graphical seat |
| `daemon/Auth.cpp`, `UserSession.cpp` | the flags of an Auth, process ids, the pipe, utmp | authenticate, openSession, closing | an end is noticed, never early, and nothing is left behind |
| `daemon/DdeSeatdControl.cpp` | the event socket, its buffer, `m_activeVt` | connect, read events, group, ungroup and switch VTs | the daemon's idea of the active VT is right, a session keeps its group and gives it back |
| `daemon/TreelandConnector.cpp` | the Wayland connection | connect, disconnect, switchToUser, switchToGreeter | Treeland shows the owner of the VT |
| `daemon/SocketServer.cpp`, `TreelandDisplayServer.cpp`, `common/SocketWriter.cpp` | greeters' connections, `m_greeterSockets` | newConnection, readyRead, disconnected, activateUser, stop | no request is left behind, every greeter knows the open sessions, no deleted socket is used |
| `daemon/PowerManager.cpp` | its backends | capabilities, power requests | what was promised to a greeter is done, once |
| `daemon/XorgDisplayServer.cpp`, `common/XAuth.cpp` | the X server's process, `m_started`, the display number, the authority file | start, setupDisplay, stop, finished | its end is noticed and brings the greeter back, none is left without its object |
| `common/ConfigReader.cpp`, `Configuration.h` | options, remembered login, the time of the last load | load, save | what is saved is read again, others' lines survive if lines stay apart, options follow the files |
| `common/Session.cpp` | a desktop entry | setTo | the file and the type of a session are the ones asked for |
| `common/SignalHandler.cpp` | two socket pairs | Unix signals | one signal per signal |
| `daemon/DaemonApp.cpp` | the above, session ids | start | ids are never used twice |

How they interact: SeatManager creates Displays when logind says that a seat is
graphical. A greeter's request goes from SocketServer to Display, which makes an
Auth, asks dde-seatd (through DdeSeatdControl) or its own scan for a VT, maybe
stops Treeland and starts an X server, and lets the Auth fork a session leader;
the leader reports over a pipe. An open session is registered in DisplayManager.
The pipe's end of file becomes `sessionFinished`, whose handler in Display undoes
all that. A VT change reaches SeatManager::handleVtChanged from dde-seatd's event
socket; it looks up the owner of the VT and tells Treeland. The end of an X server
stops the display, and SeatManager puts a new one in its place.

Greeters write requests in bursts and may be gone before the answer: the write
then fails, and the slot of `disconnected` runs in the middle of the handler that
wrote. The start of an X server waits on a pipe, and its stop for the process, and
meanwhile any other process may end.

What is hard to test: sessions that end in any order while others are opened;
every step of a login failing after the ones before it took effect; answers and
signals of logind in either order; a leader that dies at each point of the
handshake; dde-seatd that restarts in the middle of an event; VT changes handled
after the logins and logouts that followed them. `PROJECT.json` lists these under
`hazards`, each at its line and with the properties that are about it.

## 2. The modules

Modules have one action per handler or per step of another process, and keep
the names of the code. Next to some operators stands a wrong version of the same
operator, with the same parameters, that nothing uses (`ScannedVtsUnreserved`
before `ScannedVts`): it is a plausible bug, and `PROJECT.json` names the property
that tells the two apart. The proofs about a module `M` are in `M_proofs`.

**`Display.tla`** (with `MCDisplay.tla`): Display, the registry in DisplayManager,
the start attempts of SeatManager, and the parts of Auth, XorgDisplayServer,
TreelandDisplayServer and SocketServer that a display sees. `StartUserSession` is
`Display::startUserSession` as a whole with its early returns in order, shared by
`Login` and `Connected` (autologin). `auths` holds the Auth objects together with
the state of their session's process: running, told by logind to end, or gone and
not noticed. `XServerFinished` is the whole chain from `XorgDisplayServer::finished`
through `Display::stop` to `SeatManager::displayStopped` and the start of the new
display; stale D-Bus entries and groups stay, as they do in the code.

**`UserSessions.tla`** is what a display promises, without VTs and servers: at
most one session per user, ids never used again, failed attempts that open
nothing. `Display` implements it (`PromiseSpec`), mapping `auths` to the open
sessions.

**`SeatManager.tla`** (with `MCSeatManager.tla`): logind's seats, the daemon's calls
and subscriptions, messages in the order the bus delivers them, `LogindSeat`
objects and what they do to displays and to the seats on D-Bus. `StartupRace` says
whether logind's seats may change before ListSeats is answered; `unheard` is a
history variable: seats whose CanGraphical changed while no LogindSeat could hear it and
a message of an earlier change was still under way.

**`AuthSession.tla`**: one Auth with its leader, its session process and one more
process that outlives it. The pipe is modelled by who can write to it, since end
of file is how the daemon learns of everything. `ChildModifier` is the one step of
the session process between fork and exec.

**`VtRouting.tla`** (with `MCVtRouting.tla`): dde-seatd, its event socket as a stream
of headers and payloads that arrives in any pieces, `connectEventSocket` in its two
steps (connect, then ask for the active VT), the grouping of VTs in a login, and what
`handleVtChanged` tells Treeland. Each wait for dde-seatd may end without an answer
(`readControlResponse`: three seconds, or a connection that broke):
`CreateGroupVtUnanswered` is such an end of `createGroupVt`, `late` counts requests of
that kind that dde-seatd may still handle, and `leaked` is the history of groups that
nobody gives back. Sessions are as in `Display`, reduced to owner, VT and kind; failed
starts of sessions on VTs of their own and the replacement of the display are there as
far as they matter to VTs. Replacing it is one step; `stale` is what the registry keeps of it.

**`StateFile.tla`**: the state file, line by line, with or without a line break behind
the last one (`ended`): `Load` is `loadInternal`, the scan,
the insertion of missing entries and the output are `save`, and opening the file for
writing is a step apart from writing it. The loops over lines, entries and sections
are recursive functions of the number of rounds (`Reads`, `Scanned`, `AddRemaining`,
`Written`). `CopiedTo` says where the scan copies a line that has no line break, and
`Join` what it becomes with the next one behind it, which is all that matters of it to a reader:
a comment stays one, an assignment gets another value, a title another name. The names that the daemon does not know are a set, `Foreign`.

**`GreeterProtocol.tla`** (with `MCGreeterProtocol.tla`): the connections of greeters.
`ReadyRead` is Qt moving some of what arrived into the socket's buffer and calling
`SocketServer::readyRead`; each turn of its loop is a step (`HandleRequest`), and
nothing else of the daemon runs until the loop is through (`reading`), while greeters
write and close. `Broken` is the set of sockets on which a write fails at once;
`Disconnected` is what `disconnected` does to them inside the handler. `listed` is
`m_greeterSockets` as a bag, so that a second Connect and a removal that comes too
early show. Login and Unlock are what Display does with them as far as greeters
learn of it; power requests go through `CalledBackends`. `Display` has the sessions
themselves, and takes requests one at a time.

**`XServer.tla`**: the X servers of one seat with their pipes, authority files and
`XorgDisplayServer` objects. `pc` is where the daemon's only thread is: in
`waitForStarted`, in `readLine`, in `setupDisplay`, in `waitForFinished` or in the event
loop. `Finished` out of the event loop and `FinishedInStop` out of a wait are the two
ways `finished()` is called; `outer` is the server whose end is being handled when
Display::stop stops a younger one. `Display` takes a start and an end as one step.

**`ConfigFiles.tla`**: `ConfigBase::load` in its two halves, the look at the times of
files and directories and the reading, with an administrator who edits, replaces,
adds and removes files in between. **`DesktopSessions.tla`** (with
`MCDesktopSessions.tla`) extends it: the option is the list of directories in which
`Session::setTo` looks for a desktop file, which is where the two meet in the code.
Login and autologin are there as far as they choose a session.

`VtRouting` repeats in small what `Display` says of sessions instead of composing
the two: the product is too large for TLC, and the facts it relies on (the registry
is exact, VTs are apart) are proved of `Display`.

## 3. The runs

| Run | Instance | Checks |
|---|---|---|
| `display_sessions` | 2 users, 3 VTs, 2 session ids, 2 displays, every session kind | the safety of logins, failures, ends and replacement; that the display implements `UserSessions` |
| `display_autologin` | 2 users, one of them with autologin and a saved X11 session, 2 VTs | autologin gives no second session; logouts complete; an X server's exit brings the greeter back |
| `seats` | 2 seats, 5 changes of one while the other stays | one display per graphical seat, in any order of signals and answers, and in the end |
| `seats_missed` | changes allowed while the daemon starts | a seat that is never learned of |
| `auth_processes` | one Auth, three processes | what is noticed, recorded and left behind |
| `session_lingers` | as above | a comment the code disagrees with |
| `vt_routing` | 2 users, 3 VTs, 2 switches, 1 stop of dde-seatd, 1 request at a time that was given up on | the stream stays in step and the cached VT is exact, Treeland shows the owner, sessions keep their groups, and groups leak in the two known ways only |
| `state_file` | every file of up to 5 lines, ended or not, one login, restarts, edits of files of up to 4 lines | saves are what loads read and others' lines and comments stay, for files whose lines are kept apart |
| `greeters` | 2 connections, 3 requests, 2 users, 2 sessions, 2 power backends | the list of greeters is right, greeters know the sessions, requests are all handled, power requests go where they were promised |
| `x_servers` | 3 X servers, 3 displays | ends are noticed, no X server is left alone, displays are replaced only then, the authority file is right |
| `desktop_sessions` | 2 files of 2 values, 2 edits, 3 directories, 1 change of the desktop files | the option follows the files; autologin opens the configured session |
| `session_resumed` | as above, autologin with the last used session | a comment the code disagrees with |

Some invariants are conjunctions of named parts that one hazard threatens together:
`RegistryCorrect` (`RegistryCoversAuths`, `RegistryExact`, `VtLookupFindsOwner`),
`VtsApart` (`ScannedVtExclusive`, `RunningSessionsApart`), `ScreenCorrect`
(`ScreenHasOneOwner`, `X11PointerValid`), `NothingTwice`, `SessionAsReported`,
`ActiveVtFollowed`, `GroupsFollowSessions` and `OthersLinesKept`.

Bounds, and why they are enough. Two users and two session ids give every pair of
sessions in every order, which is what the invariants relate; a third id was run
too (minutes instead of seconds) and shows nothing new. Three VTs are the least with which
the greeter and two sessions fit, so that the fourth request finds none. Two
displays show the first replacement. Five changes let a seat vanish, return, change
unheard and change again while older messages are under way: with fewer, the
exception of `unheard` seats would never be needed. The other seat was run with a
change of its own once (a dozen times the states, no difference); seats share nothing
but the order of messages, and the proof is for all numbers. Two VT switches and one stop of
dde-seatd let two events pile up behind a login and the stream break off inside an
event; the wrong versions of the operators, and each exception of the properties, show
within these bounds.
Five lines are enough for a section and an entry to come twice, with a last
line that has no line break and joins what comes after it. Three requests
are a burst with more behind it; two connections are a greeter that crashed and the
one that replaces it, or two at once. With a third, a broadcast may miss a greeter
(section 3, observations), and `GreetersKnowSessions` claims nothing. Three X servers
are one that ends, a younger one that is stopped for it, and a third that starts
afterwards; three displays are two replacements at once, which is what nested ends
cause. Two files, of which one is the main file, and two ticks of the clock give every
order of times, equal ones included. `MaxSid`, `MaxDisplays`, `MaxChanges`,
`MaxSwitches`, `MaxStops`, `MaxLate`, `MaxLines`, `MaxEdited`, `MaxSaves`, `MaxRequests`, `MaxSessions`,
`MaxClock`, `MaxEdits` and `MaxInstalls` are bounds of the models, none of the program; `MAX_NR_CONSOLES` (`MaxVt`) and the three
start attempts are the program's. Users, seats, connections and the
VTs but the greeter's are symmetric in the runs of safety properties of `Display`, `SeatManager`,
`GreeterProtocol` and `VtRouting`;
runs with liveness properties use no symmetry. Deadlock is not
checked where the bounds, or a deleted Auth, let the model stop.

Fairness. The event loop delivers timers, the ends of processes and messages that
are there, so the actions that handle them are weakly fair; the bus and logind
answer (`SeatManager`); logind ends the sessions it was told to end (`Display`); PAM
and exec return, and the leader, which handles SIGTERM by default, ends of it
(`AuthSession`); the waits in start() and stop() of an X server end when what they wait
for has happened, SIGKILL works, and the programs an X server starts come to an end
(`XServer`). Nothing is assumed of users, greeters, X servers and session
processes: they need not end, and need not heed a signal.

Disagreements found, each a run that TLC refutes (`findings` in `PROJECT.json`):

* A seat that appears between logind's answer to ListSeats and the subscription
  has no entry in `systemSeats`, which "will exist for all seats"
  (`daemon/SeatManager.h:43`).
* `sessionFinished` waits for every process that holds the pipe, not for "the
  session process" (`daemon/Auth.h:98`).
* Autologin with the "last used session" (`daemon/Display.cpp:461`) opens a remembered
  X11 session as a Wayland session: the remembered name is absolute, and is looked
  up as a Wayland session first.

Further disagreements, read in the code and too small for a run:

* Autologin is tried again on the first connection to a display that replaced
  another (`daemon/Display.cpp:244` says only on the first connection after boot).
  Display models this; `OneSessionPerUser` holds nevertheless.
* `RememberLastUser=false` clears the stored user (`src/data/man/ddm.conf.rst.in:132`:
  it is not updated).
* "map of nondefault entries which should be saved if they are not found in the current
  config file" (`common/ConfigReader.cpp:237`): saved into a state.conf that holds only
  `# note` without a line break, they are lost, since the title of their section becomes
  part of the comment (see below).
* `openSession` returns a valid id for a session whose process was never started
  (`daemon/Auth.h:68` and 74), since end of file is no error of read().
* "One Display for each seat" (`src/.github/copilot-instructions.md:14`): a seat may get
  two. It goes, comes back and becomes graphical before the daemon handles its
  SeatRemoved, so that the subscription of the old LogindSeat still forwards the change;
  CanGraphical turns false between SeatRemoved and SeatNew, which nobody hears, and true
  again after SeatNew. Both changes to true then reach the new LogindSeat, which does not
  compare (`daemon/SeatManager.cpp:144`). In the race at the start, SeatNew and ListSeats
  may announce the same seat, with the same effect. `OneDisplayPerSeat` and
  `DisplaysFollowLogind` except `unheard` seats; without the exception TLC refutes them.

Observations, about which no document says anything:

* `STRINGIFY(DDM_INITIAL_VT)` in `daemon/Display.cpp:55` does not expand its
  argument, so the greeter's VT is taken without looking whether it is in use, and
  `DdeSeatdControl::activeVt` is never called in effect.
* A leader that dies between starting the session process and reporting it leaves
  the daemon's only thread in `read()` until the session is over
  (`daemon/Auth.cpp:378`; `OpenSessionReturns` excepts it).
* After a display is replaced, D-Bus still lists its sessions, and `findUserByVt`
  may name the wrong user; `RegistryExact` and `VtLookupFindsOwner` are therefore
  stated for the first display. On a VT with such an entry Treeland is told the user
  of it, and `TreelandShowsOwner` says so.
* `findUserByVt` answers "dde" for a VT without a session, so its warning and what
  `findTreelandUserByVt` does for an empty name (`daemon/SeatManager.cpp:70-84`)
  never run.
* `RemoveSession` compares a session's name with an object path, so LastSession is
  never cleared. `m_pendingVt` decides nothing.
* When openSession fails after its switch, the failed session's VT is active and
  nothing switches back.
* The event socket, once broken, is connected again only by the next Treeland
  login; VT changes before that reach nobody.
* state.conf is cut off before it is written: a daemon that ends in between
  remembers nothing. Comments after the last assignment are lost by a save.
* `save` copies lines as they are (`common/ConfigReader.cpp:309`, 326, 337), puts no
  line break before a title it adds (line 347) and none between sections (line 356). If
  the last line of state.conf has no line break, what is written next may come on it:
  `# note` becomes `# note[Last]`, and the entries under it are read as those of General,
  that is, not at all; `[General]` becomes `[General][Last]`; and in `[Last]`, `User=a`,
  `[General]`, `x=1`, `[Last]`, `Session=b` a changed user makes the last line
  `Session=b[General]`, and `x=1` one of Last. `StateFile` models this. `KeptApart` names
  the files for which it cannot happen: those that end in a line break; those that end
  in an assignment and have no title of General; and those that end in a comment or a title and
  have the title of Last. `SavedIsLoaded` and `OthersLinesKept` except the others, and TLC
  refutes both without the exception. Every line that `save` makes itself has
  a line break, so it takes a file that was edited, with the last line left open.
* An answer of dde-seatd to `createGroupVt` that comes after three seconds
  (`daemon/DdeSeatdControl.cpp:161`, 346), or whose connection broke, leaves a VT
  grouped that the daemon has no number for and never ungroups; so does `Display::stop`
  with the VTs of Treeland sessions (`daemon/Display.cpp:211`). `GroupLeaksKnown` says
  that no other group leaks, and TLC refutes it without these two.
* The writes of `Display::connected` happen in the destructors of two writers, the
  last one first: a greeter gets ShowGreeter before the UserLoggedIn of the open
  sessions.
* A greeter that sends Connect twice, or whose connection breaks while Connect is
  answered, stays in `m_greeterSockets` after its socket was deleted; the next
  broadcast uses it. `GreetersListed` says that nothing else leads there.
* `activateUser` goes over the list from which a failed write removes: with three
  greeters or more some may be skipped.
* Between `SocketServer::stop` and the deletion of the local server, a connection
  makes `newConnection` use the null `m_server`. Display::start does not look at the
  result of `SocketServer::start`, which leaves `m_server` set when it cannot listen.
* An X server that runs and never becomes ready holds the daemon's only thread in
  `readLine` (`daemon/XorgDisplayServer.cpp:131`; `EndNoticed` excepts it). When
  the X server cannot be run at all, the write end of the pipe stays open in the
  daemon, and a failure of pipe() is only logged.
* With two X11 sessions, the end of the older stops the younger, and the display is
  created twice (`XServer`, `FinishedInStop`).
* `load` does not notice an edit in the tick of the last load, a main file replaced by
  one that is not newer, or the removal of the main file; and an option that is in
  no file any more keeps its value.
* `TreelandDisplayServer::onLoginFailed` and `SocketServer::informationMessage` are
  never called.

## 4. The proofs

Eight modules are proved about, each in a module `..._proofs` of its own; every
theorem holds for all values of the constants, so for any number of users, VTs,
greeters, seats, servers, files and changes, and for every bound.

Each proof module states an inductive invariant `IInv` (its parts are commented
there), proves that `Init` implies it and that every action keeps it (a lemma for each
action that disturbs much), and draws from it `Invariance == Spec => []IInv`, type
correctness (`TypeCorrect`) and the theorems below. TLC checked each `IInv` on the
instances of section 3 before.

| Module | Theorem | Property |
|---|---|---|
| `Display_proofs` | `UsersHaveOneSession`, `RegistryIsCorrect`, `VtsStayApart`, `TreelandVtsStayGrouped`, `ScreenIsCorrect` | `OneSessionPerUser`, `RegistryCorrect`, `VtsApart`, `LiveTreelandVtGrouped`, `ScreenCorrect` |
| | `FailedStartAlwaysAnswered`, `SessionsAlwaysEndInOrder` | the action properties `FailedStartAnswered`, `SessionsEndInOrder` |
| | `SessionsKeepPromise` | `PromiseSpec`: the display implements `UserSessions` |
| `SeatManager_proofs` | `NeverTwice`, `DisplaysAlwaysFollowLogind`, `SystemSeatsAlwaysForAllSeats` | `NothingTwice`, `DisplaysFollowLogind`, `SystemSeatsForAllSeats` |
| `AuthSession_proofs` | `SessionAsReportedAlways`, `ReadsAlwaysInStep` | `SessionAsReported`, `ReadsInStep` |
| `VtRouting_proofs` | `ActiveVtAlwaysFollowed`, `TreelandAlwaysShowsOwner`, `GroupsAlwaysFollowSessions` | `ActiveVtFollowed`, `TreelandShowsOwner`, `GroupsFollowSessions` |
| `GreeterProtocol_proofs` | `GreetersAlwaysListed`, `GreetersAlwaysKnowSessions`, `PowerPromiseAlwaysKept`, `NeverARequestLeftBehind` | `GreetersListed`, `GreetersKnowSessions`, `PowerPromiseKept`, `NoRequestLeftBehind` |
| `XServer_proofs` | `AuthorityAlwaysNamesDisplay`, `NeverAnOrphan`, `ReplacedOnlyAfterEnd` | `AuthorityNamesDisplay`, `NoOrphan`, the action property `ReplacedAfterEnd` |
| `DesktopSessions_proofs` | `ConfigAlwaysFollowsFiles`, `AutologinAlwaysFindsConfigured` | `ConfigFollowsFiles`, the action property `AutologinFindsConfigured` |
| `StateFile_proofs` | `SavedAlwaysLoaded`, `OthersLinesAlwaysKept` | `SavedIsLoaded`, the action property `OthersLinesKept` |
| | `OutcomeSaved` | `save` and `loadInternal` agree, for every file whose lines are kept apart and for every file that is left alone |

Why the invariants need strengthening, module by module.

**Display.** That sessions are registered as themselves is inductive only if ids are
fresh: `SidsFresh` says that every id in use, in the registry or in a group is below
`nextSid`. That ending one session leaves another's group alone needs `GroupsApart`:
no VT is in two groups. That no session or connection survives a stopped display is
`StoppedIsEmpty`; without it a login could come to a display that has not started, and
autologin could find a session of its user. `IInv` joins these with `TypeOK`, the
session part (one per user, registered, VTs apart) and the screen part (one owner,
valid pointer). Opening a session disturbs most of it, so `OpenedKeepsSessionInv` is a
lemma shared by login and autologin, once per kind of session. That the owner of a VT
is looked up rightly (`LookupFindsOwner`) needs nothing further: it follows from a
registry that lists the open sessions as themselves and nothing else, and from VTs
that are apart. The refinement uses `IInv` for the one fact `UserSessions` guards on,
that the user has no session yet; `SessionsEndInOrder` uses it for ids that name one
session.

**SeatManager.** What the daemon does with a message depends on what it believes when
it comes to it, so the invariant is about messages under way. `TurnsInv`: the
SeatNew and SeatRemoved of a seat come in turn, beginning with what the daemon
does not have, and the last of them is true. `NewsInv`: of the messages that a LogindSeat
will take as news, one that says TRUE comes after the contrary (in the inbox or in
what the LogindSeat believes), and the last one is true; so a display is created only
where none is, and when nothing is under way all is right. `WatchersInv` and `NumbersInv`
say that LogindSeats and entries are one to one and that an answer to Get finds its own
LogindSeat or nobody. The proof is four lemmas about sequences of messages (one arrives,
the first is handled: `TurnsAppend`, `TurnsTail`, `NewsAppend`, `NewsTail`), and one lemma
per message that supplies their hypotheses. The attempt showed that the property was
false without the exception of `unheard` seats (section 3): TLC finds the two displays
with five changes, one more than the run had allowed. These theorems assume
`~StartupRace`, as the run does; with the race, `seats_missed` refutes the header's
statement, and `SystemSeatsAlwaysForAllSeats` says that the race is the only way to.
`TypeCorrect` assumes nothing.

**AuthSession.** End of file is how the daemon learns of everything, so `HoldersAlive`
(who holds the write end runs) turns it into a fact about processes. `PipeFramed` says
where the leader and the daemon are in the pipe's two values: a read of one value never
meets the other, and after an end of file nothing comes any more.

**VtRouting.** `StreamInv` is about the buffer and the socket together: headers and
payloads alternate, in pairs while dde-seatd lives, and the last payload names the
active VT. The parity of what was read is what keeps a piece of an event from being
taken for another. `HeardInv` and `OwnerInv` relate what Treeland was told to the
cached VT, which by `CacheInv` is the active one when nothing is left to read; that a
login changes the owner of a VT only before it is switched to comes from `VtsApart`.

**GreeterProtocol.** `Unlisted` and `NoneUnopened` say that nothing is known of a
connection before it is accepted; `PromisesBacked`, that each capability a greeter was
told of has a backend. That the code's two ways to choose a backend name exactly one
needs a least element of a set of indices (`LeastNumber`).

**XServer.** `ThreadInv` and `StartingInv` say whose start or stop the daemon's only
thread is in, and how much of it is done: a start that has not read the number has the
authority file for `:0`, and a nested stop belongs to a server that is dead already.

**DesktopSessions** (with `ConfigFiles`). An edit nobody looked for yet shows in a time
stamp later than the last load (`ConfigInv`), and no time stamp lies in the future. The
first directory that has a file, and the file with the most influence, exist by the same
argument on least and greatest numbers; that autologin finds the configured session is
proved from there as an action property.

**StateFile.** The invariant of the specification adds to the properties only what is
about to be written: if the lines of the file that was read are kept apart, it loads as
the values, and keeps those lines. That this holds of whatever `save` writes is
`OutcomeSaved`, a theorem about the operators alone, for files of every length. A file
that is kept apart is either scanned as if it were ended, or its open part is the last one
that is written, or gets a line behind it that ends it first. It rests on an invariant of the scan
(`ScanInv`), kept by every line: the part of each section ends in that section, and has
its title first unless it is the first one of the file (`Shape`); the scan is in the section
the reader would be in (`Place`); and the parts hold the daemon's assignments with the
daemon's values, those of others as they are, and the comments before them (`Held`).
`Shape` is why the parts can be put one after the other: a part without a title in
another place would be read as belonging to the section before it. Once all lines are
scanned, `EntryAdded` carries the same over to each entry that is added, so that the
order the hash table gives them does not matter.

These are facts about recursive functions, for which the induction theorems of the library
are of no use to the installed provers (they take the formula as a parameter). Instead
each function is shown to exist and to have the value its body says
(`RecursionExists`), which gives what it computes for the empty file and for a file with
a line more; and a fact about every file is a set that has the empty file and is closed
under adding a line (`FilesByLine`), by the least number of lines at which it would fail
(`LeastNumber`). A set can be a lemma's parameter where a formula cannot.

The assumptions are the named ASSUMEs of the modules, which TLC evaluates in the runs:
"dde" and the marks for no user, no VT, no server and no value are none; no VT is the
mark for none, and the greeter has one of them; configured users, sessions and directories are of their kinds; no backend is
registered twice; seats, greeters and configuration files are finite sets. The only
assumption a theorem adds is `~StartupRace`.

Proofs changed models in four places, without changing their behaviour:
`VtRouting!Routed` and the backends of `GreeterProtocol` say with sets of indices what
they said with filtered sequences, since the provers know nothing of SelectSeq;
`ConfigFiles` assumes that its two marks are no values; and `StateFile` says with
recursive functions what it said with folds, and assumes that foreign names are not
the daemon's.

Checked by TLC only:

* all liveness properties (`LogoutCompletes`, `XServerExitRestartsGreeter`,
  `DisplaysCatchUp`, `OpenSessionReturns`, `EndIsNoticed` and the like): TLAPS reasons
  neither about fairness nor about ENABLED;
* what runs refute.

## 5. What is not modelled

* The PAM conversation, the environment of a session, and what a session process
  does between fork and exec count only by succeeding or failing.
* Requests of greeters are small and arrive whole; a message in two pieces would be
  read in two pieces, since readyRead does not wait for the rest.
* What the scripts around an X server do; the cookie itself, which is made once.
* The texts of a desktop file, its command and environment; configuration values as
  such: one option stands for all.
* A daemon without logind, which creates seat0 by itself.
* Process ids that are used again, file descriptors and zombies.
* Messages of dde-seatd that break its protocol, and a switch or a destroy request that it
  handles after the daemon gave up waiting for the switch; a request for a group that is
  given up on is modelled.
* A daemon that is restarted while dde-seatd runs on, with groups and sessions of its
  predecessor. Between the end of a display and the start of the next, `VtRouting` has
  nothing happen but the switch to the greeter, and the greeter keeps its VT.
* Unix signals: any of them ends the daemon. Starting ConsoleKit and granting Xwayland
  a capability when the daemon starts.
* Logging, translation, packaging, generated D-Bus code.

## 6. Plan

The modules that were planned are written, except `SignalHandler` and the start of a
daemon without logind, whose few lines meet none of the hazards above. Every safety
invariant and action property that a passing run checks is proved, and so is the refinement
of `UserSessions`; liveness stays with TLC. What could be added:

1. the conversions of `ConfigReader` (lists, numbers, values with `#`), as operators
   checked over bounded inputs;
2. process ids that are used again, and the time between `SocketServer::stop` and the
   deletion of the local server, for two of the hazards of `PROJECT.json` that have
   no property.
