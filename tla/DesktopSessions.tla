---------------------------- MODULE DesktopSessions ----------------------------
(***************************************************************************)
(* Which desktop session a login or autologin opens: Session.cpp in        *)
(* src/src/common, called from Display.cpp, with the directories of the    *)
(* Wayland sessions as the configuration of ConfigFiles gives them.        *)
(*                                                                         *)
(* A session is asked for by its type and the name of its file.  Greeters  *)
(* send an absolute name, and a login remembers that; the configuration    *)
(* names the session for autologin without a directory.                    *)
(***************************************************************************)
EXTENDS ConfigFiles, Sequences

CONSTANTS
  Dirs,           \* directories
  DirsOf,         \* the sequence of directories that a value of ConfigFiles is
  X11Dirs,        \* mainConfig.X11.SessionDir
  Names,          \* names of desktop files, without a directory
  AutologinName,  \* mainConfig.Autologin.Session: a name, or "unset"
  MaxInstalls     \* bound: changes of the installed sessions

ASSUME DirsAssumption ==
  /\ DirsOf \in [Values -> Seq(Dirs)] /\ X11Dirs \in Seq(Dirs)
  /\ Dirs \cap {"any", "none"} = {}
ASSUME NamesAssumption == "unset" \notin Names /\ AutologinName \in Names \cup {"unset"}
ASSUME InstallsAssumption == MaxInstalls \in Nat

VARIABLES
  installed,  \* desktop files
  installs,   \* changes of them
  last,       \* stateConfig.Last.Session: an absolute name
  opened      \* the last session opened since the desktop files changed

dvars == <<installed, installs, last, opened>>
vars == <<cvars, dvars>>

Path == [dir : Dirs, name : Names]
DesktopFile == [path : Path, single : BOOLEAN]
NoPath == [dir |-> "none", name |-> "unset"]
Relative(name) == [dir |-> "any", name |-> name]
Kinds == {"treeland", "x11", "wayland"}
NotOpened == [path |-> NoPath, kind |-> "none"]

-----------------------------------------------------------------------------
(* Session::setTo and the operators that call it.                          *)

Exists(path) == \E f \in installed : f.path = path

SessionDirs(type) ==
  CASE type = "wayland" -> DirsOf[value] [] type = "x11" -> X11Dirs [] OTHER -> <<>>

(* An absolute name stays what it is, in whatever directory it is looked   *)
(* for; a relative one is taken from the first directory that has it.      *)
Candidates(type, name) ==
  [i \in 1 .. Len(SessionDirs(type)) |->
     IF name \in Path THEN name ELSE [name EXCEPT !.dir = SessionDirs(type)[i]]]

LastOf(paths) ==
  {paths[i] : i \in {j \in DOMAIN paths : Exists(paths[j]) /\
                       \A k \in DOMAIN paths : Exists(paths[k]) => k <= j}}
FirstOf(paths) ==
  {paths[i] : i \in {j \in DOMAIN paths : Exists(paths[j]) /\
                       \A k \in 1 .. j - 1 : ~Exists(paths[k])}}

(* The sessions setTo finds, none or one, as type and file.                *)
SetTo(type, name) ==
  {[type |-> type, path |-> p] : p \in FirstOf(Candidates(type, name))}

(* Assignment opens the other session's file again.                        *)
Assigned(found) == UNION {SetTo(s.type, s.path) : s \in found}

IsSingleMode(path) == \E f \in installed : f.path = path /\ f.single
KindOf(s) == IF IsSingleMode(s.path) THEN "treeland" ELSE s.type

-----------------------------------------------------------------------------
Init ==
  /\ ConfigInit
  /\ installed \in SUBSET {[path |-> p, single |-> FALSE] : p \in Path}
  /\ installs = 0 /\ last = NoPath /\ opened = NotOpened

InstallBeside(path, single) ==
  /\ installs < MaxInstalls
  /\ installed' = installed \cup {[path |-> path, single |-> single]}
  /\ installs' = installs + 1 /\ opened' = NotOpened
  /\ UNCHANGED <<cvars, last>>

Install(path, single) ==
  /\ installs < MaxInstalls
  /\ installed' = {f \in installed : f.path # path} \cup {[path |-> path, single |-> single]}
  /\ installs' = installs + 1 /\ opened' = NotOpened
  /\ UNCHANGED <<cvars, last>>

Uninstall(path) ==
  /\ installs < MaxInstalls /\ Exists(path)
  /\ installed' = {f \in installed : f.path # path}
  /\ installs' = installs + 1 /\ opened' = NotOpened
  /\ UNCHANGED <<cvars, last>>

(* Display::login, as far as the session goes: the request's session is    *)
(* set from its type and file name; the file name is remembered before the *)
(* session is checked.  The greeter offers X11 sessions out of X11Dirs and *)
(* Wayland ones out of the other directories.                              *)
TypeOfDir(dir) == IF \E i \in DOMAIN X11Dirs : X11Dirs[i] = dir THEN "x11" ELSE "wayland"

Login(path) ==
  /\ ~loading
  /\ last' = path
  /\ LET found == SetTo(TypeOfDir(path.dir), path)
     IN  \/ found = {} /\ UNCHANGED opened
         \/ \E s \in found : opened' = [path |-> s.path, kind |-> KindOf(s)]
  /\ UNCHANGED <<cvars, installed, installs>>

(* Display::startAutologin: the configured session, or the last one; first *)
(* as a Wayland session, then as an X11 session.                           *)
AutologinX11First(name) ==
  IF SetTo("x11", name) # {} THEN SetTo("x11", name) ELSE Assigned(SetTo("wayland", name))
AutologinSession(name) ==
  IF SetTo("wayland", name) # {} THEN SetTo("wayland", name)
  ELSE Assigned(SetTo("x11", name))

Autologin ==
  /\ ~loading
  /\ AutologinName # "unset" \/ last # NoPath
  /\ LET name == IF AutologinName # "unset" THEN Relative(AutologinName) ELSE last
     IN  \E s \in AutologinSession(name) :
           opened' = [path |-> s.path, kind |-> KindOf(s)] /\ last' = s.path
  /\ UNCHANGED <<cvars, installed, installs>>

Next ==
  \/ ConfigNext /\ UNCHANGED dvars
  \/ \E p \in Path :
       \/ \E single \in BOOLEAN : Install(p, single)
       \/ Uninstall(p)
       \/ Login(p)
  \/ Autologin

Spec == Init /\ [][Next]_vars

-----------------------------------------------------------------------------
(* Properties.                                                             *)

TypeOK ==
  /\ ConfigTypeOK
  /\ installed \subseteq DesktopFile /\ installs \in Nat
  /\ \A f, g \in installed : f.path = g.path => f = g
  /\ last \in Path \cup {NoPath}
  /\ opened \in [path : Path, kind : Kinds] \cup {NotOpened}

(* A session that autologin opens by its configured name is the one in the *)
(* first directory of the file with the most influence; only without a     *)
(* Wayland session of that name is it an X11 session.                      *)
NamedIn(dirs, name) == {i \in DOMAIN dirs : Exists([dir |-> dirs[i], name |-> name])}

AutologinFindsConfigured ==
  [][ Autologin /\ AutologinName # "unset" /\ ~unread /\ ~hidden /\ Setting # {} =>
      \E dirs \in {DirsOf[v] : v \in EffectiveValue} :
        IF NamedIn(dirs, AutologinName) = {}
        THEN \E i \in NamedIn(X11Dirs, AutologinName) : opened'.path.dir = X11Dirs[i]
        ELSE \E i \in NamedIn(dirs, AutologinName) :
               /\ opened'.path.dir = dirs[i]
               /\ opened'.kind # "x11"
               /\ \A j \in NamedIn(dirs, AutologinName) : i <= j ]_vars

(* "Determine session: autologin-session, or last used session": autologin *)
(* with the last used session opens it as what it was.                     *)
AutologinResumesSession ==
  [][ Autologin /\ AutologinName = "unset" /\ opened.path = last =>
      opened'.kind = opened.kind ]_vars
=============================================================================
