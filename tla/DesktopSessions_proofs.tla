------------------------ MODULE DesktopSessions_proofs ------------------------
(***************************************************************************)
(* Proofs about DesktopSessions and the configuration it reads, for every  *)
(* set of configuration files, values and directories, and any number of   *)
(* edits, ticks and installations.                                         *)
(***************************************************************************)
EXTENDS DesktopSessions, WellFoundedInduction, TLAPS

(* No time stamp lies in the future, and an edit that load() has not       *)
(* looked for yet, unless it is hidden, shows in some time stamp.          *)
ConfigInv ==
  /\ ConfigTypeOK
  /\ \A f \in Files : mtime[f] <= clock
  /\ dirTime <= clock
  /\ unread /\ ~hidden => Newer
  /\ ConfigFollowsFiles

(* The inductive invariant.                                                *)
IInv == ConfigInv /\ TypeOK

USE FilesAssumption, ValuesAssumption, ConfigBoundsAssumption, DirsAssumption,
    NamesAssumption, InstallsAssumption

-----------------------------------------------------------------------------
(* The files.                                                              *)

(* All time stamps are numbers up to the clock.                            *)
LEMMA TimesFacts ==
  ASSUME ConfigInv
  PROVE  /\ Times \subseteq Nat /\ fileTime \in Nat /\ clock \in Nat
         /\ \A t \in Times : t <= clock
         /\ dirTime \in Times /\ \A f \in Present : f \in Files /\ mtime[f] \in Times
BY DEF ConfigInv, ConfigTypeOK, Times, Present

(* One file at most has the most influence.                                *)
LEMMA MostInfluential ==
  ASSUME NEW f \in LoadedLast
  PROVE  EffectiveValue = {setting[f]} /\ f \in Setting /\ f \in Files
<1>1. Setting \subseteq Files /\ Files \subseteq Nat
  BY DEF Setting, Present
<1>2. f \in Setting /\ \A e \in Setting : e <= f
  BY DEF LoadedLast
<1>3. ASSUME NEW g \in Setting, \A e \in Setting : e <= g PROVE g = f
  BY <1>1, <1>2, <1>3
<1>4. EffectiveValue = {setting[g] : g \in LoadedLast}
  BY DEF EffectiveValue, LoadedLast
<1>5. LoadedLast = {f}
  BY <1>2, <1>3 DEF LoadedLast
<1> QED BY <1>1, <1>2, <1>4, <1>5

(* Writing a file: a time stamp gets newer than fileTime, or the edit is   *)
(* hidden.                                                                 *)
LEMMA PutFileStep ==
  ASSUME ConfigInv, NEW f \in Files, NEW v \in Values \cup {"silent"},
         NEW t \in 1 .. MaxClock, PutFile(f, v, t)
  PROVE  ConfigInv'
<1>1. /\ t \in 1 .. clock
      /\ setting' = [setting EXCEPT ![f] = v]
      /\ mtime' = [mtime EXCEPT ![f] = t]
      /\ dirTime' = IF f # MainFile /\ (t # clock \/ f \notin Present)
                      THEN clock ELSE dirTime
      /\ edits' = edits + 1 /\ unread' = TRUE
      /\ hidden' = (hidden \/ clock <= fileTime \/ (f = MainFile /\ t <= fileTime))
      /\ UNCHANGED <<clock, value, fileTime, loading>>
  BY DEF PutFile, config
<1>2. /\ setting \in [Files -> Settings] /\ mtime \in [Files -> Nat]
      /\ dirTime \in Nat /\ clock \in Nat /\ edits \in Nat /\ hidden \in BOOLEAN
      /\ fileTime \in 0 .. clock
  BY DEF ConfigInv, ConfigTypeOK
<1>3. f \in Present'
  BY <1>1, <1>2 DEF Present
<1>4. setting' \in [Files -> Settings] /\ mtime' \in [Files -> Nat] /\ mtime'[f] = t
  BY <1>1, <1>2 DEF Settings
<1>5. dirTime' \in Nat /\ dirTime' <= clock /\ \A g \in Files : mtime'[g] <= clock
  BY <1>1, <1>2 DEF ConfigInv
<1>6. hidden' \in BOOLEAN
  BY <1>1
<1>7. ConfigTypeOK'
  BY <1>1, <1>2, <1>4, <1>5, <1>6 DEF ConfigInv, ConfigTypeOK
<1>8. ~hidden' => Newer'
  <2> SUFFICES ASSUME ~hidden' PROVE Newer'
    OBVIOUS
  <2>1. ~(clock <= fileTime) /\ ~(f = MainFile /\ t <= fileTime)
    BY <1>1
  <2>2. dirTime' \in Times' /\ t \in Times'
    BY <1>3, <1>4 DEF Times
  <2>3. CASE f # MainFile /\ (t # clock \/ f \notin Present)
    BY <1>1, <1>2, <2>1, <2>2, <2>3 DEF Newer
  <2>4. CASE ~(f # MainFile /\ (t # clock \/ f \notin Present))
    BY <1>1, <1>2, <2>1, <2>2, <2>4 DEF Newer
  <2> QED BY <2>3, <2>4
<1>9. ConfigFollowsFiles'
  BY <1>1 DEF ConfigFollowsFiles
<1> QED BY <1>1, <1>5, <1>7, <1>8, <1>9 DEF ConfigInv

(* A file that goes changes the time of its directory, so the next load    *)
(* reads the rest.                                                         *)
LEMMA RemoveFileStep ==
  ASSUME ConfigInv, NEW f \in Files, RemoveFile(f)
  PROVE  ConfigInv'
<1>1. /\ setting' = [setting EXCEPT ![f] = "absent"]
      /\ dirTime' = IF f # MainFile THEN clock ELSE dirTime
      /\ edits' = edits + 1 /\ unread' = TRUE
      /\ hidden' = (hidden \/ clock <= fileTime \/ f = MainFile)
      /\ UNCHANGED <<mtime, clock, value, fileTime, loading>>
  BY DEF RemoveFile, config
<1>2. /\ setting \in [Files -> Settings] /\ dirTime \in Nat /\ clock \in Nat
      /\ edits \in Nat /\ hidden \in BOOLEAN /\ fileTime \in 0 .. clock
  BY DEF ConfigInv, ConfigTypeOK
<1>3. setting' \in [Files -> Settings]
  BY <1>1, <1>2 DEF Settings
<1>4. dirTime' \in Nat /\ dirTime' <= clock
  BY <1>1, <1>2 DEF ConfigInv
<1>5. hidden' \in BOOLEAN
  BY <1>1
<1>6. ConfigTypeOK'
  BY <1>1, <1>2, <1>3, <1>4, <1>5 DEF ConfigInv, ConfigTypeOK
<1>7. ~hidden' => Newer'
  <2> SUFFICES ASSUME ~hidden' PROVE Newer'
    OBVIOUS
  <2>1. ~(clock <= fileTime) /\ dirTime' = clock
    BY <1>1
  <2>2. dirTime' \in Times'
    BY DEF Times
  <2> QED BY <1>1, <1>2, <2>1, <2>2 DEF Newer
<1>8. ConfigFollowsFiles'
  BY <1>1 DEF ConfigFollowsFiles
<1> QED BY <1>1, <1>4, <1>6, <1>7, <1>8 DEF ConfigInv

(* The clock only moves on.                                                *)
LEMMA TickStep ==
  ASSUME ConfigInv, Tick
  PROVE  ConfigInv'
<1>1. /\ clock' = clock + 1
      /\ UNCHANGED <<setting, mtime, dirTime, edits, value, fileTime, loading,
                     unread, hidden>>
  BY DEF Tick, config
<1>2. /\ mtime \in [Files -> Nat] /\ dirTime \in Nat /\ clock \in Nat
      /\ fileTime \in 0 .. clock
  BY DEF ConfigInv, ConfigTypeOK
<1>3. ConfigTypeOK' /\ \A f \in Files : mtime'[f] <= clock'
  BY <1>1, <1>2 DEF ConfigInv, ConfigTypeOK
<1>4. dirTime' <= clock'
  BY <1>1, <1>2 DEF ConfigInv
<1>5. Newer' = Newer /\ ConfigFollowsFiles' = ConfigFollowsFiles
  BY <1>1 DEF Newer, Times, Present, ConfigFollowsFiles, Setting, EffectiveValue
<1> QED BY <1>1, <1>3, <1>4, <1>5 DEF ConfigInv

(* The look at the times: with nothing newer everything has been read.     *)
LEMMA StartLoadingStep ==
  ASSUME ConfigInv, StartLoading
  PROVE  ConfigInv'
<1>1. /\ ~loading /\ unread' = FALSE
      /\ UNCHANGED <<setting, mtime, dirTime, clock, edits, value>>
  BY DEF StartLoading, onDisk
<1>2. ConfigTypeOK' /\ ConfigFollowsFiles'
  <2>1. CASE Newer
    <3>1. /\ fileTime' \in {t \in Times : \A u \in Times : u <= t}
          /\ loading' = TRUE /\ hidden' = FALSE
      BY <2>1 DEF StartLoading
    <3>2. fileTime' \in 0 .. clock
      BY <3>1, TimesFacts
    <3> QED BY <1>1, <3>1, <3>2 DEF ConfigInv, ConfigTypeOK, ConfigFollowsFiles
  <2>2. CASE ~Newer
    <3>1. UNCHANGED <<fileTime, loading, hidden>>
      BY <2>2 DEF StartLoading
    <3>2. ~hidden => ~unread
      BY <2>2 DEF ConfigInv, ConfigTypeOK
    <3>3. ConfigTypeOK'
      BY <1>1, <3>1 DEF ConfigInv, ConfigTypeOK
    <3>4. Setting' = Setting /\ EffectiveValue' = EffectiveValue
      BY <1>1 DEF Setting, EffectiveValue, Present
    <3> QED BY <1>1, <3>1, <3>2, <3>3, <3>4 DEF ConfigInv, ConfigFollowsFiles
  <2> QED BY <2>1, <2>2
<1> QED BY <1>1, <1>2 DEF ConfigInv

(* Reading gives the option the value of the file with the most influence. *)
LEMMA ReadFilesStep ==
  ASSUME ConfigInv, ReadFiles
  PROVE  ConfigInv'
<1>1. /\ value' \in IF Setting = {} THEN {value} ELSE {setting[f] : f \in LoadedLast}
      /\ loading' = FALSE
      /\ UNCHANGED <<setting, mtime, dirTime, clock, edits, fileTime, unread, hidden>>
  BY DEF ReadFiles, onDisk
<1>2. Setting' = Setting /\ EffectiveValue' = EffectiveValue /\ Newer' = Newer
  BY <1>1 DEF Setting, EffectiveValue, Present, Newer, Times
<1>3. CASE Setting = {}
  <2>1. value' = value
    BY <1>1, <1>3
  <2> QED BY <1>1, <1>2, <1>3, <2>1 DEF ConfigInv, ConfigTypeOK, ConfigFollowsFiles
<1>4. CASE Setting # {}
  <2>1. PICK f \in LoadedLast : value' = setting[f]
    BY <1>1, <1>4
  <2>2. EffectiveValue = {setting[f]} /\ f \in Setting /\ f \in Files
    BY MostInfluential
  <2>3. setting[f] \in Values
    BY <2>2 DEF ConfigInv, ConfigTypeOK, Settings, Setting, Present
  <2>4. ConfigTypeOK'
    BY <1>1, <2>1, <2>3 DEF ConfigInv, ConfigTypeOK
  <2>5. ConfigFollowsFiles'
    BY <1>2, <2>1, <2>2 DEF ConfigFollowsFiles
  <2> QED BY <1>1, <1>2, <2>4, <2>5 DEF ConfigInv
<1> QED BY <1>3, <1>4

(* The configuration keeps its part of the invariant in every step of its  *)
(* own.                                                                    *)
LEMMA ConfigStep ==
  ASSUME ConfigInv, ConfigNext \/ UNCHANGED cvars
  PROVE  ConfigInv'
<1>1. CASE UNCHANGED cvars
  <2>1. UNCHANGED <<setting, mtime, dirTime, clock, edits, value, fileTime,
                    loading, unread, hidden>>
    BY <1>1 DEF cvars, onDisk, config
  <2> QED BY <2>1 DEF ConfigInv, ConfigTypeOK, ConfigFollowsFiles, Newer, Times,
             Present, Setting, EffectiveValue
<1>2. CASE Tick
  BY <1>2, TickStep
<1>3. ASSUME NEW f \in Files, NEW v \in Values \cup {"silent"},
             NEW t \in 1 .. MaxClock, PutFile(f, v, t)
      PROVE  ConfigInv'
  BY <1>3, PutFileStep
<1>4. ASSUME NEW f \in Files, RemoveFile(f) PROVE ConfigInv'
  BY <1>4, RemoveFileStep
<1>5. CASE Load
  BY <1>5, StartLoadingStep, ReadFilesStep DEF Load
<1> QED BY <1>1, <1>2, <1>3, <1>4, <1>5 DEF ConfigNext

-----------------------------------------------------------------------------
(* Finding a session.                                                      *)

(* A name in a directory is a path; a relative name and no path at all are *)
(* none.                                                                   *)
LEMMA PathFacts ==
  /\ NoPath \notin Path
  /\ \A n \in Names : Relative(n) \notin Path
  /\ \A n \in Names, d \in Dirs :
       /\ [Relative(n) EXCEPT !.dir = d] = [dir |-> d, name |-> n]
       /\ [dir |-> d, name |-> n] \in Path
<1>1. \A p \in Path : p.dir \in Dirs
  BY DEF Path
<1>2. NoPath.dir \notin Dirs
  BY DEF NoPath
<1>3. \A n \in Names : Relative(n).dir \notin Dirs
  BY DEF Relative
<1>4. \A n \in Names, d \in Dirs :
        /\ [Relative(n) EXCEPT !.dir = d] = [dir |-> d, name |-> n]
        /\ [dir |-> d, name |-> n] \in Path
  BY DEF Relative, Path
<1> QED BY <1>1, <1>2, <1>3, <1>4

(* The directories in which setTo looks for a session of a type.           *)
LEMMA SessionDirsFacts ==
  ASSUME ConfigTypeOK, NEW type
  PROVE  /\ SessionDirs(type) \in Seq(Dirs)
         /\ type = "wayland" => SessionDirs(type) = DirsOf[value]
         /\ type = "x11" => SessionDirs(type) = X11Dirs
<1>1. value \in Values /\ DirsOf[value] \in Seq(Dirs) /\ X11Dirs \in Seq(Dirs)
  BY DEF ConfigTypeOK
<1>2. <<>> \in Seq(Dirs)
  OBVIOUS
<1> QED BY <1>1, <1>2 DEF SessionDirs

(* What setTo finds is there, in one of the directories of the type; an    *)
(* absolute name is found as it is.                                        *)
LEMMA SetToFacts ==
  ASSUME ConfigTypeOK, installed \subseteq DesktopFile, NEW type, NEW name,
         NEW s \in SetTo(type, name)
  PROVE  /\ s.type = type /\ Exists(s.path) /\ s.path \in Path
         /\ name \in Path => s.path = name
         /\ name \notin Path =>
              \E i \in 1 .. Len(SessionDirs(type)) :
                /\ s.path = [name EXCEPT !.dir = SessionDirs(type)[i]]
                /\ \A k \in 1 .. i - 1 :
                     ~Exists([name EXCEPT !.dir = SessionDirs(type)[k]])
<1> DEFINE paths == Candidates(type, name)
           n == Len(SessionDirs(type))
<1>1. n \in Nat
  BY SessionDirsFacts
<1>2. PICK p \in FirstOf(paths) : s = [type |-> type, path |-> p]
  BY DEF SetTo
<1>3. s.type = type /\ s.path = p
  BY <1>2
<1>4. /\ DOMAIN paths = 1 .. n
      /\ \A i \in 1 .. n :
           paths[i] = IF name \in Path THEN name
                      ELSE [name EXCEPT !.dir = SessionDirs(type)[i]]
  BY DEF Candidates
<1> HIDE DEF paths, n
<1>5. PICK i \in 1 .. n :
        /\ p = paths[i] /\ Exists(paths[i])
        /\ \A k \in 1 .. i - 1 : ~Exists(paths[k])
  BY <1>4 DEF FirstOf
<1>6. p \in Path
  BY <1>5 DEF Exists, DesktopFile
<1>7. name \in Path => p = name
  BY <1>4, <1>5
<1>8. name \notin Path =>
        /\ p = [name EXCEPT !.dir = SessionDirs(type)[i]]
        /\ \A k \in 1 .. i - 1 : ~Exists([name EXCEPT !.dir = SessionDirs(type)[k]])
  <2> SUFFICES ASSUME name \notin Path
               PROVE  /\ p = [name EXCEPT !.dir = SessionDirs(type)[i]]
                      /\ \A k \in 1 .. i - 1 :
                           ~Exists([name EXCEPT !.dir = SessionDirs(type)[k]])
    OBVIOUS
  <2>1. \A k \in 1 .. i - 1 : k \in 1 .. n
    BY <1>1
  <2>2. \A k \in 1 .. n : paths[k] = [name EXCEPT !.dir = SessionDirs(type)[k]]
    BY <1>4
  <2> QED BY <1>5, <2>1, <2>2
<1> QED BY <1>3, <1>5, <1>6, <1>7, <1>8 DEF n

(* A session found as a Wayland session is not opened as an X11 session.   *)
LEMMA KindFacts ==
  ASSUME NEW s
  PROVE  /\ s.type \in {"wayland", "x11"} => KindOf(s) \in Kinds
         /\ s.type = "wayland" => KindOf(s) # "x11"
BY DEF KindOf, Kinds

(* A set of numbers that is not empty has a least element.                 *)
LEMMA LeastNumber ==
  ASSUME NEW T \in SUBSET Nat, T # {}
  PROVE  \E x \in T : \A y \in T : x <= y
<1> DEFINE R == OpToRel(<, Nat)
<1>1. IsWellFoundedOn(R, Nat)
  BY NatLessThanWellFounded
<1>2. \A x, y \in Nat : y < x => <<y, x>> \in R
  BY DEF OpToRel
<1> HIDE DEF R
<1>3. PICK x \in T : \A y \in T : <<y, x>> \notin R
  BY <1>1, WFMin
<1>4. \A y \in T : ~(y < x)
  BY <1>2, <1>3
<1> QED BY <1>3, <1>4

(* A relative name that some directory has is found.                       *)
LEMMA NamedIsFound ==
  ASSUME ConfigTypeOK, NEW type, NEW n \in Names,
         NamedIn(SessionDirs(type), n) # {}
  PROVE  SetTo(type, Relative(n)) # {}
<1> DEFINE dirs == SessionDirs(type)
           paths == Candidates(type, Relative(n))
<1>1. dirs \in Seq(Dirs) /\ DOMAIN dirs = 1 .. Len(dirs) /\ Len(dirs) \in Nat
  BY SessionDirsFacts
<1>2. DOMAIN paths = 1 .. Len(dirs)
  BY DEF Candidates
<1>3. \A i \in 1 .. Len(dirs) : paths[i] = [dir |-> dirs[i], name |-> n]
  <2> SUFFICES ASSUME NEW i \in 1 .. Len(dirs)
               PROVE  paths[i] = [dir |-> dirs[i], name |-> n]
    OBVIOUS
  <2>1. paths[i] = IF Relative(n) \in Path THEN Relative(n)
                   ELSE [Relative(n) EXCEPT !.dir = dirs[i]]
    BY DEF Candidates
  <2>2. dirs[i] \in Dirs
    BY <1>1
  <2> HIDE DEF dirs
  <2> QED BY <2>1, <2>2, PathFacts
<1> HIDE DEF dirs, paths
<1>4. NamedIn(dirs, n) \in SUBSET Nat /\ NamedIn(dirs, n) # {}
  BY <1>1 DEF NamedIn, dirs
<1>5. PICK i \in NamedIn(dirs, n) : \A k \in NamedIn(dirs, n) : i <= k
  BY <1>4, LeastNumber
<1>6. i \in 1 .. Len(dirs) /\ Exists(paths[i])
  BY <1>1, <1>3 DEF NamedIn
<1>7. \A k \in 1 .. i - 1 : ~Exists(paths[k])
  <2> SUFFICES ASSUME NEW k \in 1 .. i - 1, Exists(paths[k]) PROVE FALSE
    OBVIOUS
  <2>1. k \in 1 .. Len(dirs) /\ k \in Nat /\ i \in Nat /\ ~(i <= k)
    BY <1>1, <1>6
  <2>2. k \in NamedIn(dirs, n)
    BY <1>1, <1>3, <2>1 DEF NamedIn
  <2> QED BY <1>5, <2>1, <2>2
<1>8. paths[i] \in FirstOf(paths)
  BY <1>2, <1>6, <1>7 DEF FirstOf
<1>9. SetTo(type, Relative(n)) = {[type |-> type, path |-> p] : p \in FirstOf(paths)}
  BY DEF SetTo, paths
<1>10. \A p \in FirstOf(paths) : [type |-> type, path |-> p] \in SetTo(type, Relative(n))
  BY <1>9
<1> QED BY <1>8, <1>10

(* A session that autologin opens was found as a Wayland session, or there *)
(* is none and it was found as an X11 session.                             *)
LEMMA AutologinSessionFacts ==
  ASSUME ConfigTypeOK, installed \subseteq DesktopFile, NEW name,
         NEW s \in AutologinSession(name)
  PROVE  /\ s.path \in Path /\ s.type \in {"wayland", "x11"}
         /\ \/ s \in SetTo("wayland", name)
            \/ /\ SetTo("wayland", name) = {}
               /\ \E t \in SetTo("x11", name) : t.path = s.path
<1>1. CASE SetTo("wayland", name) # {}
  <2>1. s \in SetTo("wayland", name)
    BY <1>1 DEF AutologinSession
  <2> QED BY <2>1, SetToFacts
<1>2. CASE SetTo("wayland", name) = {}
  <2>1. s \in Assigned(SetTo("x11", name))
    BY <1>2 DEF AutologinSession
  <2>2. PICK t \in SetTo("x11", name) : s \in SetTo(t.type, t.path)
    BY <2>1 DEF Assigned
  <2>3. t.type = "x11" /\ t.path \in Path
    BY SetToFacts
  <2>4. s.type = "x11" /\ s.path = t.path
    BY <2>2, <2>3, SetToFacts
  <2> QED BY <1>2, <2>3, <2>4
<1> QED BY <1>1, <1>2

-----------------------------------------------------------------------------
(* The invariant holds at first.                                           *)
LEMMA InitInv == Init => IInv
<1> SUFFICES ASSUME Init PROVE IInv
  OBVIOUS
<1>1. /\ setting \in [Files -> {"absent", Default}]
      /\ mtime = [f \in Files |-> 1] /\ dirTime = 1 /\ clock = 1 /\ edits = 0
      /\ value = Default /\ fileTime = 0 /\ loading = FALSE
      /\ unread = TRUE /\ hidden = FALSE
  BY DEF Init, ConfigInit
<1>2. ConfigTypeOK
  <2>1. setting \in [Files -> Settings]
    BY <1>1 DEF Settings
  <2>2. mtime \in [Files -> Nat]
    BY <1>1
  <2>3. fileTime \in 0 .. clock /\ dirTime \in Nat /\ clock \in Nat /\ edits \in Nat
    BY <1>1
  <2> QED BY <1>1, <2>1, <2>2, <2>3 DEF ConfigTypeOK
<1>3. dirTime \in Times /\ dirTime > fileTime
  BY <1>1 DEF Times
<1>4. ConfigInv
  BY <1>1, <1>2, <1>3 DEF ConfigInv, Newer, ConfigFollowsFiles
<1>5. /\ installed \in SUBSET {[path |-> p, single |-> FALSE] : p \in Path}
      /\ installs = 0 /\ last = NoPath /\ opened = NotOpened
  BY DEF Init
<1>6. /\ installed \subseteq DesktopFile
      /\ \A f, g \in installed : f.path = g.path => f = g
  <2>1. \A f \in installed :
          \E p \in Path : f = [path |-> p, single |-> FALSE] /\ f.path = p
    BY <1>5
  <2>2. \A p \in Path : [path |-> p, single |-> FALSE] \in DesktopFile
    BY DEF DesktopFile
  <2>3. installed \subseteq DesktopFile
    BY <2>1, <2>2
  <2>4. \A f \in installed : f = [path |-> f.path, single |-> FALSE]
    BY <2>1
  <2> QED BY <2>3, <2>4
<1> QED BY <1>2, <1>4, <1>5, <1>6 DEF IInv, TypeOK

(* Desktop files come and go; no session that is remembered or open        *)
(* changes.                                                                *)
LEMMA InstallStep ==
  ASSUME IInv, NEW p \in Path, NEW single \in BOOLEAN,
         Install(p, single) \/ Uninstall(p)
  PROVE  IInv'
<1>1. /\ \/ installed' = {f \in installed : f.path # p} \cup
                           {[path |-> p, single |-> single]}
         \/ installed' = {f \in installed : f.path # p}
      /\ installs' = installs + 1 /\ opened' = NotOpened
      /\ UNCHANGED <<cvars, last>>
  BY DEF Install, Uninstall
<1>2. ConfigInv' /\ ConfigTypeOK'
  BY <1>1, ConfigStep DEF IInv, ConfigInv
<1>3. [path |-> p, single |-> single] \in DesktopFile
  BY DEF DesktopFile
<1>4. installed' \subseteq DesktopFile
  BY <1>1, <1>3 DEF IInv, TypeOK
<1>5. \A f, g \in installed' : f.path = g.path => f = g
  BY <1>1 DEF IInv, TypeOK
<1>6. installs' \in Nat
  BY <1>1 DEF IInv, TypeOK
<1> QED BY <1>1, <1>2, <1>4, <1>5, <1>6 DEF IInv, TypeOK

(* A login remembers the file it was given, and opens what setTo finds.    *)
LEMMA LoginStep ==
  ASSUME IInv, NEW p \in Path, Login(p)
  PROVE  IInv'
<1>1. /\ last' = p /\ UNCHANGED <<cvars, installed, installs>>
      /\ \/ UNCHANGED opened
         \/ \E s \in SetTo(TypeOfDir(p.dir), p) :
              opened' = [path |-> s.path, kind |-> KindOf(s)]
  BY DEF Login
<1>2. ConfigInv' /\ ConfigTypeOK'
  BY <1>1, ConfigStep DEF IInv, ConfigInv
<1>3. TypeOfDir(p.dir) \in {"wayland", "x11"}
  BY DEF TypeOfDir
<1>4. ASSUME NEW s \in SetTo(TypeOfDir(p.dir), p)
      PROVE  [path |-> s.path, kind |-> KindOf(s)] \in [path : Path, kind : Kinds]
  <2>1. s.type = TypeOfDir(p.dir) /\ s.path \in Path
    BY SetToFacts DEF IInv, TypeOK
  <2> QED BY <1>3, <2>1, KindFacts
<1>5. opened' \in [path : Path, kind : Kinds] \cup {NotOpened}
  BY <1>1, <1>4 DEF IInv, TypeOK
<1> QED BY <1>1, <1>2, <1>5 DEF IInv, TypeOK

(* What autologin opens, and remembers, is a file that setTo found.        *)
LEMMA AutologinStep ==
  ASSUME IInv, Autologin
  PROVE  IInv'
<1>1. PICK name : \E s \in AutologinSession(name) :
        opened' = [path |-> s.path, kind |-> KindOf(s)] /\ last' = s.path
  BY DEF Autologin
<1>2. PICK s \in AutologinSession(name) :
        opened' = [path |-> s.path, kind |-> KindOf(s)] /\ last' = s.path
  BY <1>1
<1>3. UNCHANGED <<cvars, installed, installs>>
  BY DEF Autologin
<1>4. ConfigInv' /\ ConfigTypeOK'
  BY <1>3, ConfigStep DEF IInv, ConfigInv
<1>5. s.path \in Path /\ KindOf(s) \in Kinds
  BY AutologinSessionFacts, KindFacts DEF IInv, TypeOK
<1>6. opened' \in [path : Path, kind : Kinds]
  BY <1>2, <1>5
<1> QED BY <1>2, <1>3, <1>4, <1>5, <1>6 DEF IInv, TypeOK

(* Every step keeps the invariant.                                         *)
LEMMA NextInv == IInv /\ [Next]_vars => IInv'
<1> SUFFICES ASSUME IInv, [Next]_vars PROVE IInv'
  OBVIOUS
<1>1. ASSUME ConfigNext \/ UNCHANGED cvars, UNCHANGED dvars PROVE IInv'
  <2>1. ConfigInv' /\ ConfigTypeOK'
    BY <1>1, ConfigStep DEF IInv, ConfigInv
  <2>2. UNCHANGED <<installed, installs, last, opened>>
    BY <1>1 DEF dvars
  <2> QED BY <2>1, <2>2 DEF IInv, TypeOK
<1>2. ASSUME NEW p \in Path,
             (\E single \in BOOLEAN : Install(p, single)) \/ Uninstall(p)
      PROVE  IInv'
  BY <1>2, InstallStep
<1>3. ASSUME NEW p \in Path, Login(p) PROVE IInv'
  BY <1>3, LoginStep
<1>4. CASE Autologin
  BY <1>4, AutologinStep
<1>5. CASE UNCHANGED vars
  BY <1>1, <1>5 DEF vars
<1> QED BY <1>1, <1>2, <1>3, <1>4, <1>5 DEF Next

-----------------------------------------------------------------------------
(* The inductive invariant holds in every reachable state.                 *)
THEOREM Invariance == Spec => []IInv
BY InitInv, NextInv, PTL DEF Spec

(* Every variable keeps its type: no login or autologin opens a session    *)
(* that no directory has (Session::setTo).                                 *)
THEOREM TypeCorrect == Spec => []TypeOK
<1>1. IInv => TypeOK
  BY DEF IInv
<1> QED BY <1>1, Invariance, PTL

(* The option follows the files: load() sees every edit that the times of  *)
(* the files and directories show (ConfigBase::load).                      *)
THEOREM ConfigAlwaysFollowsFiles == Spec => []ConfigFollowsFiles
<1>1. IInv => ConfigFollowsFiles
  BY DEF IInv, ConfigInv
<1> QED BY <1>1, Invariance, PTL

(* An autologin with a configured session opens that of the first          *)
(* directory in the file with the most influence, and an X11 session only  *)
(* if no Wayland session has the name (Display::startAutologin).           *)
LEMMA AutologinFinds ==
  ASSUME IInv, Autologin, AutologinName # "unset", ~unread, ~hidden, Setting # {}
  PROVE  \E dirs \in {DirsOf[v] : v \in EffectiveValue} :
           IF NamedIn(dirs, AutologinName) = {}
           THEN \E i \in NamedIn(X11Dirs, AutologinName) :
                  opened'.path.dir = X11Dirs[i]
           ELSE \E i \in NamedIn(dirs, AutologinName) :
                  /\ opened'.path.dir = dirs[i]
                  /\ opened'.kind # "x11"
                  /\ \A j \in NamedIn(dirs, AutologinName) : i <= j
<1> DEFINE n == AutologinName
           dirs == DirsOf[value]
<1>1. n \in Names /\ Relative(n) \notin Path
  BY PathFacts
<1>2. ConfigTypeOK /\ installed \subseteq DesktopFile
  BY DEF IInv, TypeOK
<1>3. dirs \in {DirsOf[v] : v \in EffectiveValue}
  <2>1. EffectiveValue = {value}
    BY DEF Autologin, IInv, ConfigInv, ConfigFollowsFiles
  <2> QED BY <2>1
<1>4. /\ SessionDirs("wayland") = dirs /\ SessionDirs("x11") = X11Dirs
      /\ dirs \in Seq(Dirs) /\ X11Dirs \in Seq(Dirs)
  BY <1>2, SessionDirsFacts
<1>5. PICK s \in AutologinSession(Relative(n)) :
        opened' = [path |-> s.path, kind |-> KindOf(s)]
  BY DEF Autologin
<1>6. /\ \/ s \in SetTo("wayland", Relative(n))
         \/ /\ SetTo("wayland", Relative(n)) = {}
            /\ \E t \in SetTo("x11", Relative(n)) : t.path = s.path
  BY <1>2, AutologinSessionFacts
<1>7. opened'.path = s.path /\ opened'.kind = KindOf(s)
  BY <1>5
<1> HIDE DEF n, dirs
<1>8. ASSUME NEW type, NEW ds, ds = SessionDirs(type), ds \in Seq(Dirs),
             NEW t \in SetTo(type, Relative(n))
      PROVE  /\ t.type = type
             /\ \E i \in NamedIn(ds, n) :
                  /\ t.path.dir = ds[i]
                  /\ \A j \in NamedIn(ds, n) : i <= j
  <2>1. /\ t.type = type /\ Exists(t.path)
        /\ \E i \in 1 .. Len(ds) :
             /\ t.path = [Relative(n) EXCEPT !.dir = ds[i]]
             /\ \A k \in 1 .. i - 1 : ~Exists([Relative(n) EXCEPT !.dir = ds[k]])
    BY <1>1, <1>2, <1>8, SetToFacts
  <2>2. PICK i \in 1 .. Len(ds) :
          /\ t.path = [Relative(n) EXCEPT !.dir = ds[i]]
          /\ \A k \in 1 .. i - 1 : ~Exists([Relative(n) EXCEPT !.dir = ds[k]])
    BY <2>1
  <2>3. DOMAIN ds = 1 .. Len(ds) /\ Len(ds) \in Nat
    BY <1>8
  <2>4. \A k \in 1 .. Len(ds) :
          [Relative(n) EXCEPT !.dir = ds[k]] = [dir |-> ds[k], name |-> n]
    BY <1>1, <1>8, PathFacts
  <2>5. t.path = [dir |-> ds[i], name |-> n]
    BY <2>2, <2>4
  <2>6. i \in NamedIn(ds, n) /\ t.path.dir = ds[i]
    BY <2>1, <2>3, <2>5 DEF NamedIn
  <2>7. ASSUME NEW j \in NamedIn(ds, n) PROVE i <= j
    <3>1. j \in 1 .. Len(ds) /\ Exists([dir |-> ds[j], name |-> n])
      BY <2>3 DEF NamedIn
    <3>2. ~(j \in 1 .. i - 1)
      BY <2>2, <2>4, <3>1
    <3> QED BY <2>3, <3>1, <3>2
  <2> QED BY <2>1, <2>6, <2>7
<1>9. IF NamedIn(dirs, n) = {}
      THEN \E i \in NamedIn(X11Dirs, n) : opened'.path.dir = X11Dirs[i]
      ELSE \E i \in NamedIn(dirs, n) :
             /\ opened'.path.dir = dirs[i]
             /\ opened'.kind # "x11"
             /\ \A j \in NamedIn(dirs, n) : i <= j
  <2>1. CASE s \in SetTo("wayland", Relative(n))
    <3>1. /\ s.type = "wayland"
          /\ \E i \in NamedIn(dirs, n) :
               /\ s.path.dir = dirs[i]
               /\ \A j \in NamedIn(dirs, n) : i <= j
      BY <1>4, <1>8, <2>1
    <3>2. KindOf(s) # "x11"
      BY <3>1, KindFacts
    <3> QED BY <1>7, <3>1, <3>2
  <2>2. CASE /\ SetTo("wayland", Relative(n)) = {}
             /\ \E t \in SetTo("x11", Relative(n)) : t.path = s.path
    <3>1. NamedIn(dirs, n) = {}
      BY <1>1, <1>2, <1>4, <2>2, NamedIsFound
    <3>2. PICK t \in SetTo("x11", Relative(n)) : t.path = s.path
      BY <2>2
    <3>3. \E i \in NamedIn(X11Dirs, n) : t.path.dir = X11Dirs[i]
      BY <1>4, <1>8
    <3> QED BY <1>7, <3>1, <3>2, <3>3
  <2> QED BY <1>6, <2>1, <2>2
<1> QED BY <1>3, <1>9 DEF n

(* When the configuration was read in full, autologin opens the desktop    *)
(* file of the first directory that has the configured session, a Wayland  *)
(* one if there is any (Display::startAutologin, Session::setTo).          *)
THEOREM AutologinAlwaysFindsConfigured == Spec => AutologinFindsConfigured
<1>1. IInv /\ [Next]_vars =>
        [ Autologin /\ AutologinName # "unset" /\ ~unread /\ ~hidden /\ Setting # {} =>
          \E dirs \in {DirsOf[v] : v \in EffectiveValue} :
            IF NamedIn(dirs, AutologinName) = {}
            THEN \E i \in NamedIn(X11Dirs, AutologinName) :
                   opened'.path.dir = X11Dirs[i]
            ELSE \E i \in NamedIn(dirs, AutologinName) :
                   /\ opened'.path.dir = dirs[i]
                   /\ opened'.kind # "x11"
                   /\ \A j \in NamedIn(dirs, AutologinName) : i <= j ]_vars
  BY AutologinFinds
<1> QED BY <1>1, Invariance, PTL DEF Spec, AutologinFindsConfigured
===============================================================================
