------------------------------ MODULE ConfigFiles ------------------------------
(***************************************************************************)
(* How the daemon loads its configuration, and loads it again when a file  *)
(* changed: ConfigBase::load in src/src/common/ConfigReader.cpp, called    *)
(* when a seat is created and when an X server has been set up.  One       *)
(* option is followed; every file may set it.                              *)
(*                                                                         *)
(* The files are those of the system directory, then those of the          *)
(* configuration directory, each in alphabetical order, and the main file. *)
(* An administrator edits them at any time, also between the look at the   *)
(* times of the files and the reading.  Operators before another one with  *)
(* its parameters that no definition uses are wrong versions of it.        *)
(***************************************************************************)
EXTENDS Naturals, FiniteSets

CONSTANTS
  Files,      \* the files: numbers, a higher one has more influence
  MainFile,   \* the highest, which is in no directory of configuration files
  Values,     \* values of the option
  Default,    \* the one it has when no file sets it
  MaxClock,   \* bound: ticks of the files' time stamps
  MaxEdits    \* bound: edits

ASSUME FilesAssumption ==
  /\ Files \subseteq Nat /\ IsFiniteSet(Files) /\ MainFile \in Files
  /\ \A f \in Files : f <= MainFile
ASSUME ValuesAssumption ==
  Default \in Values /\ Values \cap {"silent", "absent"} = {}
ASSUME ConfigBoundsAssumption == MaxClock \in Nat /\ MaxEdits \in Nat

VARIABLES
  \* The file system.
  setting,    \* what each file says: a value, "silent", or "absent"
  mtime,      \* when each file was modified
  dirTime,    \* when a file was last added to or removed from a directory
  clock,
  edits,
  \* mainConfig.
  value,      \* the option
  fileTime,   \* m_fileModificationTime
  loading,    \* load() has looked at the times and will read the files
  \* History.
  unread,     \* edited since load() last looked at the times
  hidden      \* by an edit that no newer time shows

onDisk == <<setting, mtime, dirTime, clock, edits>>
config == <<value, fileTime, loading>>
cvars == <<onDisk, config, unread, hidden>>

Settings == Values \cup {"silent", "absent"}
Present == {f \in Files : setting[f] # "absent"}

ConfigInit ==
  /\ setting \in [Files -> {"absent", Default}]
  /\ mtime = [f \in Files |-> 1] /\ dirTime = 1 /\ clock = 1 /\ edits = 0
  /\ value = Default /\ fileTime = 0 /\ loading = FALSE
  /\ unread = TRUE /\ hidden = FALSE

-----------------------------------------------------------------------------
(* The administrator.                                                      *)

Tick ==
  /\ clock < MaxClock
  /\ clock' = clock + 1
  /\ UNCHANGED <<setting, mtime, dirTime, edits, config, unread, hidden>>

(* A file is written, or replaced by one that was written at time t.       *)
PutFile(f, v, t) ==
  /\ edits < MaxEdits /\ t \in 1 .. clock
  /\ setting' = [setting EXCEPT ![f] = v]
  /\ mtime' = [mtime EXCEPT ![f] = t]
  /\ dirTime' = IF f # MainFile /\ (t # clock \/ f \notin Present) THEN clock ELSE dirTime
  /\ edits' = edits + 1
  /\ unread' = TRUE
  /\ hidden' = (hidden \/ clock <= fileTime \/ (f = MainFile /\ t <= fileTime))
  /\ UNCHANGED <<clock, config>>

RemoveFile(f) ==
  /\ edits < MaxEdits /\ f \in Present
  /\ setting' = [setting EXCEPT ![f] = "absent"]
  /\ dirTime' = IF f # MainFile THEN clock ELSE dirTime
  /\ edits' = edits + 1
  /\ unread' = TRUE
  /\ hidden' = (hidden \/ clock <= fileTime \/ f = MainFile)
  /\ UNCHANGED <<mtime, clock, config>>

-----------------------------------------------------------------------------
(* ConfigBase::load.                                                       *)

TimesOfFiles == {mtime[f] : f \in Present}
Times == {mtime[f] : f \in Present} \cup {dirTime}

(* The latest time of all files and directories; nothing newer, nothing to *)
(* do.                                                                     *)
Newer == \E t \in Times : t > fileTime

StartLoading ==
  /\ ~loading
  /\ unread' = FALSE
  /\ IF Newer
     THEN /\ fileTime' \in {t \in Times : \A u \in Times : u <= t}
          /\ loading' = TRUE /\ hidden' = FALSE
     ELSE UNCHANGED <<fileTime, loading, hidden>>
  /\ UNCHANGED <<onDisk, value>>

(* loadInternal of one file after the other, in the order of the list: the *)
(* last one that sets the option wins, and without any the option keeps    *)
(* the value it had.                                                       *)
Setting == {f \in Present : setting[f] # "silent"}
LoadedFirst == {f \in Setting : \A e \in Setting : f <= e}
LoadedLast == {f \in Setting : \A e \in Setting : e <= f}

ReadFiles ==
  /\ loading
  /\ value' \in IF Setting = {} THEN {value} ELSE {setting[f] : f \in LoadedLast}
  /\ loading' = FALSE
  /\ UNCHANGED <<onDisk, fileTime, unread, hidden>>

Load == StartLoading \/ ReadFiles

ConfigNext ==
  \/ Tick
  \/ \E f \in Files :
       \/ \E v \in Values \cup {"silent"}, t \in 1 .. MaxClock : PutFile(f, v, t)
       \/ RemoveFile(f)
  \/ Load

-----------------------------------------------------------------------------
(* Properties.                                                             *)

ConfigTypeOK ==
  /\ setting \in [Files -> Settings] /\ mtime \in [Files -> Nat]
  /\ dirTime \in Nat /\ clock \in Nat /\ edits \in Nat
  /\ value \in Values /\ fileTime \in 0 .. clock /\ loading \in BOOLEAN
  /\ unread \in BOOLEAN /\ hidden \in BOOLEAN

(* A load that nobody interferes with leaves the option as the file with   *)
(* the most influence sets it, whatever was edited, added or removed since *)
(* the last one; unless an edit left all times as they were: in the tick   *)
(* of the last load, of the main file by an older one, or its removal.     *)
EffectiveValue == {setting[f] : f \in {g \in Setting : \A e \in Setting : e <= g}}

ConfigFollowsFiles ==
  ~loading /\ ~unread /\ ~hidden /\ Setting # {} => {value} = EffectiveValue
=============================================================================
