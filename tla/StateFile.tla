------------------------------ MODULE StateFile ------------------------------
(***************************************************************************)
(* What the daemon remembers of the last login in state.conf, and how it   *)
(* rewrites that file (ConfigBase::loadInternal and ConfigBase::save in    *)
(* src/src/common/ConfigReader.cpp, called from Display.cpp).  The file    *)
(* may hold lines of others: comments, variables and sections the daemon   *)
(* does not know, entries more than once.                                  *)
(*                                                                         *)
(* A line is a section's title, an assignment or a comment; blank lines,   *)
(* comments behind a title or an assignment and the remark save() puts on  *)
(* what it does not know are layout, which is left out.  Values contain no *)
(* "#".  The last line of a file may have no line break behind it: save()  *)
(* copies some lines as they are, and then what it writes next comes on    *)
(* the same line.                                                          *)
(* Operators before another one with its parameters that no definition     *)
(* uses are wrong versions of it, as in Display.                           *)
(***************************************************************************)
EXTENDS Naturals, Sequences, SequencesExt

CONSTANTS
  Values,       \* names of users and sessions; Default, the empty one, is one
  Default,
  Foreign,      \* names of sections and of variables that are not known
  Mangled,      \* a name or a value with a title run into it
  MaxLines,     \* bound: lines of the file the daemon finds
  MaxEdited,    \* bound: lines of a file that is edited while it runs
  MaxSaves      \* bound: logins

ASSUME DefaultAssumption == Default \in Values
ASSUME BoundsAssumption == MaxLines \in Nat /\ MaxEdited \in Nat /\ MaxSaves \in Nat

Entries == {"User", "Session"}
Sections == {"General", "Last"}
ASSUME ForeignAssumption == Foreign \cap (Sections \cup Entries) = {}
ASSUME MangledAssumption == Mangled \in Foreign /\ Mangled \in Values \ {Default}

IsEntry(section, name) == section = "Last" /\ name \in Entries

Title(s) == [kind |-> "section", name |-> s, value |-> Default]
Assign(n, v) == [kind |-> "entry", name |-> n, value |-> v]
Comment(c) == [kind |-> "comment", name |-> c, value |-> Default]

Line == {Title(s) : s \in Sections \cup Foreign} \cup
        {Assign(n, v) : n \in Entries \cup Foreign, v \in Values} \cup
        {Comment("note"), Comment("description")}

\* The last line of a file may be without a line break.
File == [lines : Seq(Line), ended : BOOLEAN]
NoFile == [lines |-> <<>>, ended |-> TRUE]

\* Lines an administrator writes.
Edited == {x \in Line \ {Comment("description")} : Mangled \notin {x.name, x.value}}

VARIABLES
  disk,     \* state.conf
  values,   \* stateConfig.Last: entry |-> value
  pc,       \* "idle", "save": about to save, "written": the file is cut off
  output,   \* what is to be written
  saves,    \* logins so far
  old       \* history: the file that is being replaced

vars == <<disk, values, pc, output, saves, old>>

Defaults == [n \in Entries |-> Default]

-----------------------------------------------------------------------------
(* Reading: an assignment counts in the section it stands in; the last one *)
(* for an entry wins.                                                      *)

LoadLineOfAny(read, line) ==
  CASE line.kind = "section" -> [read EXCEPT !.section = line.name]
    [] line.kind = "entry" /\ read.section = "Last" ->
         [read EXCEPT !.values = (line.name :> line.value) @@ @]
    [] OTHER -> read
LoadLine(read, line) ==
  CASE line.kind = "section" -> [read EXCEPT !.section = line.name]
    [] line.kind = "entry" /\ IsEntry(read.section, line.name) ->
         [read EXCEPT !.values[line.name] = line.value]
    [] OTHER -> read

\* What is read, and in which section the reader is, after each line.
Reads(lines) ==
  LET read[i \in 0..Len(lines)] ==
        IF i = 0 THEN [section |-> "General", values |-> Defaults]
                 ELSE LoadLine(read[i - 1], lines[i])
  IN read

Load(lines) == Reads(lines)[Len(lines)].values

-----------------------------------------------------------------------------
(* save() sorts the lines of the file by section, in the order the         *)
(* sections first appear, with the values of the daemon; lines of unknown  *)
(* sections come last.  Comments go with the line that follows them.       *)

Unused == "unused"
Junk == "junk"
Nowhere == "nowhere"

\* The scan's open is the part that ends without a line break.
Scan(v) ==
  [section |-> "General", junk |-> <<>>, order |-> <<>>,
   data |-> [s \in Sections \cup {Unused} |-> <<>>],
   remaining |-> {n \in Entries : v[n] # Default}, changed |-> FALSE,
   open |-> Nowhere]

WriteSectionData(scan, line) ==
  LET s == scan.section IN
  [scan EXCEPT
    !.order = IF s = Unused \/ Contains(@, s) THEN @ ELSE Append(@, s),
    !.data[s] = @ \o scan.junk \o <<line>>,
    !.junk = <<>>]

SaveEntryOnce(scan, line, v) ==
  IF line.name \in scan.remaining
    THEN WriteSectionData(
           [scan EXCEPT !.changed = @ \/ line.value # v[line.name],
                        !.remaining = @ \ {line.name}],
           Assign(line.name, v[line.name]))
    ELSE WriteSectionData(scan, line)
SaveEntry(scan, line, v) ==
  WriteSectionData(
    [scan EXCEPT !.changed = @ \/ line.value # v[line.name],
                 !.remaining = @ \ {line.name}],
    Assign(line.name, v[line.name]))

SaveTitle(scan, line) ==
  IF line.name \in Sections
    THEN LET in == [scan EXCEPT !.section = line.name] IN
         IF Contains(scan.order, line.name) THEN in
                                            ELSE WriteSectionData(in, line)
    ELSE WriteSectionData([scan EXCEPT !.section = Unused], line)

SaveForeignDropped(scan, line) ==
  IF scan.section = Unused THEN scan ELSE WriteSectionData(scan, line)
SaveForeign(scan, line) == WriteSectionData(scan, line)

CollectJunk(scan, line) == [scan EXCEPT !.junk = Append(@, line)]

ScanLine(scan, line, v) ==
  CASE line.kind = "comment" -> CollectJunk(scan, line)
    [] line.kind = "section" -> SaveTitle(scan, line)
    [] line.kind = "entry" /\ IsEntry(scan.section, line.name) ->
         SaveEntry(scan, line, v)
    [] OTHER -> SaveForeign(scan, line)

Scanned(lines, v) ==
  LET scan[i \in 0..Len(lines)] ==
        IF i = 0 THEN Scan(v) ELSE ScanLine(scan[i - 1], lines[i], v)
  IN scan[Len(lines)]

\* Where the scan copies a line as it is, its line break if it has one.
CopiedTo(scan, line, v) ==
  CASE line.kind = "comment" -> Junk
    [] line.kind = "section" /\ line.name \in Sections ->
         IF Contains(scan.order, line.name) THEN Nowhere ELSE line.name
    [] line.kind = "section" /\ line.name \notin Sections -> Unused
    [] line.kind = "entry" /\ IsEntry(scan.section, line.name)
                           /\ line.value = v[line.name] -> scan.section
    [] OTHER -> Nowhere

ScannedFile(file, v) ==
  LET f == file.lines
      before == Scanned(Front(f), v) IN
  IF file.ended \/ f = <<>>
    THEN Scanned(f, v)
    ELSE [ScanLine(before, Last(f), v) EXCEPT !.open = CopiedTo(before, Last(f), v)]

\* What two lines make without a line break between them.
Join(x, y) ==
  CASE "comment" \in {x.kind, y.kind} -> x
    [] x.kind = "section" /\ y.kind # "comment" -> Title(Mangled)
    [] x.kind = "entry" /\ y.kind # "comment" -> Assign(x.name, Mangled)

\* The section's title has no line break in front of it, but one behind it.
AddTitle(scan) ==
  IF scan.open = Junk /\ ~Contains(scan.order, scan.section)
    THEN WriteSectionData([scan EXCEPT !.junk = Front(@)],
                          Join(Last(scan.junk), Title(scan.section)))
    ELSE IF Contains(scan.order, scan.section)
      THEN scan ELSE WriteSectionData(scan, Title(scan.section))

EndLine(scan) ==
  [scan EXCEPT !.open = IF @ \in {Junk, scan.section} THEN Nowhere ELSE @]

\* An entry that the file does not have, with its description.
AddEntry(scan, n, v) ==
  LET in == [scan EXCEPT !.section = "Last", !.changed = TRUE]
      described == WriteSectionData(EndLine(AddTitle(in)), Comment("description")) IN
  WriteSectionData(described, Assign(n, v[n]))

AddRemaining(scan, entries, v) ==
  LET added[i \in 0..Len(entries)] ==
        IF i = 0 THEN scan ELSE AddEntry(added[i - 1], entries[i], v)
  IN added[Len(entries)]

\* The hash table gives the remaining entries in any order.
Outcomes(file, v) ==
  LET scan == ScannedFile(file, v)
      left == scan.remaining IN
  {AddRemaining(scan, entries, v) :
     entries \in Bijection(1..Cardinality(left), left)}

\* Lines that come behind others whose last one may be open.
Behind(before, open, after) ==
  IF open THEN Front(before) \o <<Join(Last(before), Head(after))>> \o Tail(after)
          ELSE before \o after

\* The sections one behind the other; a line break before what is unknown
\* and one after it.
Written(scan) ==
  LET o == scan.order
      lines[i \in 0..Len(o)] ==
        IF i = 0 THEN <<>>
        ELSE Behind(lines[i - 1], i > 1 /\ scan.open = o[i - 1], scan.data[o[i]])
  IN [lines |-> lines[Len(o)] \o scan.data[Unused],
      ended |-> scan.data[Unused] # <<>> \/ o = <<>> \/ scan.open # Last(o)]

-----------------------------------------------------------------------------
Init ==
  /\ \E n \in 0..MaxLines : \E lines \in [1..n -> Edited] : \E ended \in BOOLEAN :
       disk = [lines |-> lines, ended |-> ended \/ n = 0]
  /\ values = Load(disk.lines)
  /\ pc = "idle" /\ output = NoFile /\ saves = 0 /\ old = NoFile

\* login, autologin and unlock: the user, maybe the session, or none if the
\* configuration says not to remember; then save().
Remember ==
  /\ pc = "idle" /\ saves < MaxSaves
  /\ \E user, session \in Values \ {Mangled} :
       values' = [n \in Entries |-> IF n = "User" THEN user ELSE session]
  /\ pc' = "save" /\ saves' = saves + 1
  /\ UNCHANGED <<disk, output, old>>

\* The file is opened for writing, which cuts it off, only for a change.
SaveUnchanged ==
  /\ pc = "save"
  /\ \E scan \in Outcomes(disk, values) : ~scan.changed
  /\ pc' = "idle"
  /\ UNCHANGED <<disk, values, output, saves, old>>

SaveTruncates ==
  /\ pc = "save"
  /\ \E scan \in Outcomes(disk, values) :
       scan.changed /\ output' = Written(scan)
  /\ pc' = "written" /\ disk' = NoFile /\ old' = disk
  /\ UNCHANGED <<values, saves>>

SaveWrites ==
  /\ pc = "written"
  /\ disk' = output /\ output' = NoFile /\ old' = NoFile /\ pc' = "idle"
  /\ UNCHANGED <<values, saves>>

\* The daemon ends at any point and is started again.
Restart ==
  /\ values' = Load(disk.lines) /\ pc' = "idle" /\ output' = NoFile /\ old' = NoFile
  /\ UNCHANGED <<disk, saves>>

\* An administrator adds a line, and leaves the last one with or without a
\* line break; the daemon does not read the file again before it saves.
EditFile ==
  /\ pc = "idle" /\ Len(disk.lines) < MaxEdited
  /\ \E i \in 1..Len(disk.lines) + 1 : \E line \in Edited : \E ended \in BOOLEAN :
       disk' = [lines |-> InsertAt(disk.lines, i, line), ended |-> ended]
  /\ UNCHANGED <<values, pc, output, saves, old>>

Next == \/ Remember \/ SaveUnchanged \/ SaveTruncates \/ SaveWrites
        \/ Restart \/ EditFile

Spec == Init /\ [][Next]_vars

-----------------------------------------------------------------------------
(* Properties.                                                             *)

\* Every variable keeps its type.
TypeOK ==
  /\ disk \in File /\ output \in File /\ old \in File
  /\ values \in [Entries -> Values]
  /\ pc \in {"idle", "save", "written"} /\ saves \in 0..MaxSaves

\* The files whose lines save() keeps apart: those that end in a line break;
\* of the others those that end in an assignment and have no title of General,
\* and those that end in a comment or a title and have the title of Last, as
\* the daemon writes it.  For the rest the next piece comes on the last line:
\* "# note" takes in the "[Last]" that is added, "[General]" and "[Last]" make
\* "[General][Last]", and "Session=b" in front of the lines of General makes
\* "Session=b[General]" (ConfigReader.cpp:309, 326, 337, 347, 356).
HasTitle(lines, s) ==
  \E i \in 1..Len(lines) : lines[i].kind = "section" /\ lines[i].name = s
KeptApart(file) ==
  \/ file.ended \/ file.lines = <<>>
  \/ IF Last(file.lines).kind = "entry" THEN ~HasTitle(file.lines, "General")
                                        ELSE HasTitle(file.lines, "Last")

\* When a save is through, a restarted daemon reads the values it was to
\* remember: always if it found nothing to write, and otherwise if the lines
\* of the file that was there are kept apart, whatever else it held, entries
\* twice, in other sections or in none (save and loadInternal agree on the
\* entries of the file).
SavedIsLoaded ==
  [][/\ pc = "save" /\ pc' = "idle" => Load(disk'.lines) = values'
     /\ SaveWrites /\ KeptApart(old) => Load(disk'.lines) = values]_vars

SectionOf(lines, i) ==
  LET titles == {j \in 1..i : lines[j].kind = "section"} IN
  IF titles = {} THEN "General"
                 ELSE lines[CHOOSE j \in titles : \A k \in titles : k <= j].name

\* The assignments of section s that are not the daemon's, in their order.
IsForeign(lines, s, i) ==
  /\ lines[i].kind = "entry" /\ SectionOf(lines, i) = s
  /\ ~IsEntry(s, lines[i].name)
ForeignOf(lines, s) ==
  LET of[i \in 0..Len(lines)] ==
        IF i = 0 THEN <<>>
        ELSE IF IsForeign(lines, s, i) THEN Append(of[i - 1], lines[i])
                                       ELSE of[i - 1]
  IN of[Len(lines)]

\* A save keeps what it does not know: every assignment of another's stays,
\* in its section and its order, although sections are moved and merged.
ForeignKept(lines, saved) ==
  \A s \in Sections \cup Foreign : ForeignOf(saved, s) = ForeignOf(lines, s)

\* A comment stays in front of the assignment it precedes (save's "pre-section
\* stuff", ConfigReader.cpp:264), also when the assignment gets a new value.
CommentsStay(lines, saved) ==
  \A i \in 1..Len(lines) - 1 :
    lines[i] = Comment("note") /\ lines[i + 1].kind = "entry" =>
      \E j \in 1..Len(saved) - 1 :
        /\ saved[j] = lines[i]
        /\ saved[j + 1].kind = "entry"
        /\ saved[j + 1].name = lines[i + 1].name
        /\ SectionOf(saved, j) = SectionOf(lines, i)

\* What an administrator wrote survives the daemon's rewriting of a file
\* whose lines it keeps apart.
OthersLinesKept ==
  [][SaveWrites /\ KeptApart(old) =>
       /\ ForeignKept(old.lines, disk'.lines)
       /\ CommentsStay(old.lines, disk'.lines)]_vars
==============================================================================
