--------------------------- MODULE StateFile_proofs ---------------------------
(***************************************************************************)
(* Proofs about StateFile, for every set of values and of foreign names,   *)
(* and for files of every length.                                          *)
(*                                                                         *)
(* What load and save make of a file is defined by recursion over its      *)
(* lines.  A first part gives each of these definitions its value for the  *)
(* empty file and for a file with one line more; from then on a fact about *)
(* every file is a set of files that has the empty one and is closed under *)
(* adding a line (FilesByLine).                                            *)
(***************************************************************************)
EXTENDS StateFile, SequenceTheorems, FiniteSetTheorems, WellFoundedInduction, TLAPS

-----------------------------------------------------------------------------
(* Sets of numbers have a least element.                                   *)
LEMMA LeastNumber ==
  ASSUME NEW T \in SUBSET Nat, T # {}
  PROVE  \E x \in T : \A y \in T : x <= y
<1> DEFINE R == OpToRel(<, Nat)
<1>1. IsWellFoundedOn(R, Nat)
  BY NatLessThanWellFounded
<1>2. \A x, y \in Nat : y < x => <<y, x>> \in R
  BY DEF OpToRel
<1> HIDE DEF R
<1>3. PICK x \in T : \A y \in T : <<y, x>> \notin R
  BY <1>1, WFMin
<1>4. \A y \in T : ~ (y < x)
  BY <1>2, <1>3
<1> QED BY <1>4

(* A set that has 0 and, with each number, the next one up to n, has all   *)
(* numbers up to n.                                                        *)
LEMMA CountUp ==
  ASSUME NEW n \in Nat, NEW T, 0 \in T, \A i \in 1..n : i - 1 \in T => i \in T
  PROVE  \A i \in 0..n : i \in T
<1> SUFFICES ASSUME NEW j \in 0..n, j \notin T PROVE FALSE
  OBVIOUS
<1> DEFINE Out == {i \in Nat : i \in 0..n /\ i \notin T}
<1>0. Out \in SUBSET Nat /\ j \in Out
  OBVIOUS
<1>1. PICK x \in Out : \A y \in Out : x <= y
  <2> HIDE DEF Out
  <2> QED BY <1>0, LeastNumber
<1>2. x \in 1..n
  BY <1>1
<1>3. x - 1 \in Nat /\ x - 1 \in 0..n /\ x - 1 < x
  BY <1>2
<1>4. x - 1 \in T
  BY <1>1, <1>3
<1> QED BY <1>1, <1>2, <1>4

(* A set of sequences that has the empty one and is closed under adding an *)
(* element has all of them.                                                *)
LEMMA FilesByLine ==
  ASSUME NEW S, NEW T, <<>> \in T,
         \A f \in Seq(S), x \in S : f \in T => Append(f, x) \in T
  PROVE  \A f \in Seq(S) : f \in T
<1> SUFFICES ASSUME NEW f \in Seq(S) PROVE f \in T
  OBVIOUS
<1> DEFINE P == {k \in 0..Len(f) : SubSeq(f, 1, k) \in T}
<1>0. Len(f) \in Nat /\ SubSeq(f, 1, 0) = <<>>
  BY LenProperties, SubSeqEmpty
<1>1. 0 \in P
  <2>1. SubSeq(f, 1, 0) \in T
    BY <1>0, Zenon
  <2>2. 0 \in 0..Len(f)
    BY <1>0
  <2> QED BY <2>1, <2>2, Zenon
<1>2. ASSUME NEW k \in 1..Len(f), k - 1 \in P PROVE k \in P
  <2>1. SubSeq(f, 1, k) = Append(SubSeq(f, 1, k - 1), f[k])
    BY SubSeqRecursiveSecond
  <2>2. SubSeq(f, 1, k - 1) \in Seq(S) /\ f[k] \in S
    BY SubSeqProperties
  <2>3. SubSeq(f, 1, k - 1) \in T
    BY <1>2
  <2>4. SubSeq(f, 1, k) \in T
    BY <2>1, <2>2, <2>3
  <2> QED BY <2>4
<1>3. Len(f) \in P
  <2>1. \A i \in 1..Len(f) : i - 1 \in P => i \in P
    BY <1>2
  <2> HIDE DEF P
  <2>2. \A i \in 0..Len(f) : i \in P
    BY <1>0, <1>1, <2>1, CountUp, Zenon
  <2>3. Len(f) \in 0..Len(f)
    BY <1>0
  <2> QED BY <2>2, <2>3, Zenon
<1>4. SubSeq(f, 1, Len(f)) \in T
  BY <1>3
<1> QED BY <1>4, SubSeqFull

(* A function defined by recursion over 0..n exists when each step stays   *)
(* in one set.                                                             *)
LEMMA RecursionExists ==
  ASSUME NEW S, NEW base \in S, NEW n \in Nat, NEW step \in [1..n -> [S -> S]]
  PROVE  \E g \in [0..n -> S] :
           /\ g[0] = base
           /\ \A i \in 1..n : g[i] = step[i][g[i - 1]]
<1> DEFINE Good(k, g) == /\ g[0] = base
                         /\ \A i \in 1..k : g[i] = step[i][g[i - 1]]
           T == {k \in 0..n : \E g \in [0..k -> S] : Good(k, g)}
<1>1. 0 \in T
  <2> DEFINE g == [i \in 0..0 |-> base]
  <2>1. g \in [0..0 -> S] /\ Good(0, g)
    OBVIOUS
  <2>2. \E h \in [0..0 -> S] : Good(0, h)
    BY <2>1
  <2> QED BY <2>2
<1>2. ASSUME NEW k \in 1..n, k - 1 \in T PROVE k \in T
  <2>1. PICK g \in [0..(k - 1) -> S] : Good(k - 1, g)
    <3>1. \E g \in [0..(k - 1) -> S] : Good(k - 1, g)
      BY <1>2
    <3> QED BY <3>1
  <2> DEFINE h == [i \in 0..k |-> IF i = k THEN step[k][g[k - 1]] ELSE g[i]]
  <2>2. h \in [0..k -> S]
    <3>1. step[k] \in [S -> S] /\ g[k - 1] \in S
      OBVIOUS
    <3>2. \A i \in 0..k : i # k => i \in 0..(k - 1)
      OBVIOUS
    <3> QED BY <3>1, <3>2
  <2>3. h[0] = base
    BY <2>1
  <2>4. ASSUME NEW i \in 1..k PROVE h[i] = step[i][h[i - 1]]
    <3>1. i - 1 \in 0..k /\ i - 1 # k /\ h[i - 1] = g[i - 1]
      OBVIOUS
    <3>2. CASE i = k
      BY <3>1, <3>2
    <3>3. CASE i # k
      <4>1. i \in 1..(k - 1) /\ i \in 0..k
        BY <3>3
      <4>2. h[i] = g[i]
        BY <3>3, <4>1
      <4>3. g[i] = step[i][g[i - 1]]
        BY <2>1, <4>1
      <4> QED BY <3>1, <4>2, <4>3
    <3> QED BY <3>2, <3>3
  <2>5. \E e \in [0..k -> S] : Good(k, e)
    BY <2>2, <2>3, <2>4
  <2>6. k \in 0..n
    OBVIOUS
  <2> HIDE DEF Good
  <2> QED BY <2>5, <2>6
<1>3. n \in T
  <2>1. \A k \in 1..n : k - 1 \in T => k \in T
    BY <1>2
  <2>2. n \in 0..n
    OBVIOUS
  <2> HIDE DEF T
  <2>3. \A k \in 0..n : k \in T
    BY <1>1, <2>1, CountUp, Zenon
  <2> QED BY <2>2, <2>3
<1>4. \E g \in [0..n -> S] : Good(n, g)
  BY <1>3
<1> QED BY <1>4
-----------------------------------------------------------------------------
(* The sections of a scan, the sections a file may have, and where the     *)
(* lines of a section are collected.                                       *)
Keys == Sections \cup {Unused}
Names == Sections \cup Foreign
Key(s) == IF s \in Sections THEN s ELSE Unused

Comments == {Comment("note"), Comment("description")}
Orders == {<<>>, <<"General">>, <<"Last">>, <<"General", "Last">>,
           <<"Last", "General">>}

(* What the reader and the scan of save know after a line.                 *)
ReadState == [section : Names, values : [Entries -> Values]]
ScanState ==
  [section : Keys, junk : Seq(Comments), order : Orders,
   data : [Keys -> Seq(Line)], remaining : SUBSET Entries, changed : BOOLEAN,
   open : Keys \cup {Junk, Nowhere}]

(* The three kinds of lines.                                               *)
LEMMA Lines ==
  /\ Comments \subseteq Line
  /\ \A s \in Names : Title(s) \in Line
  /\ \A n \in Entries \cup Foreign, v \in Values : Assign(n, v) \in Line
  /\ \A x \in Line :
       \/ x.kind = "section" /\ x.name \in Names
       \/ /\ x.kind = "entry" /\ x.name \in Entries \cup Foreign
          /\ x.value \in Values /\ x = Assign(x.name, x.value)
       \/ x.kind = "comment" /\ x \in Comments
  /\ \A x \in Comments : x.kind = "comment"
<1>1. Comments \subseteq Line
  BY DEF Line, Comments
<1>2. ASSUME NEW s \in Names PROVE Title(s) \in Line
  BY DEF Line, Names
<1>3. ASSUME NEW n \in Entries \cup Foreign, NEW v \in Values
      PROVE  Assign(n, v) \in Line
  BY DEF Line
<1>4. ASSUME NEW x \in Line
      PROVE  \/ x.kind = "section" /\ x.name \in Names
             \/ /\ x.kind = "entry" /\ x.name \in Entries \cup Foreign
                /\ x.value \in Values /\ x = Assign(x.name, x.value)
             \/ x.kind = "comment" /\ x \in Comments
  <2>1. CASE \E s \in Names : x = Title(s)
    BY <2>1 DEF Title
  <2>2. CASE \E n \in Entries \cup Foreign, v \in Values : x = Assign(n, v)
    BY <2>2 DEF Assign
  <2>3. CASE x \in Comments
    BY <2>3 DEF Comments, Comment
  <2> QED BY <2>1, <2>2, <2>3 DEF Line, Names, Comments
<1>5. \A x \in Comments : x.kind = "comment"
  BY DEF Comments, Comment
<1> QED BY <1>1, <1>2, <1>3, <1>4, <1>5

(* A sequence of one element and another one make a pair.                  *)
LEMMA AppendOne ==
  ASSUME NEW S, NEW a \in S, NEW b \in S
  PROVE  Append(<<a>>, b) = <<a, b>>
<1> DEFINE s == Append(<<a>>, b)
           t == <<a, b>>
<1>1. <<a>> \in Seq(S) /\ Len(<<a>>) = 1 /\ <<a>>[1] = a
  OBVIOUS
<1>2. t \in Seq(S) /\ Len(t) = 2 /\ t[1] = a /\ t[2] = b
  OBVIOUS
<1>3. s \in Seq(S) /\ Len(s) = 2 /\ s[1] = a /\ s[2] = b
  BY <1>1, AppendProperties
<1> HIDE DEF s, t
<1>4. \A i \in 1..Len(s) : s[i] = t[i]
  BY <1>2, <1>3
<1>5. s = t
  BY <1>2, <1>3, <1>4, SeqEqual
<1> QED BY <1>5 DEF s, t

(* A section that is not in the order yet comes at its end.                *)
LEMMA OrderGrows ==
  ASSUME NEW o \in Orders
  PROVE  /\ o \in Seq(Sections)
         /\ \A s \in Sections :
              ~ Contains(o, s) =>
                /\ Append(o, s) \in Orders
                /\ \A t \in Sections : Contains(Append(o, s), t) <=> Contains(o, t) \/ t = s
                /\ o # <<>> => Append(o, s)[1] = o[1]
                /\ o = <<>> => Append(o, s)[1] = s
         /\ o = <<>> => \A s \in Sections : ~ Contains(o, s)
         /\ o # <<>> => Contains(o, o[1]) /\ o[1] \in Sections
<1>0. /\ Append(<<"General">>, "Last") = <<"General", "Last">>
      /\ Append(<<"Last">>, "General") = <<"Last", "General">>
  <2>1. \A s, t \in Sections : Append(<<s>>, t) = <<s, t>>
    BY AppendOne
  <2>2. "General" \in Sections /\ "Last" \in Sections
    BY DEF Sections
  <2> QED BY <2>1, <2>2, Zenon
<1>1. CASE o = <<>>
  BY <1>1 DEF Orders, Sections, Contains
<1>2. CASE o = <<"General">>
  <2>1. Append(o, "Last") = <<"General", "Last">>
    BY <1>0, <1>2, Zenon
  <2>6. o[1] = "General" /\ o \in Seq(Sections)
    BY <1>2 DEF Sections
  <2>2. \A t \in Sections :
          /\ Contains(o, t) <=> t = "General"
          /\ Contains(<<"General", "Last">>, t)
    BY <1>2 DEF Sections, Contains
  <2>3. <<"General", "Last">>[1] = "General" /\ <<"General", "Last">> \in Orders /\ o # <<>>
    BY <1>2 DEF Orders
  <2>4. "General" \in Sections
    BY DEF Sections
  <2>5. \A t \in Sections : t # "General" => t = "Last"
    BY DEF Sections
  <2> QED BY <2>1, <2>2, <2>3, <2>4, <2>5, <2>6
<1>3. CASE o = <<"Last">>
  <2>1. Append(o, "General") = <<"Last", "General">>
    BY <1>0, <1>3, Zenon
  <2>6. o[1] = "Last" /\ o \in Seq(Sections)
    BY <1>3 DEF Sections
  <2>2. \A t \in Sections :
          /\ Contains(o, t) <=> t = "Last"
          /\ Contains(<<"Last", "General">>, t)
    BY <1>3 DEF Sections, Contains
  <2>3. <<"Last", "General">>[1] = "Last" /\ <<"Last", "General">> \in Orders /\ o # <<>>
    BY <1>3 DEF Orders
  <2>4. "Last" \in Sections
    BY DEF Sections
  <2>5. \A t \in Sections : t # "Last" => t = "General"
    BY DEF Sections
  <2> QED BY <2>1, <2>2, <2>3, <2>4, <2>5, <2>6
<1>4. CASE o = <<"General", "Last">>
  BY <1>4 DEF Orders, Sections, Contains
<1>5. CASE o = <<"Last", "General">>
  BY <1>5 DEF Orders, Sections, Contains
<1> QED BY <1>1, <1>2, <1>3, <1>4, <1>5 DEF Orders
-----------------------------------------------------------------------------
(* The section a line stands in.                                           *)

(* A set of numbers up to n has a greatest element.                        *)
LEMMA GreatestNumber ==
  ASSUME NEW n \in Nat, NEW T \in SUBSET (1..n), T # {}
  PROVE  \E x \in T : \A y \in T : y <= x
<1> DEFINE Above == {m \in Nat : m <= n /\ n - m \in T}
<1>1. Above \in SUBSET Nat /\ Above # {}
  <2>1. PICK t \in T : TRUE
    OBVIOUS
  <2>2. n - t \in Nat /\ n - t <= n /\ n - (n - t) = t
    OBVIOUS
  <2>3. n - t \in Above
    BY <2>2
  <2> QED BY <2>3
<1>2. PICK m \in Above : \A y \in Above : m <= y
  <2> HIDE DEF Above
  <2> QED BY <1>1, LeastNumber
<1>3. ASSUME NEW t \in T PROVE t <= n - m
  <2>1. n - t \in Nat /\ n - t <= n /\ n - (n - t) = t
    OBVIOUS
  <2>2. m <= n - t
    BY <1>2, <2>1
  <2> QED BY <1>2, <2>2
<1> QED BY <1>2, <1>3

(* It is the section of the last title up to the line, or none's.          *)
LEMMA SectionOfLastTitle ==
  ASSUME NEW f \in Seq(Line), NEW i \in 0..Len(f)
  PROVE  \/ /\ \A k \in 1..i : f[k].kind # "section"
            /\ SectionOf(f, i) = "General"
         \/ \E j \in 1..i : /\ f[j].kind = "section"
                           /\ \A k \in 1..i : f[k].kind = "section" => k <= j
                           /\ SectionOf(f, i) = f[j].name
<1> DEFINE titles == {j \in 1..i : f[j].kind = "section"}
<1>1. SectionOf(f, i) =
        IF titles = {} THEN "General"
        ELSE f[CHOOSE j \in titles : \A k \in titles : k <= j].name
  BY DEF SectionOf
<1>2. CASE titles = {}
  BY <1>1, <1>2
<1>3. CASE titles # {}
  <2>1. i \in Nat /\ titles \in SUBSET (1..i)
    OBVIOUS
  <2>2. \E x \in titles : \A y \in titles : y <= x
    <3> HIDE DEF titles
    <3> QED BY <1>3, <2>1, GreatestNumber
  <2> DEFINE j == CHOOSE j \in titles : \A k \in titles : k <= j
  <2>3. j \in titles /\ \A k \in titles : k <= j
    <3> HIDE DEF titles
    <3> QED BY <2>2, Zenon
  <2>4. SectionOf(f, i) = f[j].name
    BY <1>1, <1>3
  <2> HIDE DEF j
  <2> QED BY <2>3, <2>4
<1> QED BY <1>2, <1>3

(* What a further line does to it.                                         *)
LEMMA SectionOfAppend ==
  ASSUME NEW f \in Seq(Line), NEW x \in Line
  PROVE  /\ \A i \in 0..Len(f) : SectionOf(Append(f, x), i) = SectionOf(f, i)
         /\ SectionOf(Append(f, x), Len(f) + 1) =
              IF x.kind = "section" THEN x.name ELSE SectionOf(f, Len(f))
         /\ SectionOf(<<>>, 0) = "General"
         /\ SectionOf(f, Len(f)) \in Names
<1> DEFINE e == Append(f, x)
<1>1. /\ e \in Seq(Line) /\ Len(e) = Len(f) + 1 /\ Len(f) \in Nat
      /\ \A i \in 1..Len(f) : e[i] = f[i]
      /\ e[Len(f) + 1] = x
  BY AppendProperties
<1> HIDE DEF e
<1>2. ASSUME NEW i \in 0..Len(f) PROVE SectionOf(e, i) = SectionOf(f, i)
  <2>1. i \in 0..Len(e) /\ \A k \in 1..i : e[k] = f[k]
    BY <1>1
  <2>2. CASE \A k \in 1..i : f[k].kind # "section"
    BY <2>1, <2>2, <1>1, SectionOfLastTitle
  <2>3. CASE \E k \in 1..i : f[k].kind = "section"
    <3>1. PICK j \in 1..i : /\ f[j].kind = "section"
                           /\ \A k \in 1..i : f[k].kind = "section" => k <= j
                           /\ SectionOf(f, i) = f[j].name
      BY <2>3, SectionOfLastTitle
    <3>2. PICK h \in 1..i : /\ e[h].kind = "section"
                           /\ \A k \in 1..i : e[k].kind = "section" => k <= h
                           /\ SectionOf(e, i) = e[h].name
      BY <2>1, <2>3, <1>1, SectionOfLastTitle
    <3>3. j = h
      BY <2>1, <3>1, <3>2
    <3> QED BY <2>1, <3>1, <3>2, <3>3
  <2> QED BY <2>2, <2>3
<1>3. SectionOf(e, Len(f) + 1) =
        IF x.kind = "section" THEN x.name ELSE SectionOf(f, Len(f))
  <2> DEFINE n == Len(f)
  <2>1. n + 1 \in 0..Len(e) /\ n \in 0..Len(e) /\ n \in 0..n
    BY <1>1
  <2>2. SectionOf(f, n) = SectionOf(e, n)
    BY <1>2, <2>1
  <2>3. CASE x.kind = "section"
    <3>1. e[n + 1].kind = "section" /\ n + 1 \in 1..(n + 1)
      BY <1>1, <2>3
    <3>2. PICK h \in 1..(n + 1) : /\ \A k \in 1..(n + 1) : e[k].kind = "section" => k <= h
                                 /\ SectionOf(e, n + 1) = e[h].name
      BY <1>1, <2>1, <3>1, SectionOfLastTitle
    <3>3. h = n + 1
      BY <1>1, <3>1, <3>2
    <3> QED BY <1>1, <2>3, <3>2, <3>3
  <2>4. CASE x.kind # "section"
    <3>1. \A k \in 1..(n + 1) : e[k].kind = "section" => k \in 1..n
      BY <1>1, <2>4
    <3>2. 1..n \subseteq 1..(n + 1)
      BY <1>1
    <3>3. CASE \A k \in 1..n : e[k].kind # "section"
      BY <1>1, <2>1, <2>2, <2>4, <3>1, <3>3, SectionOfLastTitle
    <3>4. CASE \E k \in 1..n : e[k].kind = "section"
      <4>1. PICK j \in 1..n : /\ e[j].kind = "section"
                             /\ \A k \in 1..n : e[k].kind = "section" => k <= j
                             /\ SectionOf(e, n) = e[j].name
        BY <1>1, <2>1, <3>4, SectionOfLastTitle
      <4>2. PICK h \in 1..(n + 1) : /\ e[h].kind = "section"
                             /\ \A k \in 1..(n + 1) : e[k].kind = "section" => k <= h
                             /\ SectionOf(e, n + 1) = e[h].name
        BY <1>1, <2>1, <3>2, <3>4, SectionOfLastTitle
      <4>3. j = h
        <5>1. h \in 1..n /\ j \in 1..(n + 1)
          BY <3>1, <3>2, <4>2
        <5>2. h <= j /\ j <= h
          BY <4>1, <4>2, <5>1
        <5> QED BY <1>1, <5>2
      <4> QED BY <2>2, <2>4, <4>1, <4>2, <4>3
    <3> QED BY <3>3, <3>4
  <2> QED BY <2>3, <2>4
<1>4. SectionOf(<<>>, 0) = "General"
  BY DEF SectionOf
<1>5. SectionOf(f, Len(f)) \in Names
  <2>1. Len(f) \in 0..Len(f)
    BY <1>1
  <2>2. \A j \in 1..Len(f) : f[j].kind = "section" => f[j].name \in Names
    BY ElementOfSeq, Lines
  <2>3. "General" \in Names
    BY DEF Names, Sections
  <2> QED BY <2>1, <2>2, <2>3, SectionOfLastTitle
<1> QED BY <1>2, <1>3, <1>4, <1>5 DEF e
-----------------------------------------------------------------------------
(* What the properties look at in a file, and what a further line adds.    *)

(* The section at a file's end.                                            *)
Section(f) == SectionOf(f, Len(f))

(* The assignments to the daemon's entries.                                *)
KnownOf(f) ==
  {<<f[i].name, f[i].value>> :
     i \in {j \in 1..Len(f) : /\ f[j].kind = "entry"
                             /\ IsEntry(SectionOf(f, j), f[j].name)}}

(* The comments that stand before an assignment.                           *)
CommentedOf(f) ==
  {<<SectionOf(f, i), f[i + 1].name>> :
     i \in {j \in 1..Len(f) - 1 : /\ f[j] = Comment("note")
                                 /\ f[j + 1].kind = "entry"}}

(* A file that ends with a comment.                                        *)
Noted(f) == f # <<>> /\ f[Len(f)] = Comment("note")

(* A part of a file that has a title, and one in which no assignment       *)
(* stands before the first title.                                          *)
Titled(f) == \E i \in 1..Len(f) : f[i].kind = "section"
Tidy(f) == \A i \in 1..Len(f) :
             f[i].kind = "entry" => \E j \in 1..(i - 1) : f[j].kind = "section"

(* A title opens its section; other lines stay in the one before them.     *)
LEMMA SectionAppend ==
  /\ Section(<<>>) = "General"
  /\ \A f \in Seq(Line) :
       /\ Section(f) \in Names
       /\ \A x \in Line :
            Section(Append(f, x)) = IF x.kind = "section" THEN x.name ELSE Section(f)
<1>1. Section(<<>>) = "General"
  <2>1. Len(<<>>) = 0
    OBVIOUS
  <2>2. \E x : x \in Line
    BY Lines DEF Comments
  <2>3. <<>> \in Seq(Line)
    BY EmptySeq
  <2> QED BY <2>1, <2>2, <2>3, SectionOfAppend DEF Section
<1>2. ASSUME NEW f \in Seq(Line)
      PROVE  Section(f) \in Names
  <2>1. \E x : x \in Line
    BY Lines DEF Comments
  <2> QED BY <2>1, SectionOfAppend DEF Section
<1>3. ASSUME NEW f \in Seq(Line), NEW x \in Line
      PROVE  Section(Append(f, x)) = IF x.kind = "section" THEN x.name ELSE Section(f)
  BY SectionOfAppend, AppendProperties DEF Section
<1> QED BY <1>1, <1>2, <1>3

(* An assignment to an entry of the daemon counts where it stands.         *)
LEMMA KnownAppend ==
  /\ KnownOf(<<>>) = {}
  /\ \A f \in Seq(Line), x \in Line :
       KnownOf(Append(f, x)) =
         KnownOf(f) \cup
         IF x.kind = "entry" /\ IsEntry(Section(f), x.name)
           THEN {<<x.name, x.value>>} ELSE {}
<1>1. KnownOf(<<>>) = {}
  BY DEF KnownOf
<1>2. ASSUME NEW f \in Seq(Line), NEW x \in Line
      PROVE  KnownOf(Append(f, x)) =
               KnownOf(f) \cup
               IF x.kind = "entry" /\ IsEntry(Section(f), x.name)
                 THEN {<<x.name, x.value>>} ELSE {}
  <2> DEFINE e == Append(f, x)
             n == Len(f)
             At(g, j) == g[j].kind = "entry" /\ IsEntry(SectionOf(g, j), g[j].name)
  <2>1. /\ Len(e) = n + 1 /\ n \in Nat /\ e[n + 1] = x
        /\ \A i \in 1..n : e[i] = f[i]
    BY AppendProperties
  <2>2. /\ \A i \in 1..n : SectionOf(e, i) = SectionOf(f, i)
        /\ x.kind = "entry" => SectionOf(e, n + 1) = Section(f)
    BY SectionOfAppend, <2>1 DEF Section
  <2> HIDE DEF e
  <2>3. \A i \in 1..n : At(e, i) <=> At(f, i)
    BY <2>1, <2>2
  <2>4. At(e, n + 1) <=> x.kind = "entry" /\ IsEntry(Section(f), x.name)
    BY <2>1, <2>2
  <2>5. \A y : y \in KnownOf(e) <=>
               \E i \in 1..(n + 1) : At(e, i) /\ y = <<e[i].name, e[i].value>>
    BY <2>1 DEF KnownOf
  <2>6. \A y : y \in KnownOf(f) <=>
               \E i \in 1..n : At(f, i) /\ y = <<f[i].name, f[i].value>>
    BY DEF KnownOf
  <2> HIDE DEF At
  <2>7. \A y : y \in KnownOf(e) <=>
               \/ y \in KnownOf(f)
               \/ At(e, n + 1) /\ y = <<x.name, x.value>>
    <3> TAKE y
    <3>1. ASSUME y \in KnownOf(e)
          PROVE  y \in KnownOf(f) \/ (At(e, n + 1) /\ y = <<x.name, x.value>>)
      <4>1. PICK i \in 1..(n + 1) : At(e, i) /\ y = <<e[i].name, e[i].value>>
        BY <2>5, <3>1
      <4>2. CASE i = n + 1
        BY <2>1, <4>1, <4>2
      <4>3. CASE i \in 1..n
        BY <2>1, <2>3, <2>6, <4>1, <4>3
      <4> QED BY <2>1, <4>2, <4>3
    <3>2. ASSUME y \in KnownOf(f) PROVE y \in KnownOf(e)
      <4>1. PICK i \in 1..n : At(f, i) /\ y = <<f[i].name, f[i].value>>
        BY <2>6, <3>2
      <4>2. i \in 1..(n + 1) /\ At(e, i) /\ y = <<e[i].name, e[i].value>>
        BY <2>1, <2>3, <4>1
      <4> QED BY <2>5, <4>2
    <3>3. ASSUME At(e, n + 1), y = <<x.name, x.value>> PROVE y \in KnownOf(e)
      <4>1. n + 1 \in 1..(n + 1)
        BY <2>1
      <4> QED BY <2>1, <2>5, <3>3, <4>1
    <3> QED BY <3>1, <3>2, <3>3
  <2> QED BY <2>4, <2>7, Zenon DEF e
<1> QED BY <1>1, <1>2

(* An assignment behind a comment is a commented one.                      *)
LEMMA CommentedAppend ==
  /\ CommentedOf(<<>>) = {}
  /\ \A f \in Seq(Line), x \in Line :
       CommentedOf(Append(f, x)) =
         CommentedOf(f) \cup
         IF x.kind = "entry" /\ Noted(f) THEN {<<Section(f), x.name>>} ELSE {}
<1>1. CommentedOf(<<>>) = {}
  BY DEF CommentedOf
<1>2. ASSUME NEW f \in Seq(Line), NEW x \in Line
      PROVE  CommentedOf(Append(f, x)) =
               CommentedOf(f) \cup
               IF x.kind = "entry" /\ Noted(f) THEN {<<Section(f), x.name>>} ELSE {}
  <2> DEFINE e == Append(f, x)
             n == Len(f)
             At(g, j) == g[j] = Comment("note") /\ g[j + 1].kind = "entry"
  <2>1. /\ Len(e) = n + 1 /\ n \in Nat /\ e[n + 1] = x
        /\ \A i \in 1..n : e[i] = f[i]
        /\ f # <<>> <=> n \in 1..n
    BY AppendProperties, LenProperties
  <2>2. \A i \in 1..n : SectionOf(e, i) = SectionOf(f, i)
    BY SectionOfAppend, <2>1
  <2> HIDE DEF e
  <2>3. \A i \in 1..(n - 1) :
          /\ i \in 1..n /\ i + 1 \in 1..n
          /\ At(e, i) <=> At(f, i)
          /\ e[i + 1] = f[i + 1]
    BY <2>1
  <2>4. \A y : y \in CommentedOf(e) <=>
               \E i \in 1..n : At(e, i) /\ y = <<SectionOf(e, i), e[i + 1].name>>
    BY <2>1 DEF CommentedOf
  <2>5. \A y : y \in CommentedOf(f) <=>
               \E i \in 1..(n - 1) : At(f, i) /\ y = <<SectionOf(f, i), f[i + 1].name>>
    BY DEF CommentedOf
  <2>6. n \in 1..n => (At(e, n) <=> x.kind = "entry" /\ Noted(f))
    BY <2>1 DEF Noted
  <2> HIDE DEF At
  <2>7. \A y : y \in CommentedOf(e) <=>
               \/ y \in CommentedOf(f)
               \/ x.kind = "entry" /\ Noted(f) /\ y = <<Section(f), x.name>>
    <3> TAKE y
    <3>1. ASSUME y \in CommentedOf(e)
          PROVE  \/ y \in CommentedOf(f)
                 \/ x.kind = "entry" /\ Noted(f) /\ y = <<Section(f), x.name>>
      <4>1. PICK i \in 1..n : At(e, i) /\ y = <<SectionOf(e, i), e[i + 1].name>>
        BY <2>4, <3>1
      <4>2. CASE i = n
        BY <2>1, <2>2, <2>6, <4>1, <4>2 DEF Section
      <4>3. CASE i \in 1..(n - 1)
        BY <2>2, <2>3, <2>5, <4>1, <4>3
      <4> QED BY <2>1, <4>2, <4>3
    <3>2. ASSUME y \in CommentedOf(f) PROVE y \in CommentedOf(e)
      <4>1. PICK i \in 1..(n - 1) : At(f, i) /\ y = <<SectionOf(f, i), f[i + 1].name>>
        BY <2>5, <3>2
      <4> QED BY <2>2, <2>3, <2>4, <4>1
    <3>3. ASSUME x.kind = "entry", Noted(f), y = <<Section(f), x.name>>
          PROVE  y \in CommentedOf(e)
      <4>1. n \in 1..n
        BY <2>1, <3>3 DEF Noted
      <4>2. At(e, n) /\ y = <<SectionOf(e, n), e[n + 1].name>>
        BY <2>1, <2>2, <2>6, <3>3, <4>1 DEF Section
      <4> QED BY <2>4, <4>1, <4>2
    <3> QED BY <3>1, <3>2, <3>3
  <2> QED BY <2>7, Zenon DEF e
<1> QED BY <1>1, <1>2

(* Titles, and assignments before any, come line by line.                  *)
LEMMA TitlesAppend ==
  /\ ~ Titled(<<>>) /\ Tidy(<<>>) /\ ~ Noted(<<>>)
  /\ \A f \in Seq(Line), x \in Line :
       /\ Titled(Append(f, x)) <=> Titled(f) \/ x.kind = "section"
       /\ Tidy(Append(f, x)) <=> Tidy(f) /\ (x.kind = "entry" => Titled(f))
       /\ Noted(Append(f, x)) <=> x = Comment("note")
       /\ Append(f, x) \in Seq(Line) /\ Append(f, x) # <<>>
<1>1. ~ Titled(<<>>) /\ Tidy(<<>>) /\ ~ Noted(<<>>)
  BY DEF Titled, Tidy, Noted
<1>2. ASSUME NEW f \in Seq(Line), NEW x \in Line
      PROVE  /\ Titled(Append(f, x)) <=> Titled(f) \/ x.kind = "section"
             /\ Tidy(Append(f, x)) <=> Tidy(f) /\ (x.kind = "entry" => Titled(f))
             /\ Noted(Append(f, x)) <=> x = Comment("note")
             /\ Append(f, x) \in Seq(Line) /\ Append(f, x) # <<>>
  <2> DEFINE e == Append(f, x)
             n == Len(f)
  <2>1. /\ Len(e) = n + 1 /\ n \in Nat /\ e[n + 1] = x
        /\ \A i \in 1..n : e[i] = f[i]
        /\ e \in Seq(Line) /\ e # <<>>
    BY AppendProperties
  <2> HIDE DEF e
  <2>2. Titled(e) <=> Titled(f) \/ x.kind = "section"
    BY <2>1 DEF Titled
  <2>3. Tidy(e) <=> Tidy(f) /\ (x.kind = "entry" => Titled(f))
    <3>1. \A i \in 1..n : 1..(i - 1) \subseteq 1..n /\ i \in 1..(n + 1)
      BY <2>1
    <3>2. \A i \in 1..n :
            (\E j \in 1..(i - 1) : e[j].kind = "section") <=>
            (\E j \in 1..(i - 1) : f[j].kind = "section")
      BY <2>1, <3>1
    <3>3. (\E j \in 1..(n + 1 - 1) : e[j].kind = "section") <=> Titled(f)
      BY <2>1 DEF Titled
    <3>4. \A i \in 1..(n + 1) : i \in 1..n \/ i = n + 1
      BY <2>1
    <3>5. n + 1 \in 1..(n + 1)
      BY <2>1
    <3>6. Tidy(e) <=> /\ \A i \in 1..n : e[i].kind = "entry" =>
                              \E j \in 1..(i - 1) : e[j].kind = "section"
                      /\ e[n + 1].kind = "entry" =>
                              \E j \in 1..(n + 1 - 1) : e[j].kind = "section"
      <4> DEFINE B(i) == e[i].kind = "entry" =>
                           \E j \in 1..(i - 1) : e[j].kind = "section"
      <4>1. Tidy(e) <=> \A i \in 1..(n + 1) : B(i)
        BY <2>1 DEF Tidy
      <4> HIDE DEF B
      <4>2. Tidy(e) <=> (\A i \in 1..n : B(i)) /\ B(n + 1)
        BY <3>1, <3>4, <3>5, <4>1
      <4> QED BY <4>2 DEF B
    <3>7. (\A i \in 1..n : e[i].kind = "entry" =>
             \E j \in 1..(i - 1) : e[j].kind = "section") <=> Tidy(f)
      BY <2>1, <3>2, Zenon DEF Tidy
    <3> QED BY <2>1, <3>3, <3>6, <3>7
  <2>4. Noted(e) <=> x = Comment("note")
    BY <2>1 DEF Noted
  <2> QED BY <2>1, <2>2, <2>3, <2>4 DEF e
<1> QED BY <1>1, <1>2
(* The assignments of others in a file, line by line.                      *)
LEMMA ForeignByLine ==
  ASSUME NEW f \in Seq(Line), NEW s
  PROVE  \E g \in [0..Len(f) -> Seq(Line)] :
           /\ ForeignOf(f, s) = g[Len(f)]
           /\ g[0] = <<>>
           /\ \A i \in 1..Len(f) :
                g[i] = IF IsForeign(f, s, i)
                         THEN Append(g[i - 1], f[i]) ELSE g[i - 1]
<1> DEFINE n == Len(f)
           Is(h) == h = [i \in 0..n |->
                          IF i = 0 THEN <<>>
                          ELSE IF IsForeign(f, s, i) THEN Append(h[i - 1], f[i])
                                                     ELSE h[i - 1]]
           step == [i \in 1..n |-> [t \in Seq(Line) |->
                      IF IsForeign(f, s, i) THEN Append(t, f[i]) ELSE t]]
<1>1. n \in Nat /\ <<>> \in Seq(Line) /\ \A i \in 1..n : f[i] \in Line
  BY EmptySeq, ElementOfSeq, LenProperties
<1>2. step \in [1..n -> [Seq(Line) -> Seq(Line)]]
  <2>1. ASSUME NEW i \in 1..n, NEW t \in Seq(Line)
        PROVE  (IF IsForeign(f, s, i) THEN Append(t, f[i]) ELSE t) \in Seq(Line)
    <3> QED BY <1>1, AppendProperties
  <2> QED BY <2>1
<1>3. PICK g \in [0..n -> Seq(Line)] :
        g[0] = <<>> /\ \A i \in 1..n : g[i] = step[i][g[i - 1]]
  <2> DEFINE L == Seq(Line)
             none == <<>>
  <2>1. none \in L /\ n \in Nat /\ step \in [1..n -> [L -> L]]
    BY <1>1, <1>2
  <2> HIDE DEF step, n, L, none
  <2>2. \E g \in [0..n -> L] : g[0] = none /\ \A i \in 1..n : g[i] = step[i][g[i - 1]]
    BY <2>1, RecursionExists
  <2> QED BY <2>2 DEF L, none
<1>4. ASSUME NEW i \in 1..n
      PROVE  g[i] = IF IsForeign(f, s, i) THEN Append(g[i - 1], f[i]) ELSE g[i - 1]
  <2>1. g[i - 1] \in Seq(Line)
    BY <1>1
  <2> QED BY <1>3, <2>1
<1>5. Is(g)
  <2>1. g = [i \in 0..n |-> g[i]]
    OBVIOUS
  <2>2. ASSUME NEW i \in 0..n
        PROVE  g[i] = IF i = 0 THEN <<>>
                      ELSE IF IsForeign(f, s, i) THEN Append(g[i - 1], f[i])
                                                 ELSE g[i - 1]
    <3>1. i = 0 \/ (i > 0 /\ i # 0 /\ i \in 1..n)
      BY <1>1
    <3>2. CASE i = 0
      BY <1>3, <3>2
    <3>3. CASE i > 0 /\ i # 0 /\ i \in 1..n
      BY <1>4, <3>3
    <3> QED BY <3>1, <3>2, <3>3
  <2> QED BY <2>1, <2>2, Zenon
<1>6. PICK h : Is(h) /\ ForeignOf(f, s) = h[n]
  <2>1. ForeignOf(f, s) = (CHOOSE h : Is(h))[n]
    BY DEF ForeignOf
  <2> HIDE DEF Is
  <2> QED BY <1>5, <2>1
<1>7. h = g
  <2> DEFINE T == {i \in 0..n : h[i] = g[i]}
  <2>1. 0 \in T
    BY <1>1, <1>3, <1>6
  <2>2. ASSUME NEW i \in 1..n, i - 1 \in T PROVE i \in T
    <3>1. h[i - 1] = g[i - 1] /\ i \in 0..n /\ i > 0 /\ i # 0
      BY <1>1, <2>2
    <3>2. h[i] = IF IsForeign(f, s, i) THEN Append(h[i - 1], f[i]) ELSE h[i - 1]
      BY <1>6, <3>1
    <3> QED BY <1>4, <3>1, <3>2
  <2>3. \A i \in 0..n : i \in T
    <3> HIDE DEF T
    <3> QED BY <1>1, <2>1, <2>2, CountUp
  <2>4. \A i \in 0..n : h[i] = g[i]
    BY <2>3
  <2>5. h = [i \in 0..n |-> h[i]]
    BY <1>6
  <2> QED BY <2>4, <2>5
<1> QED BY <1>3, <1>4, <1>6, <1>7
(* An assignment of another adds itself to those of its section.           *)
LEMMA ForeignAppend ==
  ASSUME NEW s
  PROVE  /\ ForeignOf(<<>>, s) = <<>>
         /\ \A f \in Seq(Line) : ForeignOf(f, s) \in Seq(Line)
         /\ \A f \in Seq(Line), x \in Line :
              ForeignOf(Append(f, x), s) =
                IF x.kind = "entry" /\ Section(f) = s /\ ~IsEntry(s, x.name)
                  THEN Append(ForeignOf(f, s), x) ELSE ForeignOf(f, s)
<1>1. ForeignOf(<<>>, s) = <<>>
  <2> DEFINE none == <<>>
  <2>1. none \in Seq(Line) /\ Len(none) = 0
    BY EmptySeq
  <2> HIDE DEF none
  <2>2. PICK g \in [0..Len(none) -> Seq(Line)] :
          ForeignOf(none, s) = g[Len(none)] /\ g[0] = <<>>
    BY <2>1, ForeignByLine
  <2> QED BY <2>1, <2>2 DEF none
<1>2. ASSUME NEW f \in Seq(Line) PROVE ForeignOf(f, s) \in Seq(Line)
  <2>1. Len(f) \in 0..Len(f)
    BY LenProperties
  <2> QED BY <2>1, ForeignByLine
<1>3. ASSUME NEW f \in Seq(Line), NEW x \in Line
      PROVE  ForeignOf(Append(f, x), s) =
               IF x.kind = "entry" /\ Section(f) = s /\ ~IsEntry(s, x.name)
                 THEN Append(ForeignOf(f, s), x) ELSE ForeignOf(f, s)
  <2> DEFINE e == Append(f, x)
             n == Len(f)
  <2>1. /\ e \in Seq(Line) /\ Len(e) = n + 1 /\ n \in Nat /\ e[n + 1] = x
        /\ \A i \in 1..n : e[i] = f[i]
    BY AppendProperties
  <2>2. /\ \A i \in 0..n : SectionOf(e, i) = SectionOf(f, i)
        /\ x.kind = "entry" => SectionOf(e, n + 1) = Section(f)
    BY SectionOfAppend DEF Section
  <2> HIDE DEF e
  <2>3. PICK g \in [0..n -> Seq(Line)] :
                 /\ ForeignOf(f, s) = g[n] /\ g[0] = <<>>
                 /\ \A i \in 1..n :
                      g[i] = IF IsForeign(f, s, i) THEN Append(g[i - 1], f[i]) ELSE g[i - 1]
    BY ForeignByLine
  <2>4. PICK h \in [0..Len(e) -> Seq(Line)] :
                 /\ ForeignOf(e, s) = h[Len(e)] /\ h[0] = <<>>
                 /\ \A i \in 1..Len(e) :
                      h[i] = IF IsForeign(e, s, i) THEN Append(h[i - 1], e[i]) ELSE h[i - 1]
    <3>1. e \in Seq(Line)
      BY <2>1
    <3> QED BY <3>1, ForeignByLine, Zenon
  <2>5. \A i \in 1..n : i \in 1..Len(e) /\ (IsForeign(e, s, i) <=> IsForeign(f, s, i)) /\ e[i] = f[i]
    BY <2>1, <2>2 DEF IsForeign
  <2>6. IsForeign(e, s, n + 1) <=> x.kind = "entry" /\ Section(f) = s /\ ~IsEntry(s, x.name)
    BY <2>1, <2>2 DEF IsForeign
  <2>7. h[n] = g[n]
    <3> DEFINE T == {i \in 0..n : h[i] = g[i]}
    <3>1. 0 \in T
      BY <2>1, <2>3, <2>4
    <3>2. \A i \in 1..n : i - 1 \in T => i \in T
      BY <2>3, <2>4, <2>5
    <3> HIDE DEF T
    <3>3. \A i \in 0..n : i \in T
      BY <2>1, <3>1, <3>2, CountUp
    <3> QED BY <2>1, <3>3 DEF T
  <2>8. n + 1 \in 1..Len(e) /\ n + 1 - 1 = n
    BY <2>1
  <2>9. h[n + 1] = IF IsForeign(e, s, n + 1) THEN Append(h[n], x) ELSE h[n]
    BY <2>1, <2>4, <2>8
  <2> QED BY <2>1, <2>3, <2>4, <2>6, <2>7, <2>9 DEF e
<1> QED BY <1>1, <1>2, <1>3

-----------------------------------------------------------------------------
(* Reading a file.                                                         *)

(* A line leaves a state of the reader.                                    *)
LEMMA LoadLineType ==
  ASSUME NEW r \in ReadState, NEW x \in Line
  PROVE  LoadLine(r, x) \in ReadState
<1>1. CASE x.kind = "section"
  BY <1>1, Lines DEF LoadLine, ReadState
<1>2. CASE x.kind = "entry"
  BY <1>2, Lines DEF LoadLine, ReadState, IsEntry
<1>3. CASE x.kind = "comment"
  BY <1>3 DEF LoadLine
<1> QED BY <1>1, <1>2, <1>3, Lines

(* The reader starts without values.                                       *)
Unread == [section |-> "General", values |-> Defaults]

(* The states of the reader, line by line.                                 *)
LEMMA ReadByLine ==
  ASSUME NEW f \in Seq(Line)
  PROVE  /\ Reads(f) \in [0..Len(f) -> ReadState]
         /\ Reads(f)[0] = Unread
         /\ \A i \in 1..Len(f) : Reads(f)[i] = LoadLine(Reads(f)[i - 1], f[i])
<1> DEFINE n == Len(f)
           Is(h) == h = [i \in 0..n |->
                          IF i = 0 THEN [section |-> "General", values |-> Defaults]
                                   ELSE LoadLine(h[i - 1], f[i])]
           step == [i \in 1..n |-> [r \in ReadState |-> LoadLine(r, f[i])]]
<1>1. n \in Nat /\ Unread \in ReadState /\ \A i \in 1..n : f[i] \in Line
  <2>1. "General" \in Names /\ Defaults \in [Entries -> Values]
    BY DefaultAssumption DEF Names, Sections, Defaults
  <2> QED BY <2>1, ElementOfSeq, LenProperties DEF Unread, ReadState
<1>2. step \in [1..n -> [ReadState -> ReadState]]
  <2>1. ASSUME NEW i \in 1..n, NEW r \in ReadState
        PROVE  LoadLine(r, f[i]) \in ReadState
    BY <1>1, LoadLineType
  <2> QED BY <2>1
<1>3. PICK g \in [0..n -> ReadState] :
        g[0] = Unread /\ \A i \in 1..n : g[i] = step[i][g[i - 1]]
  <2> DEFINE L == ReadState
  <2>1. Unread \in L /\ n \in Nat /\ step \in [1..n -> [L -> L]]
    BY <1>1, <1>2
  <2> HIDE DEF step, n, L
  <2>2. \E g \in [0..n -> L] : g[0] = Unread /\ \A i \in 1..n : g[i] = step[i][g[i - 1]]
    BY <2>1, RecursionExists
  <2> QED BY <2>2 DEF L
<1>4. ASSUME NEW i \in 1..n
      PROVE  g[i] = LoadLine(g[i - 1], f[i])
  <2>1. g[i - 1] \in ReadState
    BY <1>1
  <2> QED BY <1>3, <2>1
<1>5. Is(g)
  <2>1. g = [i \in 0..n |-> g[i]]
    OBVIOUS
  <2>2. ASSUME NEW i \in 0..n
        PROVE  g[i] = IF i = 0 THEN [section |-> "General", values |-> Defaults]
                               ELSE LoadLine(g[i - 1], f[i])
    <3>1. i = 0 \/ (i # 0 /\ i \in 1..n)
      BY <1>1
    <3> QED BY <1>3, <1>4, <3>1 DEF Unread
  <2> QED BY <2>1, <2>2, Zenon
<1>6. Is(Reads(f))
  <2>1. Reads(f) = (CHOOSE h : Is(h))
    BY DEF Reads
  <2> HIDE DEF Is
  <2> QED BY <1>5, <2>1
<1> DEFINE R == Reads(f)
<1>7. R[0] = Unread
  BY <1>1, <1>6 DEF Unread
<1>8. ASSUME NEW i \in 1..n PROVE R[i] = LoadLine(R[i - 1], f[i])
  <2>1. i \in 0..n /\ i # 0
    BY <1>1
  <2> QED BY <1>6, <2>1
<1>9. R \in [0..n -> ReadState]
  <2> DEFINE T == {i \in 0..n : R[i] \in ReadState}
  <2>1. 0 \in T
    BY <1>1, <1>7
  <2>2. \A i \in 1..n : i - 1 \in T => i \in T
    BY <1>1, <1>8, LoadLineType
  <2>3. \A i \in 0..n : i \in T
    <3> HIDE DEF T
    <3> QED BY <1>1, <2>1, <2>2, CountUp
  <2>4. \A i \in 0..n : R[i] \in ReadState
    BY <2>3
  <2>5. R = [i \in 0..n |-> R[i]]
    BY <1>6
  <2> HIDE DEF R
  <2> QED BY <2>4, <2>5
<1> QED BY <1>7, <1>8, <1>9
(* What is read of a whole file, and what a further line does to it.       *)
Reading(f) == Reads(f)[Len(f)]

(* What the reader knows of the empty file, and after one line more.       *)
LEMMA ReadAppend ==
  /\ Reading(<<>>) = Unread
  /\ \A f \in Seq(Line) : Reading(f) \in ReadState /\ Load(f) = Reading(f).values
  /\ \A f \in Seq(Line), x \in Line : Reading(Append(f, x)) = LoadLine(Reading(f), x)
<1>1. Reading(<<>>) = Unread
  <2> DEFINE none == <<>>
  <2>1. none \in Seq(Line) /\ Len(none) = 0
    BY EmptySeq
  <2> HIDE DEF none
  <2>2. Reading(none) = Unread
    BY <2>1, ReadByLine DEF Reading
  <2> QED BY <2>2 DEF none
<1>2. ASSUME NEW f \in Seq(Line)
      PROVE  Reading(f) \in ReadState /\ Load(f) = Reading(f).values
  <2>1. Len(f) \in 0..Len(f)
    BY LenProperties
  <2> QED BY <2>1, ReadByLine DEF Reading, Load
<1>3. ASSUME NEW f \in Seq(Line), NEW x \in Line
      PROVE  Reading(Append(f, x)) = LoadLine(Reading(f), x)
  <2> DEFINE e == Append(f, x)
             n == Len(f)
             g == Reads(f)
             h == Reads(e)
  <2>1. /\ e \in Seq(Line) /\ Len(e) = n + 1 /\ n \in Nat /\ e[n + 1] = x
        /\ \A i \in 1..n : e[i] = f[i]
    BY AppendProperties
  <2> HIDE DEF e
  <2>2. g[0] = Unread /\ \A i \in 1..n : g[i] = LoadLine(g[i - 1], f[i])
    BY ReadByLine
  <2>3. h[0] = Unread /\ \A i \in 1..Len(e) : h[i] = LoadLine(h[i - 1], e[i])
    BY <2>1, ReadByLine
  <2> HIDE DEF g, h
  <2>4. h[n] = g[n]
    <3> DEFINE T == {i \in 0..n : h[i] = g[i]}
    <3>1. 0 \in T
      BY <2>1, <2>2, <2>3
    <3>2. \A i \in 1..n : i - 1 \in T => i \in T
      BY <2>1, <2>2, <2>3
    <3> HIDE DEF T
    <3>3. \A i \in 0..n : i \in T
      BY <2>1, <3>1, <3>2, CountUp
    <3> QED BY <2>1, <3>3 DEF T
  <2>5. n + 1 \in 1..Len(e) /\ n + 1 - 1 = n
    BY <2>1
  <2>6. h[n + 1] = LoadLine(h[n], x)
    BY <2>1, <2>3, <2>5
  <2> QED BY <2>1, <2>4, <2>6 DEF e, g, h, Reading
<1> QED BY <1>1, <1>2, <1>3

(* A file whose assignments to the daemon's entries all give the values v, *)
(* and that has one for each value that is not the default, loads as v.    *)
Gives(f, v) ==
  /\ \A n \in Entries, y \in Values : <<n, y>> \in KnownOf(f) => y = v[n]
  /\ \A n \in Entries : v[n] # Default => <<n, v[n]>> \in KnownOf(f)

(* A file whose assignments all agree with the values v, and that has one  *)
(* for each entry with a value, is loaded as v.                            *)
LEMMA LoadedAs ==
  ASSUME NEW f \in Seq(Line), NEW v \in [Entries -> Values], Gives(f, v)
  PROVE  Load(f) = v
<1> DEFINE Right(g, r) ==
             /\ r.section = Section(g)
             /\ \A n \in Entries :
                  \/ <<n, r.values[n]>> \in KnownOf(g)
                  \/ /\ r.values[n] = Default
                     /\ \A y \in Values : <<n, y>> \notin KnownOf(g)
           T == {g \in Seq(Line) : Right(g, Reading(g))}
<1>1. <<>> \in T
  <2>1. Reading(<<>>) = Unread /\ Section(<<>>) = "General" /\ KnownOf(<<>>) = {}
    BY ReadAppend, SectionAppend, KnownAppend
  <2>2. Unread.section = "General" /\ \A n \in Entries : Unread.values[n] = Default
    BY DEF Unread, Defaults
  <2>3. Right(<<>>, Reading(<<>>))
    BY <2>1, <2>2
  <2>4. <<>> \in Seq(Line)
    BY EmptySeq
  <2> QED BY <2>3, <2>4
<1>2. ASSUME NEW g \in Seq(Line), NEW x \in Line, g \in T
      PROVE  Append(g, x) \in T
  <2> DEFINE e == Append(g, x)
             r == Reading(g)
             q == Reading(e)
  <2>1. /\ Right(g, r) /\ r \in ReadState /\ q = LoadLine(r, x)
        /\ Section(e) = IF x.kind = "section" THEN x.name ELSE Section(g)
        /\ KnownOf(e) = KnownOf(g) \cup
             IF x.kind = "entry" /\ IsEntry(Section(g), x.name)
               THEN {<<x.name, x.value>>} ELSE {}
    BY <1>2, ReadAppend, SectionAppend, KnownAppend
  <2>2. e \in Seq(Line)
    BY AppendProperties
  <2> HIDE DEF e, r, q
  <2>3. CASE x.kind = "entry" /\ IsEntry(Section(g), x.name)
    <3>1. /\ q.section = r.section /\ x.name \in Entries
          /\ q.values = [r.values EXCEPT ![x.name] = x.value]
      BY <2>1, <2>3 DEF LoadLine, ReadState, IsEntry
    <3>2. \A n \in Entries : q.values[n] = IF n = x.name THEN x.value ELSE r.values[n]
      BY <2>1, <3>1 DEF ReadState
    <3>3. Section(e) = Section(g) /\ KnownOf(e) = KnownOf(g) \cup {<<x.name, x.value>>}
      BY <2>1, <2>3
    <3>4. Right(e, q)
      BY <2>1, <3>1, <3>2, <3>3
    <3> QED BY <2>2, <3>4 DEF e, q
  <2>4. CASE ~ (x.kind = "entry" /\ IsEntry(Section(g), x.name))
    <3>1. q.values = r.values /\ KnownOf(e) = KnownOf(g)
      BY <2>1, <2>4 DEF LoadLine, ReadState
    <3>2. q.section = Section(e)
      BY <2>1, <2>4 DEF LoadLine, ReadState
    <3>3. Right(e, q)
      BY <2>1, <3>1, <3>2
    <3> QED BY <2>2, <3>3 DEF e, q
  <2> QED BY <2>3, <2>4
<1>3. f \in T
  <2>1. \A g \in Seq(Line), x \in Line : g \in T => Append(g, x) \in T
    BY <1>2
  <2> HIDE DEF T
  <2> QED BY <1>1, <2>1, FilesByLine, Zenon
<1>4. Right(f, Reading(f)) /\ Reading(f) \in ReadState /\ Load(f) = Reading(f).values
  BY <1>3, ReadAppend
<1>5. Load(f) \in [Entries -> Values]
  BY <1>4 DEF ReadState
<1>6. ASSUME NEW n \in Entries PROVE Load(f)[n] = v[n]
  BY <1>4, <1>5 DEF Gives
<1> QED BY <1>5, <1>6
-----------------------------------------------------------------------------
(* The scan of save.                                                       *)

(* The scan w is what the scan c becomes when the line x is written.       *)
Wrote(c, x, w) ==
  /\ w \in ScanState
  /\ w.section = c.section /\ w.junk = <<>>
  /\ w.remaining = c.remaining /\ w.changed = c.changed /\ w.open = c.open
  /\ w.data[c.section] = c.data[c.section] \o c.junk \o <<x>>
  /\ \A k \in Keys : k # c.section => w.data[k] = c.data[k]
  /\ w.order = IF c.section = Unused \/ Contains(c.order, c.section)
                 THEN c.order ELSE Append(c.order, c.section)

(* WriteSectionData writes a line.                                         *)
LEMMA WriteEffect ==
  ASSUME NEW c \in ScanState, NEW x \in Line
  PROVE  Wrote(c, x, WriteSectionData(c, x))
<1> DEFINE w == WriteSectionData(c, x)
<1> DEFINE s == c.section
           d == c.data[s] \o c.junk \o <<x>>
           o == IF s = Unused \/ Contains(c.order, s) THEN c.order ELSE Append(c.order, s)
<1>1. /\ s \in Keys /\ c.junk \in Seq(Line) /\ c.order \in Orders
      /\ c.data \in [Keys -> Seq(Line)] /\ c.data[s] \in Seq(Line)
      /\ c.remaining \in SUBSET Entries /\ c.changed \in BOOLEAN
  <2>1. Seq(Comments) \subseteq Seq(Line)
    BY Lines, SeqMonotonic
  <2> QED BY <2>1 DEF ScanState
<1>2. d \in Seq(Line)
  <2>1. <<x>> \in Seq(Line)
    OBVIOUS
  <2> QED BY <1>1, <2>1, ConcatProperties
<1>3. o \in Orders
  <2>1. s # Unused => s \in Sections
    BY <1>1 DEF Keys
  <2> QED BY <1>1, <2>1, OrderGrows
<1>4. w = [c EXCEPT !.order = o, !.data[s] = d, !.junk = <<>>]
  BY DEF WriteSectionData
<1>5. <<>> \in Seq(Comments)
  BY EmptySeq
<1> HIDE DEF s, d, o, w
<1>6. [c.data EXCEPT ![s] = d] \in [Keys -> Seq(Line)]
  BY <1>1, <1>2
<1>7. /\ w.section = c.section /\ w.junk = <<>> /\ w.order = o
      /\ w.remaining = c.remaining /\ w.changed = c.changed /\ w.open = c.open
      /\ w.data = [c.data EXCEPT ![s] = d]
  BY <1>4 DEF ScanState
<1>8. w \in ScanState
  BY <1>1, <1>3, <1>4, <1>5, <1>6 DEF ScanState
<1>9. w.data[s] = d /\ \A k \in Keys : k # s => w.data[k] = c.data[k]
  BY <1>1, <1>7
<1> QED BY <1>7, <1>8, <1>9 DEF s, d, o, w, Wrote

(* Every step of the scan leaves a state of the scan.                      *)
LEMMA ScanLineType ==
  ASSUME NEW c \in ScanState, NEW x \in Line, NEW v \in [Entries -> Values]
  PROVE  ScanLine(c, x, v) \in ScanState
<1>1. CASE x.kind = "comment"
  <2>1. x \in Comments
    BY <1>1, Lines
  <2>2. Append(c.junk, x) \in Seq(Comments)
    BY <2>1, AppendProperties DEF ScanState
  <2>3. ScanLine(c, x, v) = [c EXCEPT !.junk = Append(c.junk, x)]
    BY <1>1 DEF ScanLine, CollectJunk
  <2> QED BY <2>2, <2>3 DEF ScanState
<1>2. CASE x.kind = "section"
  <2>1. ScanLine(c, x, v) = SaveTitle(c, x)
    BY <1>2 DEF ScanLine
  <2>2. CASE x.name \in Sections
    <3>1. [c EXCEPT !.section = x.name] \in ScanState
      BY <2>2 DEF ScanState, Keys
    <3> QED BY <2>1, <2>2, <3>1, WriteEffect DEF Wrote, SaveTitle
  <2>3. CASE x.name \notin Sections
    <3>1. [c EXCEPT !.section = Unused] \in ScanState
      BY DEF ScanState, Keys
    <3> QED BY <2>1, <2>3, <3>1, WriteEffect DEF Wrote, SaveTitle
  <2> QED BY <2>2, <2>3
<1>3. CASE x.kind = "entry" /\ IsEntry(c.section, x.name)
  <2>1. ScanLine(c, x, v) = SaveEntry(c, x, v)
    BY <1>3 DEF ScanLine
  <2> DEFINE in == [c EXCEPT !.changed = @ \/ x.value # v[x.name],
                             !.remaining = @ \ {x.name}]
             y == Assign(x.name, v[x.name])
  <2>2. in \in ScanState
    BY DEF ScanState
  <2>3. y \in Line
    BY <1>3, Lines DEF IsEntry
  <2>4. SaveEntry(c, x, v) = WriteSectionData(in, y)
    BY DEF SaveEntry
  <2> HIDE DEF in, y
  <2>5. WriteSectionData(in, y) \in ScanState
    BY <2>2, <2>3, WriteEffect DEF Wrote
  <2> QED BY <2>1, <2>4, <2>5
<1>4. CASE x.kind = "entry" /\ ~ IsEntry(c.section, x.name)
  BY <1>4, WriteEffect DEF Wrote, ScanLine, SaveForeign
<1> QED BY <1>1, <1>2, <1>3, <1>4, Lines

(* The scan that save begins with.                                         *)
LEMMA ScanInitType ==
  ASSUME NEW v \in [Entries -> Values]
  PROVE  Scan(v) \in ScanState
<1>1. "General" \in Keys /\ <<>> \in Seq(Comments) /\ <<>> \in Orders /\ FALSE \in BOOLEAN
  BY EmptySeq DEF Keys, Sections, Orders
<1>2. [s \in Sections \cup {Unused} |-> <<>>] \in [Keys -> Seq(Line)]
  BY EmptySeq DEF Keys
<1>3. {n \in Entries : v[n] # Default} \in SUBSET Entries
  OBVIOUS
<1> QED BY <1>1, <1>2, <1>3 DEF Scan, ScanState

(* A recursion over the states of the scan.                                *)
LEMMA ScanRecursion ==
  ASSUME NEW base \in ScanState, NEW n \in Nat,
         NEW step \in [1..n -> [ScanState -> ScanState]]
  PROVE  \E g \in [0..n -> ScanState] :
           g[0] = base /\ \A i \in 1..n : g[i] = step[i][g[i - 1]]
BY RecursionExists

(* The states of the scan, line by line.                                   *)
LEMMA ScanByLine ==
  ASSUME NEW f \in Seq(Line), NEW v \in [Entries -> Values]
  PROVE  \E g \in [0..Len(f) -> ScanState] :
           /\ Scanned(f, v) = g[Len(f)]
           /\ g[0] = Scan(v)
           /\ \A i \in 1..Len(f) : g[i] = ScanLine(g[i - 1], f[i], v)
<1> DEFINE n == Len(f)
           Is(h) == h = [i \in 0..n |->
                          IF i = 0 THEN Scan(v) ELSE ScanLine(h[i - 1], f[i], v)]
           step == [i \in 1..n |-> [c \in ScanState |-> ScanLine(c, f[i], v)]]
<1>1. n \in Nat /\ Scan(v) \in ScanState /\ \A i \in 1..n : f[i] \in Line
  BY ScanInitType, ElementOfSeq, LenProperties
<1>2. step \in [1..n -> [ScanState -> ScanState]]
  <2>1. ASSUME NEW i \in 1..n, NEW c \in ScanState
        PROVE  ScanLine(c, f[i], v) \in ScanState
    BY <1>1, ScanLineType
  <2> QED BY <2>1
<1>3. PICK g \in [0..n -> ScanState] :
        g[0] = Scan(v) /\ \A i \in 1..n : g[i] = step[i][g[i - 1]]
  <2>1. Scan(v) \in ScanState /\ n \in Nat
    BY <1>1
  <2> HIDE DEF step, n
  <2> QED BY <1>2, <2>1, ScanRecursion
<1>4. ASSUME NEW i \in 1..n
      PROVE  g[i] = ScanLine(g[i - 1], f[i], v)
  <2>1. g[i - 1] \in ScanState
    BY <1>1
  <2> QED BY <1>3, <2>1
<1>5. Is(g)
  <2>1. g = [i \in 0..n |-> g[i]]
    OBVIOUS
  <2>2. ASSUME NEW i \in 0..n
        PROVE  g[i] = IF i = 0 THEN Scan(v) ELSE ScanLine(g[i - 1], f[i], v)
    <3>1. i = 0 \/ (i # 0 /\ i \in 1..n)
      BY <1>1
    <3> QED BY <1>3, <1>4, <3>1
  <2> QED BY <2>1, <2>2, Zenon
<1>6. PICK h : Is(h) /\ Scanned(f, v) = h[n]
  <2>1. Scanned(f, v) = (CHOOSE h : Is(h))[n]
    BY DEF Scanned
  <2> HIDE DEF Is
  <2> QED BY <1>5, <2>1
<1>7. h = g
  <2> DEFINE T == {i \in 0..n : h[i] = g[i]}
  <2>1. 0 \in T
    BY <1>1, <1>3, <1>6
  <2>2. ASSUME NEW i \in 1..n, i - 1 \in T PROVE i \in T
    <3>1. h[i - 1] = g[i - 1] /\ i \in 0..n /\ i # 0
      BY <1>1, <2>2
    <3>2. h[i] = ScanLine(h[i - 1], f[i], v)
      BY <1>6, <3>1
    <3> QED BY <1>4, <3>1, <3>2
  <2>3. \A i \in 0..n : i \in T
    <3> HIDE DEF T
    <3> QED BY <1>1, <2>1, <2>2, CountUp
  <2>4. \A i \in 0..n : h[i] = g[i]
    BY <2>3
  <2>5. h = [i \in 0..n |-> h[i]]
    BY <1>6
  <2> QED BY <2>4, <2>5
<1> QED BY <1>3, <1>4, <1>6, <1>7

(* A scan starts as Scan and takes a further line by ScanLine.             *)
LEMMA ScanAppend ==
  ASSUME NEW v \in [Entries -> Values]
  PROVE  /\ Scanned(<<>>, v) = Scan(v)
         /\ \A f \in Seq(Line) : Scanned(f, v) \in ScanState
         /\ \A f \in Seq(Line), x \in Line :
              Scanned(Append(f, x), v) = ScanLine(Scanned(f, v), x, v)
<1>1. Scanned(<<>>, v) = Scan(v)
  <2> DEFINE none == <<>>
  <2>1. none \in Seq(Line) /\ Len(none) = 0
    BY EmptySeq
  <2> HIDE DEF none
  <2>2. Scanned(none, v) = Scan(v)
    BY <2>1, ScanByLine
  <2> QED BY <2>2 DEF none
<1>2. ASSUME NEW f \in Seq(Line) PROVE Scanned(f, v) \in ScanState
  <2>1. Len(f) \in 0..Len(f)
    BY LenProperties
  <2> QED BY <2>1, ScanByLine
<1>3. ASSUME NEW f \in Seq(Line), NEW x \in Line
      PROVE  Scanned(Append(f, x), v) = ScanLine(Scanned(f, v), x, v)
  <2> DEFINE e == Append(f, x)
             n == Len(f)
  <2>1. /\ e \in Seq(Line) /\ Len(e) = n + 1 /\ n \in Nat /\ e[n + 1] = x
        /\ \A i \in 1..n : e[i] = f[i]
    BY AppendProperties
  <2> HIDE DEF e
  <2>2. PICK g \in [0..n -> ScanState] :
          /\ Scanned(f, v) = g[n] /\ g[0] = Scan(v)
          /\ \A i \in 1..n : g[i] = ScanLine(g[i - 1], f[i], v)
    BY ScanByLine
  <2>3. PICK h \in [0..Len(e) -> ScanState] :
          /\ Scanned(e, v) = h[Len(e)] /\ h[0] = Scan(v)
          /\ \A i \in 1..Len(e) : h[i] = ScanLine(h[i - 1], e[i], v)
    BY <2>1, ScanByLine
  <2>4. h[n] = g[n]
    <3> DEFINE T == {i \in 0..n : h[i] = g[i]}
    <3>1. 0 \in T
      BY <2>1, <2>2, <2>3
    <3>2. \A i \in 1..n : i - 1 \in T => i \in T
      BY <2>1, <2>2, <2>3
    <3> HIDE DEF T
    <3>3. \A i \in 0..n : i \in T
      BY <2>1, <3>1, <3>2, CountUp
    <3> QED BY <2>1, <3>3 DEF T
  <2>5. n + 1 \in 1..Len(e) /\ n + 1 - 1 = n
    BY <2>1
  <2>6. h[n + 1] = ScanLine(h[n], x, v)
    BY <2>1, <2>3, <2>5
  <2> QED BY <2>1, <2>2, <2>3, <2>4, <2>6 DEF e
<1> QED BY <1>1, <1>2, <1>3
-----------------------------------------------------------------------------
(* The parts of a file that the scan collects.                             *)

(* Adding a line to a part behind another one.                             *)
LEMMA ConcatAppend ==
  ASSUME NEW S, NEW a \in Seq(S), NEW b \in Seq(S), NEW x \in S
  PROVE  /\ a \o Append(b, x) = Append(a \o b, x)
         /\ a \o b \in Seq(S)
         /\ a \o b \o <<x>> = Append(a \o b, x)
         /\ a \o <<>> = a
<1>1. a \o b \in Seq(S) /\ <<x>> \in Seq(S)
  BY ConcatProperties
<1>2. Append(b, x) = b \o <<x>> /\ Append(a \o b, x) = (a \o b) \o <<x>>
  BY <1>1, AppendIsConcat
<1>3. a \o (b \o <<x>>) = (a \o b) \o <<x>>
  BY <1>1, ConcatAssociative
<1> QED BY <1>1, <1>2, <1>3, ConcatEmptySeq

(* Comments behind a part change nothing but its end.                      *)
LEMMA JunkAppended ==
  ASSUME NEW d \in Seq(Line), NEW junk \in Seq(Comments)
  PROVE  /\ d \o junk \in Seq(Line)
         /\ Section(d \o junk) = Section(d)
         /\ KnownOf(d \o junk) = KnownOf(d)
         /\ CommentedOf(d \o junk) = CommentedOf(d)
         /\ \A s \in Names : ForeignOf(d \o junk, s) = ForeignOf(d, s)
         /\ Titled(d \o junk) <=> Titled(d)
         /\ Tidy(d \o junk) <=> Tidy(d)
         /\ Noted(junk) => Noted(d \o junk)
<1> DEFINE Same(a) == /\ a \in Seq(Line)
                      /\ Section(a) = Section(d)
                      /\ KnownOf(a) = KnownOf(d)
                      /\ CommentedOf(a) = CommentedOf(d)
                      /\ \A s \in Names : ForeignOf(a, s) = ForeignOf(d, s)
                      /\ Titled(a) <=> Titled(d)
                      /\ Tidy(a) <=> Tidy(d)
           T == {j \in Seq(Comments) : Same(d \o j) /\ (Noted(j) => Noted(d \o j))}
<1>1. <<>> \in T
  <2>1. d \o <<>> = d /\ <<>> \in Seq(Comments)
    BY ConcatEmptySeq, EmptySeq
  <2>2. Same(d)
    OBVIOUS
  <2>3. ~ Noted(<<>>)
    BY TitlesAppend
  <2> HIDE DEF Same
  <2> QED BY <2>1, <2>2, <2>3
<1>2. ASSUME NEW j \in Seq(Comments), NEW c \in Comments, j \in T
      PROVE  Append(j, c) \in T
  <2>1. c \in Line /\ c.kind = "comment" /\ j \in Seq(Line)
    BY Lines, SeqMonotonic
  <2> DEFINE a == d \o j
             b == Append(a, c)
  <2>2. d \o Append(j, c) = b
    BY <2>1, ConcatAppend
  <2>3. Same(a)
    BY <1>2
  <2> HIDE DEF a
  <2>4. /\ b \in Seq(Line)
        /\ Titled(b) <=> Titled(a)
        /\ Tidy(b) <=> Tidy(a)
        /\ Noted(b) <=> c = Comment("note")
    BY <2>1, <2>3, TitlesAppend
  <2>5. Section(b) = Section(a)
    BY <2>1, <2>3, SectionAppend
  <2>6. KnownOf(b) = KnownOf(a)
    BY <2>1, <2>3, KnownAppend
  <2>7. CommentedOf(b) = CommentedOf(a)
    BY <2>1, <2>3, CommentedAppend
  <2>8. \A s \in Names : ForeignOf(b, s) = ForeignOf(a, s)
    BY <2>1, <2>3, ForeignAppend
  <2>9. Same(b)
    BY <2>3, <2>4, <2>5, <2>6, <2>7, <2>8
  <2>10. Noted(Append(j, c)) => Noted(b)
    BY <2>1, <2>4, TitlesAppend
  <2>11. Append(j, c) \in Seq(Comments)
    BY AppendProperties
  <2> HIDE DEF Same, b
  <2> QED BY <2>2, <2>9, <2>10, <2>11
<1>3. junk \in T
  <2>1. \A j \in Seq(Comments), c \in Comments : j \in T => Append(j, c) \in T
    BY <1>2
  <2> HIDE DEF T
  <2> QED BY <1>1, <2>1, FilesByLine, Zenon
<1> QED BY <1>3

(* The part e is what the part d becomes when comments and the line x are  *)
(* written to it.                                                          *)
Extended(d, junk, x, e) ==
  /\ e \in Seq(Line) /\ e # <<>>
  /\ Section(e) = IF x.kind = "section" THEN x.name ELSE Section(d)
  /\ KnownOf(e) = KnownOf(d) \cup
       IF x.kind = "entry" /\ IsEntry(Section(d), x.name)
         THEN {<<x.name, x.value>>} ELSE {}
  /\ \A s \in Names :
       ForeignOf(e, s) =
         IF x.kind = "entry" /\ Section(d) = s /\ ~IsEntry(s, x.name)
           THEN Append(ForeignOf(d, s), x) ELSE ForeignOf(d, s)
  /\ CommentedOf(d) \subseteq CommentedOf(e)
  /\ x.kind = "entry" /\ Noted(junk) => <<Section(d), x.name>> \in CommentedOf(e)
  /\ Titled(e) <=> Titled(d) \/ x.kind = "section"
  /\ Tidy(e) <=> Tidy(d) /\ (x.kind = "entry" => Titled(d))

(* What junk and a line add to a part.                                     *)
LEMMA PartExtended ==
  ASSUME NEW d \in Seq(Line), NEW junk \in Seq(Comments), NEW x \in Line
  PROVE  Extended(d, junk, x, d \o junk \o <<x>>)
<1> DEFINE e == d \o junk \o <<x>>
<1> DEFINE a == d \o junk
<1>1. e = Append(a, x)
  <2>1. junk \in Seq(Line)
    BY Lines, SeqMonotonic
  <2> QED BY <2>1, ConcatAppend
<1> HIDE DEF e
<1>2. /\ a \in Seq(Line) /\ Section(a) = Section(d)
      /\ KnownOf(a) = KnownOf(d) /\ CommentedOf(a) = CommentedOf(d)
      /\ \A s \in Names : ForeignOf(a, s) = ForeignOf(d, s)
      /\ (Titled(a) <=> Titled(d)) /\ (Tidy(a) <=> Tidy(d))
      /\ (Noted(junk) => Noted(a))
  BY JunkAppended
<1> HIDE DEF a
<1>3. /\ e \in Seq(Line) /\ e # <<>>
      /\ Titled(e) <=> Titled(d) \/ x.kind = "section"
      /\ Tidy(e) <=> Tidy(d) /\ (x.kind = "entry" => Titled(d))
  <2> DEFINE b == Append(a, x)
  <2>1. /\ b \in Seq(Line) /\ b # <<>>
        /\ Titled(b) <=> Titled(a) \/ x.kind = "section"
        /\ Tidy(b) <=> Tidy(a) /\ (x.kind = "entry" => Titled(a))
    BY <1>2, TitlesAppend
  <2>2. e = b
    BY <1>1
  <2> HIDE DEF b
  <2> QED BY <1>2, <2>1, <2>2
<1>4. Section(e) = IF x.kind = "section" THEN x.name ELSE Section(d)
  BY <1>1, <1>2, SectionAppend
<1>5. KnownOf(e) = KnownOf(d) \cup
        IF x.kind = "entry" /\ IsEntry(Section(d), x.name)
          THEN {<<x.name, x.value>>} ELSE {}
  BY <1>1, <1>2, KnownAppend
<1>6. CommentedOf(e) = CommentedOf(d) \cup
        IF x.kind = "entry" /\ Noted(a) THEN {<<Section(d), x.name>>} ELSE {}
  BY <1>1, <1>2, CommentedAppend
<1>7. ASSUME NEW s \in Names
      PROVE  ForeignOf(e, s) =
               IF x.kind = "entry" /\ Section(d) = s /\ ~IsEntry(s, x.name)
                 THEN Append(ForeignOf(d, s), x) ELSE ForeignOf(d, s)
  BY <1>1, <1>2, ForeignAppend
<1>8. Extended(d, junk, x, e)
  BY <1>2, <1>3, <1>4, <1>5, <1>6, <1>7 DEF Extended
<1> QED BY <1>8 DEF e

(* A part without assignments before its first title means the same behind *)
(* any other lines.                                                        *)
LEMMA PartsJoined ==
  ASSUME NEW a \in Seq(Line), NEW d \in Seq(Line), Tidy(d)
  PROVE  /\ a \o d \in Seq(Line)
         /\ KnownOf(a \o d) = KnownOf(a) \cup KnownOf(d)
         /\ CommentedOf(a) \cup CommentedOf(d) \subseteq CommentedOf(a \o d)
         /\ \A s \in Names : ForeignOf(a \o d, s) = ForeignOf(a, s) \o ForeignOf(d, s)
<1> DEFINE Good(b, c) ==
             /\ c \in Seq(Line)
             /\ KnownOf(c) = KnownOf(a) \cup KnownOf(b)
             /\ CommentedOf(a) \cup CommentedOf(b) \subseteq CommentedOf(c)
             /\ \A s \in Names : ForeignOf(c, s) = ForeignOf(a, s) \o ForeignOf(b, s)
             /\ Titled(b) => Section(c) = Section(b)
             /\ Noted(b) => Noted(c)
           T == {b \in Seq(Line) : Tidy(b) => Good(b, a \o b)}
<1>1. <<>> \in T
  <2>1. a \o <<>> = a /\ <<>> \in Seq(Line)
    BY ConcatEmptySeq, EmptySeq
  <2>2. /\ KnownOf(<<>>) = {} /\ CommentedOf(<<>>) = {}
        /\ ~ Titled(<<>>) /\ ~ Noted(<<>>)
    BY KnownAppend, CommentedAppend, TitlesAppend
  <2>3. ASSUME NEW s \in Names
        PROVE  ForeignOf(a, s) = ForeignOf(a, s) \o ForeignOf(<<>>, s)
    <3>1. ForeignOf(<<>>, s) = <<>> /\ ForeignOf(a, s) \in Seq(Line)
      BY ForeignAppend
    <3> QED BY <3>1, ConcatEmptySeq
  <2>4. Good(<<>>, a)
    BY <2>2, <2>3
  <2> HIDE DEF Good
  <2> QED BY <2>1, <2>4
<1>2. ASSUME NEW b \in Seq(Line), NEW x \in Line, b \in T
      PROVE  Append(b, x) \in T
  <2>1. Append(b, x) \in Seq(Line)
    BY AppendProperties
  <2> SUFFICES ASSUME Tidy(Append(b, x)) PROVE Good(Append(b, x), a \o Append(b, x))
    BY <2>1
  <2>2. Tidy(b) /\ (x.kind = "entry" => Titled(b))
    BY TitlesAppend
  <2> DEFINE c == a \o b
             bx == Append(b, x)
             cx == Append(c, x)
  <2>3. Good(b, c)
    BY <1>2, <2>2
  <2>4. a \o bx = cx
    BY ConcatAppend
  <2> HIDE DEF c
  <2>5. /\ cx \in Seq(Line)
        /\ Noted(bx) => Noted(cx)
    BY <2>3, TitlesAppend
  <2>6. Titled(bx) => Section(cx) = Section(bx)
    <3>1. c \in Seq(Line) /\ (Titled(b) => Section(c) = Section(b))
      BY <2>3
    <3>2. Titled(bx) => Titled(b) \/ x.kind = "section"
      BY TitlesAppend
    <3>3. /\ Section(cx) = IF x.kind = "section" THEN x.name ELSE Section(c)
          /\ Section(bx) = IF x.kind = "section" THEN x.name ELSE Section(b)
      BY <3>1, SectionAppend
    <3> HIDE DEF bx, cx
    <3> QED BY <3>1, <3>2, <3>3
  <2>7. KnownOf(cx) = KnownOf(a) \cup KnownOf(bx)
    <3>1. x.kind = "entry" => Section(c) = Section(b)
      BY <2>2, <2>3
    <3>2. /\ KnownOf(cx) = KnownOf(c) \cup
                IF x.kind = "entry" /\ IsEntry(Section(c), x.name)
                  THEN {<<x.name, x.value>>} ELSE {}
          /\ KnownOf(bx) = KnownOf(b) \cup
                IF x.kind = "entry" /\ IsEntry(Section(b), x.name)
                  THEN {<<x.name, x.value>>} ELSE {}
      BY <2>3, KnownAppend
    <3>3. KnownOf(c) = KnownOf(a) \cup KnownOf(b)
      BY <2>3
    <3> HIDE DEF bx, cx
    <3> QED BY <3>1, <3>2, <3>3
  <2>8. CommentedOf(a) \cup CommentedOf(bx) \subseteq CommentedOf(cx)
    <3>1. x.kind = "entry" => Section(c) = Section(b)
      BY <2>2, <2>3
    <3>2. /\ CommentedOf(cx) = CommentedOf(c) \cup
                IF x.kind = "entry" /\ Noted(c) THEN {<<Section(c), x.name>>} ELSE {}
          /\ CommentedOf(bx) = CommentedOf(b) \cup
                IF x.kind = "entry" /\ Noted(b) THEN {<<Section(b), x.name>>} ELSE {}
      BY <2>3, CommentedAppend
    <3>3. /\ CommentedOf(a) \cup CommentedOf(b) \subseteq CommentedOf(c)
          /\ Noted(b) => Noted(c)
      BY <2>3
    <3> HIDE DEF bx, cx
    <3> QED BY <3>1, <3>2, <3>3
  <2>9. ASSUME NEW s \in Names
        PROVE  ForeignOf(cx, s) = ForeignOf(a, s) \o ForeignOf(bx, s)
    <3> DEFINE Mine == x.kind = "entry" /\ Section(b) = s /\ ~IsEntry(s, x.name)
    <3>1. x.kind = "entry" => Section(c) = Section(b)
      BY <2>2, <2>3
    <3>2. /\ ForeignOf(cx, s) = IF Mine THEN Append(ForeignOf(c, s), x) ELSE ForeignOf(c, s)
          /\ ForeignOf(bx, s) = IF Mine THEN Append(ForeignOf(b, s), x) ELSE ForeignOf(b, s)
      BY <2>3, <3>1, ForeignAppend
    <3>3. /\ ForeignOf(c, s) = ForeignOf(a, s) \o ForeignOf(b, s)
          /\ ForeignOf(a, s) \in Seq(Line) /\ ForeignOf(b, s) \in Seq(Line)
      BY <2>3, ForeignAppend
    <3>4. ForeignOf(a, s) \o Append(ForeignOf(b, s), x) = Append(ForeignOf(c, s), x)
      BY <3>3, ConcatAppend
    <3> HIDE DEF Mine, bx, cx
    <3> QED BY <3>2, <3>3, <3>4
  <2>10. Good(bx, cx)
    <3> HIDE DEF bx, cx
    <3> QED BY <2>5, <2>6, <2>7, <2>8, <2>9
  <2> QED BY <2>4, <2>10
<1>3. d \in T
  <2>1. \A b \in Seq(Line), x \in Line : b \in T => Append(b, x) \in T
    BY <1>2
  <2> HIDE DEF T
  <2> QED BY <1>1, <2>1, FilesByLine, Zenon
<1> QED BY <1>3
-----------------------------------------------------------------------------
(* What the scan holds of the lines it has seen.                           *)

(* A part that begins with its title.                                      *)
Headed(d) == Tidy(d) /\ (d # <<>> => Titled(d))

(* Every section in the order has lines, ends in its own section, and has  *)
(* its title first unless it is the first one of the file.                 *)
Shape(c) ==
  /\ \A k \in Sections :
       /\ Contains(c.order, k) <=> c.data[k] # <<>>
       /\ Contains(c.order, k) => Section(c.data[k]) = k
  /\ \A k \in Keys : ~ (c.order # <<>> /\ c.order[1] = k) => Headed(c.data[k])

(* A line that is not a title can be written: its section has been opened, *)
(* or nothing has been written at all.                                     *)
Opened(c) ==
  /\ c.section \in Sections /\ ~ Contains(c.order, c.section) =>
       c.section = "General" /\ c.order = <<>>
  /\ c.section = Unused => c.data[Unused] # <<>>

(* The scan is where the reader of the file f would be.                    *)
Place(f, c) ==
  /\ c.section = Key(Section(f))
  /\ c.section = Unused => Section(c.data[Unused]) = Section(f)
  /\ Noted(f) => Noted(c.junk)

(* The scan holds the assignments of f: those of the daemon with the       *)
(* values v, except for the entries left to be added; those of others as   *)
(* they are; and the comments before them.                                 *)
HeldKnown(f, c, left, v) ==
  /\ \A n \in Entries, y \in Values : <<n, y>> \in KnownOf(c.data["Last"]) => y = v[n]
  /\ \A n \in Entries :
       v[n] # Default => n \in left \/ <<n, v[n]>> \in KnownOf(c.data["Last"])
  /\ \A k \in Keys : k # "Last" => KnownOf(c.data[k]) = {}
  /\ ~ c.changed => KnownOf(f) = KnownOf(c.data["Last"])
HeldForeign(f, c) ==
  /\ \A s \in Names : ForeignOf(c.data[Key(s)], s) = ForeignOf(f, s)
  /\ \A s \in Names, k \in Keys : k # Key(s) => ForeignOf(c.data[k], s) = <<>>
HeldComments(f, c) ==
  \A p \in CommentedOf(f) : \E k \in Keys : p \in CommentedOf(c.data[k])
Held(f, c, left, v) ==
  HeldKnown(f, c, left, v) /\ HeldForeign(f, c) /\ HeldComments(f, c)

(* A written line goes to the part of its section.                         *)
LEMMA PartWritten ==
  ASSUME NEW c \in ScanState, NEW x \in Line
  PROVE  Extended(c.data[c.section], c.junk, x,
                  WriteSectionData(c, x).data[c.section])
<1>1. c.data[c.section] \in Seq(Line) /\ c.junk \in Seq(Comments)
  BY DEF ScanState
<1>2. WriteSectionData(c, x).data[c.section] = c.data[c.section] \o c.junk \o <<x>>
  BY WriteEffect DEF Wrote
<1> QED BY <1>1, <1>2, PartExtended, Zenon

(* A title in its section, and any other line in an opened one, keeps the  *)
(* parts in shape.                                                         *)
LEMMA ShapeWritten ==
  ASSUME NEW c \in ScanState, Shape(c), NEW x \in Line,
         IF x.kind = "section" THEN c.section = Key(x.name) ELSE Opened(c)
  PROVE  Shape(WriteSectionData(c, x)) /\ Opened(WriteSectionData(c, x))
<1> DEFINE w == WriteSectionData(c, x)
           s == c.section
           d == c.data[s]
           e == w.data[s]
<1>1. /\ s \in Keys /\ c.order \in Orders /\ w.order \in Orders /\ w.section = s
      /\ \A k \in Keys : k # s => w.data[k] = c.data[k]
      /\ w.order = IF s = Unused \/ Contains(c.order, s) THEN c.order ELSE Append(c.order, s)
  <2>1. w = WriteSectionData(c, x)
    OBVIOUS
  <2> HIDE DEF w
  <2>2. /\ w \in ScanState /\ w.section = s
        /\ \A k \in Keys : k # s => w.data[k] = c.data[k]
        /\ w.order = IF s = Unused \/ Contains(c.order, s)
                       THEN c.order ELSE Append(c.order, s)
    BY <2>1, WriteEffect DEF Wrote
  <2>3. s \in Keys /\ c.order \in Orders /\ w.order \in Orders
    BY <2>2 DEF ScanState
  <2> QED BY <2>2, <2>3
<1>2. /\ e # <<>>
      /\ Section(e) = IF x.kind = "section" THEN x.name ELSE Section(d)
      /\ Titled(e) <=> Titled(d) \/ x.kind = "section"
      /\ Tidy(e) <=> Tidy(d) /\ (x.kind = "entry" => Titled(d))
  <2>1. Extended(d, c.junk, x, e)
    BY PartWritten
  <2> HIDE DEF d, e
  <2> QED BY <2>1 DEF Extended
<1> HIDE DEF w
<1>3. /\ Unused \notin Sections
      /\ s # Unused => s \in Sections
      /\ Sections \subseteq Keys /\ Unused \in Keys
  BY <1>1 DEF Unused, Sections, Keys
<1>4. ASSUME NEW k \in Sections
      PROVE  Contains(w.order, k) <=> Contains(c.order, k) \/ k = s
  BY <1>1, <1>3, OrderGrows
<1>5. /\ c.order # <<>> => w.order # <<>> /\ w.order[1] = c.order[1]
      /\ c.order = <<>> /\ s \in Sections => w.order # <<>> /\ w.order[1] = s
  <2>1. c.order = <<>> /\ s \in Sections =>
          /\ ~ Contains(c.order, s) /\ Append(c.order, s)[1] = s
          /\ Contains(Append(c.order, s), s)
    BY <1>1, OrderGrows
  <2>2. c.order # <<>> /\ s \in Sections /\ ~ Contains(c.order, s) =>
          /\ Append(c.order, s)[1] = c.order[1] /\ Contains(Append(c.order, s), s)
    BY <1>1, OrderGrows
  <2>3. s \in Sections /\ Contains(w.order, s) => w.order # <<>>
    BY <1>1, OrderGrows
  <2> QED BY <1>1, <1>3, <2>1, <2>2, <2>3
<1>6. s \in Sections => Section(e) = s
  <2>1. CASE x.kind = "section"
    BY <1>2, <1>3, <2>1 DEF Key
  <2>2. CASE x.kind # "section"
    <3>1. Section(d) = s \/ s \notin Sections
      <4>1. CASE Contains(c.order, s)
        BY <4>1 DEF Shape
      <4>2. CASE ~ Contains(c.order, s) /\ s \in Sections
        <5>1. s = "General" /\ d = <<>>
          BY <2>2, <4>2 DEF Opened, Shape
        <5> QED BY <5>1, SectionAppend
      <4> QED BY <4>1, <4>2
    <3> QED BY <1>2, <2>2, <3>1
  <2> QED BY <2>1, <2>2
<1>7. ~ (w.order # <<>> /\ w.order[1] = s) => Headed(e)
  <2> SUFFICES ASSUME ~ (w.order # <<>> /\ w.order[1] = s) PROVE Headed(e)
    OBVIOUS
  <2>1. Headed(d)
    BY <1>1, <1>5 DEF Shape
  <2>2. CASE x.kind = "section"
    BY <1>2, <2>1, <2>2 DEF Headed
  <2>3. CASE x.kind # "section"
    <3>1. d # <<>>
      <4>1. CASE s = Unused
        BY <2>3, <4>1 DEF Opened
      <4>2. CASE s \in Sections
        <5>1. Contains(c.order, s)
          BY <1>5, <2>3, <4>2 DEF Opened
        <5> QED BY <4>2, <5>1 DEF Shape
      <4> QED BY <1>3, <4>1, <4>2
    <3> QED BY <1>2, <2>1, <2>3, <3>1 DEF Headed
  <2> QED BY <2>2, <2>3
<1>8. ASSUME NEW k \in Keys, k # s, ~ (w.order # <<>> /\ w.order[1] = k)
      PROVE  Headed(w.data[k])
  <2>1. ~ (c.order # <<>> /\ c.order[1] = k)
    BY <1>5, <1>8
  <2> QED BY <1>1, <1>8, <2>1 DEF Shape
<1>9. ASSUME NEW k \in Sections
      PROVE  /\ Contains(w.order, k) <=> w.data[k] # <<>>
             /\ Contains(w.order, k) => Section(w.data[k]) = k
  <2>1. CASE k = s
    BY <1>2, <1>4, <1>6, <2>1
  <2>2. CASE k # s
    BY <1>1, <1>3, <1>4, <2>2 DEF Shape
  <2> QED BY <2>1, <2>2
<1>10. Shape(w)
  <2>1. \A k \in Keys : ~ (w.order # <<>> /\ w.order[1] = k) => Headed(w.data[k])
    BY <1>7, <1>8
  <2> QED BY <1>9, <2>1 DEF Shape
<1>11. Opened(w)
  BY <1>1, <1>2, <1>4 DEF Opened
<1> QED BY <1>10, <1>11 DEF w
-----------------------------------------------------------------------------
(* One line of the scan.                                                   *)

(* Lines that are no assignments change neither what a file nor what the   *)
(* parts of a scan hold.                                                   *)
SameLines(f, g) ==
  /\ KnownOf(g) = KnownOf(f) /\ CommentedOf(g) = CommentedOf(f)
  /\ \A s \in Names : ForeignOf(g, s) = ForeignOf(f, s)
SameParts(c, w) ==
  \A k \in Keys :
    /\ KnownOf(w.data[k]) = KnownOf(c.data[k])
    /\ CommentedOf(c.data[k]) \subseteq CommentedOf(w.data[k])
    /\ \A s \in Names : ForeignOf(w.data[k], s) = ForeignOf(c.data[k], s)

(* Sections the daemon knows have a part each, and the others share one.   *)
LEMMA KeyFacts ==
  /\ \A s \in Names :
       /\ Key(s) \in Keys
       /\ Key(s) \in Sections => Key(s) = s
       /\ s \in Sections => Key(s) = s
       /\ s \notin Sections => Key(s) = Unused
  /\ "Last" \in Sections /\ "General" \in Sections
  /\ "Last" \in Names /\ "General" \in Names /\ "Last" \in Keys /\ Unused \in Keys
  /\ Unused \notin Sections /\ Sections \subseteq Keys
BY DEF Key, Keys, Sections, Unused, Names

(* Then a scan holds what it held.                                         *)
LEMMA SameHeld ==
  ASSUME NEW f, NEW g, NEW c, NEW w, NEW left, NEW v,
         Held(f, c, left, v), SameLines(f, g), SameParts(c, w), w.changed = c.changed
  PROVE  Held(g, w, left, v)
<1>1. HeldKnown(g, w, left, v)
  BY KeyFacts DEF Held, HeldKnown, SameLines, SameParts
<1>2. HeldForeign(g, w)
  BY KeyFacts DEF Held, HeldForeign, SameLines, SameParts
<1>3. HeldComments(g, w)
  BY DEF Held, HeldComments, SameLines, SameParts
<1> QED BY <1>1, <1>2, <1>3 DEF Held

(* For a file: a title or a comment.                                       *)
LEMMA OtherLine ==
  ASSUME NEW f \in Seq(Line), NEW x \in Line, x.kind # "entry"
  PROVE  SameLines(f, Append(f, x))
<1>1. KnownOf(Append(f, x)) = KnownOf(f)
  BY KnownAppend
<1>2. CommentedOf(Append(f, x)) = CommentedOf(f)
  BY CommentedAppend
<1>3. ASSUME NEW s \in Names PROVE ForeignOf(Append(f, x), s) = ForeignOf(f, s)
  BY ForeignAppend
<1> QED BY <1>1, <1>2, <1>3 DEF SameLines

(* For a scan: a title or a comment that is written.                       *)
LEMMA OtherWritten ==
  ASSUME NEW c \in ScanState, NEW x \in Line, x.kind # "entry"
  PROVE  SameParts(c, WriteSectionData(c, x))
<1> DEFINE w == WriteSectionData(c, x)
<1>1. \A k \in Keys : k # c.section => w.data[k] = c.data[k]
  BY WriteEffect DEF Wrote
<1>2. Extended(c.data[c.section], c.junk, x, w.data[c.section])
  BY PartWritten
<1> HIDE DEF w
<1>3. ASSUME NEW k \in Keys
      PROVE  /\ KnownOf(w.data[k]) = KnownOf(c.data[k])
             /\ CommentedOf(c.data[k]) \subseteq CommentedOf(w.data[k])
             /\ \A s \in Names : ForeignOf(w.data[k], s) = ForeignOf(c.data[k], s)
  <2>1. CASE k = c.section
    <3>1. Extended(c.data[k], c.junk, x, w.data[k])
      BY <1>2, <2>1
    <3> QED BY <3>1 DEF Extended
  <2>2. CASE k # c.section
    BY <1>1, <2>2
  <2> QED BY <2>1, <2>2
<1> QED BY <1>3 DEF SameParts, w

(* An assignment to an entry of the daemon, with its value, in its section.*)
KnownPut(c, n, y, w) ==
  /\ KnownOf(w.data["Last"]) = KnownOf(c.data["Last"]) \cup {<<n, y>>}
  /\ \A k \in Keys : k # "Last" => w.data[k] = c.data[k]
  /\ CommentedOf(c.data["Last"]) \subseteq CommentedOf(w.data["Last"])
  /\ Noted(c.junk) => <<"Last", n>> \in CommentedOf(w.data["Last"])
  /\ \A s \in Names : ForeignOf(w.data["Last"], s) = ForeignOf(c.data["Last"], s)

(* Writing such an assignment.                                             *)
LEMMA KnownWritten ==
  ASSUME NEW c \in ScanState, NEW n \in Entries, NEW y \in Values,
         c.section = "Last", Section(c.data["Last"]) = "Last"
  PROVE  KnownPut(c, n, y, WriteSectionData(c, Assign(n, y)))
<1> DEFINE w == WriteSectionData(c, Assign(n, y))
           x == Assign(n, y)
<1>1. x \in Line /\ x.kind = "entry" /\ x.name = n /\ x.value = y
  BY Lines DEF Assign
<1>7. w = WriteSectionData(c, x)
  OBVIOUS
<1> HIDE DEF x, w
<1>2. Extended(c.data["Last"], c.junk, x, w.data["Last"])
  <2>1. w = WriteSectionData(c, x)
    BY <1>7
  <2>2. Extended(c.data[c.section], c.junk, x, w.data[c.section])
    BY <1>1, <2>1, PartWritten, Zenon
  <2> QED BY <2>2
<1>3. \A k \in Keys : k # "Last" => w.data[k] = c.data[k]
  <2>1. w = WriteSectionData(c, x)
    BY <1>7
  <2>2. Wrote(c, x, w)
    BY <1>1, <2>1, WriteEffect
  <2> QED BY <2>2 DEF Wrote
<1>4. IsEntry("Last", n)
  BY DEF IsEntry
<1> DEFINE d == c.data["Last"]
           e == w.data["Last"]
           junk == c.junk
<1>5. Extended(d, junk, x, e) /\ Section(d) = "Last"
  BY <1>2
<1> HIDE DEF d, e, junk
<1>6. /\ KnownOf(e) = KnownOf(d) \cup {<<n, y>>}
      /\ CommentedOf(d) \subseteq CommentedOf(e)
      /\ Noted(junk) => <<"Last", n>> \in CommentedOf(e)
      /\ \A s \in Names : ForeignOf(e, s) = ForeignOf(d, s)
  BY <1>1, <1>4, <1>5 DEF Extended
<1> QED BY <1>3, <1>6 DEF d, e, junk, w, KnownPut

(* The part the scan writes to ends in the section the reader is in.       *)
LEMMA PartInPlace ==
  ASSUME NEW f \in Seq(Line), NEW c \in ScanState, Shape(c), Opened(c), Place(f, c)
  PROVE  Section(c.data[c.section]) = Section(f)
<1>1. c.section = Key(Section(f)) /\ Section(f) \in Names /\ Section(<<>>) = "General"
  BY SectionAppend DEF Place
<1>2. CASE c.section = Unused
  BY <1>2 DEF Place
<1>3. CASE c.section # Unused /\ Contains(c.order, c.section)
  <2>1. c.section \in Sections /\ c.section = Section(f)
    BY <1>1, <1>3, KeyFacts
  <2> QED BY <1>3, <2>1 DEF Shape
<1>4. CASE c.section # Unused /\ ~ Contains(c.order, c.section)
  <2>1. c.section \in Sections /\ c.section = Section(f)
    BY <1>1, <1>4, KeyFacts
  <2>2. c.section = "General" /\ c.data[c.section] = <<>>
    BY <1>4, <2>1 DEF Shape, Opened
  <2> QED BY <1>1, <2>1, <2>2
<1> QED BY <1>2, <1>3, <1>4
(* What is true of the scan after the lines f of a file.                   *)
ScanInv(f, c, v) ==
  /\ c \in ScanState /\ Shape(c) /\ Opened(c) /\ Place(f, c)
  /\ Held(f, c, c.remaining, v)

(* The scan of the empty file.                                             *)
LEMMA ScanStarts ==
  ASSUME NEW v \in [Entries -> Values]
  PROVE  ScanInv(<<>>, Scan(v), v)
<1> DEFINE c == Scan(v)
<1>1. /\ c \in ScanState /\ c.section = "General" /\ c.order = <<>>
      /\ c.remaining = {n \in Entries : v[n] # Default}
      /\ \A k \in Keys : c.data[k] = <<>>
  BY ScanInitType DEF Scan, Keys
<1> HIDE DEF c
<1>2. /\ Section(<<>>) = "General" /\ KnownOf(<<>>) = {} /\ CommentedOf(<<>>) = {}
      /\ Tidy(<<>>) /\ ~ Noted(<<>>)
      /\ \A s : ForeignOf(<<>>, s) = <<>>
  BY SectionAppend, KnownAppend, CommentedAppend, TitlesAppend, ForeignAppend
<1>3. \A s \in Sections : ~ Contains(c.order, s)
  BY <1>1, OrderGrows DEF ScanState
<1>4. Shape(c)
  BY <1>1, <1>2, <1>3, KeyFacts DEF Shape, Headed
<1>5. Opened(c) /\ Place(<<>>, c)
  BY <1>1, <1>2, KeyFacts DEF Opened, Place
<1>6. HeldKnown(<<>>, c, c.remaining, v)
  BY <1>1, <1>2, KeyFacts DEF HeldKnown
<1>7. HeldForeign(<<>>, c) /\ HeldComments(<<>>, c)
  BY <1>1, <1>2, KeyFacts DEF HeldForeign, HeldComments
<1> QED BY <1>1, <1>4, <1>5, <1>6, <1>7 DEF ScanInv, Held, c

(* A comment is kept for the line that follows.                            *)
LEMMA CommentScanned ==
  ASSUME NEW f \in Seq(Line), NEW c, NEW v \in [Entries -> Values], NEW x \in Line,
         ScanInv(f, c, v), x.kind = "comment"
  PROVE  ScanInv(Append(f, x), ScanLine(c, x, v), v)
<1> DEFINE g == Append(f, x)
           w == ScanLine(c, x, v)
<1>1. c \in ScanState /\ w \in ScanState
  BY ScanLineType DEF ScanInv
<1>2. w = [c EXCEPT !.junk = Append(c.junk, x)]
  BY DEF ScanLine, CollectJunk
<1>3. /\ w.section = c.section /\ w.order = c.order /\ w.data = c.data
      /\ w.remaining = c.remaining /\ w.changed = c.changed
      /\ w.junk = Append(c.junk, x)
  BY <1>1, <1>2 DEF ScanState
<1> HIDE DEF w
<1>4. Shape(w) /\ Opened(w)
  BY <1>3 DEF Shape, Opened, ScanInv
<1>5. Place(g, w)
  <2>1. Section(g) = Section(f)
    BY SectionAppend
  <2>2. Noted(g) => Noted(w.junk)
    <3>1. c.junk \in Seq(Line)
      BY <1>1, Lines, SeqMonotonic DEF ScanState
    <3> QED BY <1>3, <3>1, TitlesAppend
  <2> QED BY <1>3, <2>1, <2>2 DEF Place, ScanInv
<1>6. Held(g, w, w.remaining, v)
  <2>1. SameLines(f, g)
    BY OtherLine
  <2>2. SameParts(c, w)
    BY <1>3 DEF SameParts
  <2>3. Held(f, c, w.remaining, v)
    BY <1>3 DEF ScanInv
  <2> HIDE DEF g
  <2> QED BY <1>3, <2>1, <2>2, <2>3, SameHeld
<1> QED BY <1>1, <1>4, <1>5, <1>6 DEF ScanInv, w

(* A title, also of a section that came before or is not known.            *)
LEMMA TitleScanned ==
  ASSUME NEW f \in Seq(Line), NEW c, NEW v \in [Entries -> Values], NEW x \in Line,
         ScanInv(f, c, v), x.kind = "section"
  PROVE  ScanInv(Append(f, x), ScanLine(c, x, v), v)
<1> DEFINE g == Append(f, x)
           w == ScanLine(c, x, v)
           in == [c EXCEPT !.section = Key(x.name)]
<1>1. c \in ScanState /\ w \in ScanState
  BY ScanLineType DEF ScanInv
<1>2. x.name \in Names /\ Section(g) = x.name /\ ~ Noted(g)
  <2>1. x # Comment("note")
    BY DEF Comment
  <2> QED BY <2>1, Lines, SectionAppend, TitlesAppend
<1>3. w = SaveTitle(c, x)
  BY DEF ScanLine
<1>4. /\ in \in ScanState /\ in.section = Key(x.name) /\ in.order = c.order
      /\ in.data = c.data /\ in.remaining = c.remaining
      /\ in.changed = c.changed /\ in.junk = c.junk
  BY <1>1, <1>2, KeyFacts DEF ScanState
<1>5. /\ x.name \in Sections /\ Contains(c.order, x.name) => w = in
      /\ ~ (x.name \in Sections /\ Contains(c.order, x.name)) => w = WriteSectionData(in, x)
  BY <1>3 DEF SaveTitle, Key
<1> HIDE DEF w, in
<1>6. Shape(in)
  BY <1>4 DEF Shape, ScanInv
<1>7. SameLines(f, g)
  BY OtherLine
<1>8. CASE x.name \in Sections /\ Contains(c.order, x.name)
  <2>1. w = in /\ Key(x.name) = x.name
    BY <1>2, <1>5, <1>8, KeyFacts
  <2>2. Shape(w)
    BY <1>6, <2>1
  <2>3. Opened(w) /\ Place(g, w)
    BY <1>2, <1>4, <1>8, <2>1, KeyFacts DEF Opened, Place
  <2>4. Held(g, w, w.remaining, v)
    <3>1. SameParts(c, w)
      BY <1>4, <2>1 DEF SameParts
    <3>2. Held(f, c, w.remaining, v) /\ w.changed = c.changed
      BY <1>4, <2>1 DEF ScanInv
    <3> HIDE DEF g
    <3> QED BY <1>7, <3>1, <3>2, SameHeld
  <2> QED BY <1>1, <2>2, <2>3, <2>4 DEF ScanInv, w
<1>9. CASE ~ (x.name \in Sections /\ Contains(c.order, x.name))
  <2>1. w = WriteSectionData(in, x)
    BY <1>5, <1>9
  <2>2. Shape(w) /\ Opened(w)
    BY <1>4, <1>6, <2>1, ShapeWritten
  <2>3. w.section = in.section /\ w.remaining = in.remaining /\ w.changed = in.changed
    BY <1>4, <2>1, WriteEffect DEF Wrote
  <2>4. Place(g, w)
    <3>1. Extended(in.data[in.section], in.junk, x, w.data[in.section])
      BY <1>4, <2>1, PartWritten
    <3>2. Section(w.data[in.section]) = x.name
      BY <3>1 DEF Extended
    <3> QED BY <1>2, <1>4, <2>3, <3>2 DEF Place
  <2>5. Held(g, w, w.remaining, v)
    <3>1. SameParts(in, w)
      BY <1>4, <2>1, OtherWritten
    <3>2. SameParts(c, w)
      BY <1>4, <3>1 DEF SameParts
    <3>3. Held(f, c, w.remaining, v) /\ w.changed = c.changed
      BY <1>4, <2>3 DEF ScanInv
    <3> HIDE DEF g
    <3> QED BY <1>7, <3>2, <3>3, SameHeld
  <2> QED BY <1>1, <2>2, <2>4, <2>5 DEF ScanInv, w
<1> QED BY <1>8, <1>9

(* An assignment to an entry of the daemon gets the daemon's value.        *)
LEMMA EntryScanned ==
  ASSUME NEW f \in Seq(Line), NEW c, NEW v \in [Entries -> Values], NEW x \in Line,
         ScanInv(f, c, v), x.kind = "entry", IsEntry(c.section, x.name)
  PROVE  ScanInv(Append(f, x), ScanLine(c, x, v), v)
<1> DEFINE g == Append(f, x)
           w == ScanLine(c, x, v)
           n == x.name
           y == v[n]
           in == [c EXCEPT !.changed = @ \/ x.value # v[x.name],
                           !.remaining = @ \ {x.name}]
<1>1. /\ c \in ScanState /\ w \in ScanState /\ n \in Entries /\ y \in Values
      /\ c.section = "Last" /\ x.value \in Values
  BY ScanLineType, Lines DEF ScanInv, IsEntry
<1>2. w = WriteSectionData(in, Assign(n, y))
  BY DEF ScanLine, SaveEntry
<1>3. /\ in \in ScanState /\ in.section = c.section /\ in.order = c.order
      /\ in.data = c.data /\ in.junk = c.junk
      /\ in.remaining = c.remaining \ {n}
      /\ in.changed = (c.changed \/ x.value # y)
  BY <1>1 DEF ScanState
<1>4. Section(f) = "Last" /\ Section(c.data["Last"]) = "Last"
  <2>1. Section(c.data[c.section]) = Section(f)
    BY PartInPlace DEF ScanInv
  <2>2. c.section = Key(Section(f)) /\ Section(f) \in Names
    BY SectionAppend DEF ScanInv, Place
  <2> QED BY <1>1, <2>1, <2>2, KeyFacts
<1>5. Assign(n, y) \in Line /\ Assign(n, y).kind = "entry"
  BY <1>1, Lines DEF Assign
<1> HIDE DEF w, in, y, n
<1>6. Shape(w) /\ Opened(w)
  <2>1. Shape(in) /\ Opened(in)
    BY <1>3 DEF Shape, Opened, ScanInv
  <2> QED BY <1>2, <1>3, <1>5, <2>1, ShapeWritten
<1>7. w.section = "Last" /\ w.remaining = in.remaining /\ w.changed = in.changed
  <2> DEFINE z == Assign(n, y)
  <2>1. w = WriteSectionData(in, z) /\ z \in Line /\ in \in ScanState
    BY <1>2, <1>3, <1>5
  <2> HIDE DEF z
  <2>2. w.section = in.section /\ w.remaining = in.remaining /\ w.changed = in.changed
    <3>1. Wrote(in, z, w)
      BY <2>1, WriteEffect
    <3> QED BY <3>1 DEF Wrote
  <2> QED BY <1>1, <1>3, <2>2
<1>8. /\ KnownOf(g) = KnownOf(f) \cup {<<n, x.value>>}
      /\ CommentedOf(g) = CommentedOf(f) \cup
           IF Noted(f) THEN {<<"Last", n>>} ELSE {}
      /\ \A s \in Names : ForeignOf(g, s) = ForeignOf(f, s)
      /\ Section(g) = "Last" /\ ~ Noted(g)
  <2>1. IsEntry(Section(f), x.name) /\ x.name = n
    BY <1>1, <1>4 DEF IsEntry, n
  <2>2. KnownOf(g) = KnownOf(f) \cup {<<n, x.value>>}
    BY <2>1, KnownAppend
  <2>3. CommentedOf(g) = CommentedOf(f) \cup
          IF Noted(f) THEN {<<"Last", n>>} ELSE {}
    BY <1>4, <2>1, CommentedAppend
  <2>4. \A s \in Names : ForeignOf(g, s) = ForeignOf(f, s)
    BY <1>4, <2>1, ForeignAppend
  <2>5. x # Comment("note")
    BY DEF Comment
  <2> QED BY <1>4, <2>2, <2>3, <2>4, <2>5, SectionAppend, TitlesAppend
<1>9. /\ KnownOf(w.data["Last"]) = KnownOf(c.data["Last"]) \cup {<<n, y>>}
      /\ \A k \in Keys : k # "Last" => w.data[k] = c.data[k]
      /\ CommentedOf(c.data["Last"]) \subseteq CommentedOf(w.data["Last"])
      /\ Noted(c.junk) => <<"Last", n>> \in CommentedOf(w.data["Last"])
      /\ \A s \in Names : ForeignOf(w.data["Last"], s) = ForeignOf(c.data["Last"], s)
  <2>1. in.section = "Last" /\ Section(in.data["Last"]) = "Last"
    BY <1>1, <1>3, <1>4
  <2>2. /\ KnownOf(w.data["Last"]) = KnownOf(in.data["Last"]) \cup {<<n, y>>}
        /\ \A k \in Keys : k # "Last" => w.data[k] = in.data[k]
        /\ CommentedOf(in.data["Last"]) \subseteq CommentedOf(w.data["Last"])
        /\ Noted(in.junk) => <<"Last", n>> \in CommentedOf(w.data["Last"])
        /\ \A s \in Names : ForeignOf(w.data["Last"], s) = ForeignOf(in.data["Last"], s)
    <3>1. in \in ScanState /\ n \in Entries /\ y \in Values
      BY <1>1, <1>3
    <3>2. KnownPut(in, n, y, w)
      BY <1>2, <2>1, <3>1, KnownWritten
    <3> QED BY <3>2 DEF KnownPut
  <2> QED BY <1>3, <2>2
<1>10. Place(g, w)
  BY <1>7, <1>8, KeyFacts DEF Place
<1>11. HeldKnown(g, w, w.remaining, v)
  <2>1. HeldKnown(f, c, c.remaining, v)
    BY DEF ScanInv, Held
  <2>2. ~ w.changed => ~ c.changed /\ x.value = y
    BY <1>3, <1>7
  <2>3. w.remaining = c.remaining \ {n}
    BY <1>3, <1>7
  <2>4. y = v[n]
    BY DEF y
  <2>5. \A m \in Entries, z \in Values : <<m, z>> \in KnownOf(w.data["Last"]) => z = v[m]
    BY <1>9, <2>1, <2>4 DEF HeldKnown
  <2>6. \A m \in Entries : v[m] # Default =>
          m \in w.remaining \/ <<m, v[m]>> \in KnownOf(w.data["Last"])
    BY <1>9, <2>1, <2>3, <2>4 DEF HeldKnown
  <2>7. \A k \in Keys : k # "Last" => KnownOf(w.data[k]) = {}
    BY <1>9, <2>1 DEF HeldKnown
  <2>8. ~ w.changed => KnownOf(g) = KnownOf(w.data["Last"])
    BY <1>8, <1>9, <2>1, <2>2 DEF HeldKnown
  <2> QED BY <2>5, <2>6, <2>7, <2>8 DEF HeldKnown
<1>12. HeldForeign(g, w)
  <2>1. HeldForeign(f, c)
    BY DEF ScanInv, Held
  <2>2. \A s \in Names, k \in Keys : ForeignOf(w.data[k], s) = ForeignOf(c.data[k], s)
    BY <1>9
  <2> QED BY <1>8, <2>1, <2>2, KeyFacts DEF HeldForeign
<1>13. HeldComments(g, w)
  <2>1. HeldComments(f, c) /\ (Noted(f) => Noted(c.junk))
    BY DEF ScanInv, Held, Place
  <2>2. \A k \in Keys : CommentedOf(c.data[k]) \subseteq CommentedOf(w.data[k])
    BY <1>9
  <2>3. SUFFICES ASSUME NEW p \in CommentedOf(g)
                 PROVE  \E k \in Keys : p \in CommentedOf(w.data[k])
    BY DEF HeldComments
  <2>4. p \in CommentedOf(f) \/ (Noted(f) /\ p = <<"Last", n>>)
    BY <1>8
  <2>5. CASE p \in CommentedOf(f)
    <3>1. PICK k \in Keys : p \in CommentedOf(c.data[k])
      BY <2>1, <2>5 DEF HeldComments
    <3> QED BY <2>2, <3>1
  <2>6. CASE Noted(f) /\ p = <<"Last", n>>
    <3>1. p \in CommentedOf(w.data["Last"])
      BY <1>9, <2>1, <2>6
    <3> QED BY <3>1, KeyFacts
  <2> QED BY <2>4, <2>5, <2>6
<1> QED BY <1>1, <1>6, <1>10, <1>11, <1>12, <1>13 DEF ScanInv, Held, w

(* Any other assignment stays as it is.                                    *)
LEMMA ForeignScanned ==
  ASSUME NEW f \in Seq(Line), NEW c, NEW v \in [Entries -> Values], NEW x \in Line,
         ScanInv(f, c, v), x.kind = "entry", ~ IsEntry(c.section, x.name)
  PROVE  ScanInv(Append(f, x), ScanLine(c, x, v), v)
<1> DEFINE g == Append(f, x)
           w == ScanLine(c, x, v)
           t == Section(f)
           d == c.data[c.section]
           e == w.data[c.section]
<1>1. c \in ScanState /\ w \in ScanState /\ c.section \in Keys
  BY ScanLineType DEF ScanInv, ScanState
<1>2. w = WriteSectionData(c, x)
  BY DEF ScanLine, SaveForeign
<1> HIDE DEF w
<1>3. Section(d) = t /\ c.section = Key(t) /\ t \in Names
  BY PartInPlace, SectionAppend DEF ScanInv, Place
<1>4. ~ IsEntry(t, x.name)
  BY <1>3, KeyFacts DEF IsEntry
<1>5. Shape(w) /\ Opened(w)
  BY <1>1, <1>2, ShapeWritten DEF ScanInv
<1>6. /\ w.section = c.section /\ w.remaining = c.remaining /\ w.changed = c.changed
      /\ \A k \in Keys : k # c.section => w.data[k] = c.data[k]
  <2>1. c \in ScanState
    BY <1>1
  <2>2. Wrote(c, x, w)
    BY <1>2, <2>1, WriteEffect
  <2> QED BY <2>2 DEF Wrote
<1>7. Extended(d, c.junk, x, e)
  BY <1>1, <1>2, PartWritten
<1> DEFINE j == c.junk
<1> HIDE DEF d, e, j
<1>8. /\ Section(e) = t
      /\ KnownOf(e) = KnownOf(d)
      /\ CommentedOf(d) \subseteq CommentedOf(e)
      /\ Noted(j) => <<t, x.name>> \in CommentedOf(e)
      /\ \A s \in Names : ForeignOf(e, s) =
           IF s = t THEN Append(ForeignOf(d, s), x) ELSE ForeignOf(d, s)
  <2>1. Extended(d, j, x, e)
    BY <1>7 DEF j
  <2> HIDE DEF t
  <2> QED BY <1>3, <1>4, <2>1 DEF Extended
<1>9. /\ KnownOf(g) = KnownOf(f)
      /\ CommentedOf(g) = CommentedOf(f) \cup IF Noted(f) THEN {<<t, x.name>>} ELSE {}
      /\ \A s \in Names : ForeignOf(g, s) =
           IF s = t THEN Append(ForeignOf(f, s), x) ELSE ForeignOf(f, s)
      /\ Section(g) = t /\ ~ Noted(g)
  <2>1. KnownOf(g) = KnownOf(f)
    BY <1>4, KnownAppend
  <2>2. CommentedOf(g) = CommentedOf(f) \cup IF Noted(f) THEN {<<t, x.name>>} ELSE {}
    BY CommentedAppend
  <2>3. ASSUME NEW s \in Names
        PROVE  ForeignOf(g, s) =
                 IF s = t THEN Append(ForeignOf(f, s), x) ELSE ForeignOf(f, s)
    BY <1>4, ForeignAppend
  <2>4. x # Comment("note")
    BY DEF Comment
  <2> QED BY <2>1, <2>2, <2>3, <2>4, SectionAppend, TitlesAppend
<1> HIDE DEF t, g
<1>10. Place(g, w)
  BY <1>3, <1>6, <1>8, <1>9 DEF Place, e
<1>11. \A k \in Keys : KnownOf(w.data[k]) = KnownOf(c.data[k])
  BY <1>1, <1>6, <1>8 DEF d, e
<1>12. HeldKnown(g, w, w.remaining, v)
  BY <1>6, <1>9, <1>11, KeyFacts DEF ScanInv, Held, HeldKnown
<1>13. HeldForeign(g, w)
  <2>1. HeldForeign(f, c)
    BY DEF ScanInv, Held
  <2>2. ASSUME NEW s \in Names PROVE ForeignOf(w.data[Key(s)], s) = ForeignOf(g, s)
    <3>1. ForeignOf(c.data[Key(s)], s) = ForeignOf(f, s) /\ Key(s) \in Keys
      BY <2>1, KeyFacts DEF HeldForeign
    <3>2. CASE Key(s) = c.section
      <4>1. ForeignOf(e, s) = ForeignOf(w.data[Key(s)], s)
        BY <3>2 DEF e
      <4>2. ForeignOf(d, s) = ForeignOf(f, s)
        BY <3>1, <3>2 DEF d
      <4> QED BY <1>8, <1>9, <4>1, <4>2
    <3>3. CASE Key(s) # c.section
      <4>1. s # t
        BY <1>3, <3>3
      <4> QED BY <1>6, <1>9, <3>1, <3>3, <4>1
    <3> QED BY <3>2, <3>3
  <2>3. ASSUME NEW s \in Names, NEW k \in Keys, k # Key(s)
        PROVE  ForeignOf(w.data[k], s) = <<>>
    <3>1. ForeignOf(c.data[k], s) = <<>>
      BY <2>1, <2>3 DEF HeldForeign
    <3>2. CASE k = c.section
      <4>1. s # t
        BY <1>3, <2>3, <3>2
      <4> QED BY <1>8, <3>1, <3>2, <4>1 DEF d, e
    <3>3. CASE k # c.section
      BY <1>6, <3>1, <3>3
    <3> QED BY <3>2, <3>3
  <2> QED BY <2>2, <2>3 DEF HeldForeign
<1>14. HeldComments(g, w)
  <2>1. HeldComments(f, c) /\ (Noted(f) => Noted(j))
    BY DEF ScanInv, Held, Place, j
  <2>2. \A k \in Keys : CommentedOf(c.data[k]) \subseteq CommentedOf(w.data[k])
    BY <1>6, <1>8 DEF d, e
  <2>3. Noted(f) => <<t, x.name>> \in CommentedOf(w.data[c.section])
    BY <1>8, <2>1 DEF e
  <2>4. SUFFICES ASSUME NEW p \in CommentedOf(g)
                 PROVE  \E k \in Keys : p \in CommentedOf(w.data[k])
    BY DEF HeldComments
  <2>5. p \in CommentedOf(f) \/ (Noted(f) /\ p = <<t, x.name>>)
    BY <1>9
  <2>6. CASE p \in CommentedOf(f)
    <3>1. PICK k \in Keys : p \in CommentedOf(c.data[k])
      BY <2>1, <2>6 DEF HeldComments
    <3> QED BY <2>2, <3>1
  <2>7. CASE Noted(f) /\ p = <<t, x.name>>
    <3>1. p \in CommentedOf(w.data[c.section])
      BY <2>3, <2>7
    <3> QED BY <1>1, <3>1
  <2> QED BY <2>5, <2>6, <2>7
<1> QED BY <1>1, <1>5, <1>10, <1>12, <1>13, <1>14 DEF ScanInv, Held, w, g

(* The scan of a file holds what the file has.                             *)
LEMMA ScanHolds ==
  ASSUME NEW f \in Seq(Line), NEW v \in [Entries -> Values]
  PROVE  ScanInv(f, Scanned(f, v), v)
<1> DEFINE T == {g \in Seq(Line) : ScanInv(g, Scanned(g, v), v)}
<1>1. <<>> \in T
  <2>1. <<>> \in Seq(Line) /\ Scanned(<<>>, v) = Scan(v)
    BY EmptySeq, ScanAppend
  <2> QED BY <2>1, ScanStarts
<1>2. ASSUME NEW g \in Seq(Line), NEW x \in Line, g \in T
      PROVE  Append(g, x) \in T
  <2> DEFINE c == Scanned(g, v)
  <2>1. ScanInv(g, c, v)
    BY <1>2
  <2>2. Scanned(Append(g, x), v) = ScanLine(c, x, v) /\ Append(g, x) \in Seq(Line)
    BY ScanAppend, AppendProperties
  <2> HIDE DEF c
  <2>3. CASE x.kind = "comment"
    BY <2>1, <2>2, <2>3, CommentScanned
  <2>4. CASE x.kind = "section"
    BY <2>1, <2>2, <2>4, TitleScanned
  <2>5. CASE x.kind = "entry" /\ IsEntry(c.section, x.name)
    BY <2>1, <2>2, <2>5, EntryScanned
  <2>6. CASE x.kind = "entry" /\ ~ IsEntry(c.section, x.name)
    BY <2>1, <2>2, <2>6, ForeignScanned
  <2> QED BY <2>3, <2>4, <2>5, <2>6, Lines
<1>3. f \in T
  <2>1. \A g \in Seq(Line), x \in Line : g \in T => Append(g, x) \in T
    BY <1>2
  <2> HIDE DEF T
  <2> QED BY <1>1, <2>1, FilesByLine, Zenon
<1> QED BY <1>3
-----------------------------------------------------------------------------
(* Where the scan ends without a line break.                               *)

(* What is written next stands on a line of its own: the section that is   *)
(* added comes behind no title of General and no comment, and the first    *)
(* section of two is ended.                                                *)
Apart(c) ==
  /\ Contains(c.order, "Last") \/ c.open \notin {Junk, "General"}
  /\ Len(c.order) = 2 => c.open # c.order[1]

(* The scans of files, and those after further entries: a section in the   *)
(* order has lines, and an open comment is one.                            *)
Filled(c) == \A k \in Sections : Contains(c.order, k) <=> c.data[k] # <<>>
FilledStates == {c \in ScanState : Filled(c) /\ (c.open = Junk => c.junk # <<>>)}

(* The orders of at most two sections.                                     *)
LEMMA OrderPairs ==
  ASSUME NEW o \in Orders
  PROVE  /\ Len(o) \in {0, 1, 2}
         /\ Len(o) = 0 <=> o = <<>>
         /\ Len(o) = 1 => \A s \in Sections : Contains(o, s) <=> o[1] = s
         /\ Len(o) = 2 => \A s \in Sections : Contains(o, s)
         /\ o # <<>> => o[1] \in Sections
<1>1. CASE o = <<>>
  BY <1>1
<1>2. CASE o = <<"General">>
  BY <1>2 DEF Sections, Contains
<1>3. CASE o = <<"Last">>
  BY <1>3 DEF Sections, Contains
<1>4. CASE o = <<"General", "Last">>
  BY <1>4 DEF Sections, Contains
<1>5. CASE o = <<"Last", "General">>
  BY <1>5 DEF Sections, Contains
<1> QED BY <1>1, <1>2, <1>3, <1>4, <1>5 DEF Orders

(* What a line does to the order of the sections.                          *)
LEMMA OrderScanned ==
  ASSUME NEW c \in ScanState, NEW x \in Line, NEW v \in [Entries -> Values],
         NEW w, w = ScanLine(c, x, v)
  PROVE  /\ w.open = c.open
         /\ w.section = IF x.kind = "section" THEN Key(x.name) ELSE c.section
         /\ w.order = IF \/ x.kind = "comment" \/ w.section = Unused
                         \/ Contains(c.order, w.section)
                        THEN c.order ELSE Append(c.order, w.section)
         /\ x.kind = "comment" => w.junk # <<>>
<1>1. CASE x.kind = "comment"
  <2>1. w = [c EXCEPT !.junk = Append(c.junk, x)]
    BY <1>1 DEF ScanLine, CollectJunk
  <2>2. w.junk = Append(c.junk, x) /\ c.junk \in Seq(Comments)
    BY <2>1 DEF ScanState
  <2>3. x \in Comments
    BY <1>1, Lines
  <2>4. w.junk # <<>>
    BY <2>2, <2>3, AppendProperties
  <2> QED BY <1>1, <2>1, <2>4 DEF ScanState
<1>2. CASE x.kind = "section"
  <2>1. w = SaveTitle(c, x)
    BY <1>2 DEF ScanLine
  <2>2. CASE x.name \in Sections
    <3> DEFINE in == [c EXCEPT !.section = x.name]
    <3>1. /\ in \in ScanState /\ in.section = x.name /\ in.order = c.order
          /\ in.open = c.open /\ Key(x.name) = x.name
      BY <2>2 DEF ScanState, Keys, Key
    <3>2. w = IF Contains(c.order, x.name) THEN in ELSE WriteSectionData(in, x)
      BY <2>1, <2>2 DEF SaveTitle
    <3> HIDE DEF in
    <3>3. Wrote(in, x, WriteSectionData(in, x))
      BY <3>1, WriteEffect
    <3> QED BY <1>2, <2>2, <3>1, <3>2, <3>3, KeyFacts DEF Wrote
  <2>3. CASE x.name \notin Sections
    <3> DEFINE in == [c EXCEPT !.section = Unused]
    <3>1. /\ in \in ScanState /\ in.section = Unused /\ in.order = c.order
          /\ in.open = c.open /\ Key(x.name) = Unused
      BY <2>3 DEF ScanState, Keys, Key
    <3>2. w = WriteSectionData(in, x)
      BY <2>1, <2>3 DEF SaveTitle
    <3> HIDE DEF in
    <3>3. Wrote(in, x, w)
      BY <3>1, <3>2, WriteEffect
    <3> QED BY <1>2, <3>1, <3>3 DEF Wrote
  <2> QED BY <2>2, <2>3
<1>3. CASE x.kind = "entry" /\ IsEntry(c.section, x.name)
  <2> DEFINE in == [c EXCEPT !.changed = @ \/ x.value # v[x.name],
                             !.remaining = @ \ {x.name}]
             y == Assign(x.name, v[x.name])
  <2>1. in \in ScanState /\ in.section = c.section /\ in.order = c.order /\ in.open = c.open
    BY DEF ScanState
  <2>2. y \in Line
    BY <1>3, Lines DEF IsEntry
  <2>3. w = WriteSectionData(in, y)
    BY <1>3 DEF ScanLine, SaveEntry
  <2> HIDE DEF in, y
  <2>4. Wrote(in, y, w)
    BY <2>1, <2>2, <2>3, WriteEffect
  <2> QED BY <1>3, <2>1, <2>4 DEF Wrote
<1>4. CASE x.kind = "entry" /\ ~ IsEntry(c.section, x.name)
  <2>1. w = WriteSectionData(c, x)
    BY <1>4 DEF ScanLine, SaveForeign
  <2>2. Wrote(c, x, w)
    BY <2>1, WriteEffect
  <2> QED BY <1>4, <2>2 DEF Wrote
<1> QED BY <1>1, <1>2, <1>3, <1>4, Lines

(* The titles of a file with one line more.                                *)
LEMMA TitleAppend ==
  ASSUME NEW f \in Seq(Line), NEW x \in Line, NEW s
  PROVE  /\ HasTitle(Append(f, x), s) <=>
              HasTitle(f, s) \/ (x.kind = "section" /\ x.name = s)
         /\ ~ HasTitle(<<>>, s)
<1> DEFINE e == Append(f, x)
<1>1. /\ Len(e) = Len(f) + 1 /\ Len(f) \in Nat /\ e[Len(f) + 1] = x
      /\ \A i \in 1..Len(f) : e[i] = f[i]
  BY AppendProperties
<1> HIDE DEF e
<1>2. /\ \A i \in 1..Len(e) : i \in 1..Len(f) \/ i = Len(f) + 1
      /\ Len(f) + 1 \in 1..Len(e)
      /\ \A i \in 1..Len(f) : i \in 1..Len(e)
  BY <1>1
<1>3. HasTitle(e, s) <=> HasTitle(f, s) \/ (x.kind = "section" /\ x.name = s)
  BY <1>1, <1>2 DEF HasTitle
<1>4. ~ HasTitle(<<>>, s)
  BY DEF HasTitle
<1> QED BY <1>3, <1>4 DEF e

(* A section that has its title is in the order, and without a title of    *)
(* General nothing of General is written once Last is.                     *)
TitlesOrdered(f, c) ==
  /\ c.open = Nowhere
  /\ HasTitle(f, "Last") => Contains(c.order, "Last")
  /\ ~ HasTitle(f, "General") =>
       /\ Len(c.order) = 2 => c.order[1] = "General"
       /\ c.section = "General" => ~ Contains(c.order, "Last")

LEMMA OrderOfTitles ==
  ASSUME NEW f \in Seq(Line), NEW v \in [Entries -> Values]
  PROVE  TitlesOrdered(f, Scanned(f, v))
<1> DEFINE T == {g \in Seq(Line) : TitlesOrdered(g, Scanned(g, v))}
<1>1. <<>> \in T
  <2>1. <<>> \in Seq(Line) /\ Scanned(<<>>, v) = Scan(v)
    BY EmptySeq, ScanAppend
  <2>2. Scan(v).open = Nowhere /\ Scan(v).order = <<>>
    BY DEF Scan
  <2>3. ~ HasTitle(<<>>, "Last")
    BY DEF HasTitle
  <2>4. Len(<<>>) = 0 /\ ~ Contains(<<>>, "Last")
    BY DEF Contains
  <2>5. TitlesOrdered(<<>>, Scan(v))
    BY <2>2, <2>3, <2>4 DEF TitlesOrdered
  <2> QED BY <2>1, <2>5
<1>2. ASSUME NEW g \in Seq(Line), NEW x \in Line, g \in T
      PROVE  Append(g, x) \in T
  <2> DEFINE c == Scanned(g, v)
             w == Scanned(Append(g, x), v)
             e == Append(g, x)
  <2>1. /\ TitlesOrdered(g, c) /\ c \in ScanState /\ w \in ScanState
        /\ w = ScanLine(c, x, v) /\ e \in Seq(Line)
    BY <1>2, ScanAppend, AppendProperties
  <2>2. \A s : HasTitle(e, s) <=> HasTitle(g, s) \/ (x.kind = "section" /\ x.name = s)
    BY TitleAppend
  <2> HIDE DEF c, w, e
  <2>3. /\ w.open = c.open
        /\ w.section = IF x.kind = "section" THEN Key(x.name) ELSE c.section
        /\ w.order = IF \/ x.kind = "comment" \/ w.section = Unused
                        \/ Contains(c.order, w.section)
                       THEN c.order ELSE Append(c.order, w.section)
    BY <2>1, OrderScanned
  <2>4. c.order \in Orders /\ w.order \in Orders /\ w.section \in Keys
    BY <2>1 DEF ScanState
  <2>5. \/ w.order = c.order
        \/ /\ w.section \in Sections /\ ~ Contains(c.order, w.section)
           /\ w.order = Append(c.order, w.section) /\ x.kind # "comment"
    BY <2>3, <2>4 DEF Keys
  <2>6. \A s \in Sections :
          Contains(w.order, s) <=>
            Contains(c.order, s) \/ (w.order # c.order /\ s = w.section)
    <3>1. CASE w.order = c.order
      BY <3>1
    <3>2. CASE w.order # c.order
      <4>1. /\ w.section \in Sections /\ ~ Contains(c.order, w.section)
            /\ w.order = Append(c.order, w.section)
        BY <2>5, <3>2
      <4>2. \A t \in Sections :
              Contains(w.order, t) <=> Contains(c.order, t) \/ t = w.section
        BY <2>4, <4>1, OrderGrows
      <4> QED BY <3>2, <4>2
    <3> QED BY <3>1, <3>2
  <2>7. "Last" \in Sections /\ "General" \in Sections /\ Key("Last") = "Last"
    BY KeyFacts
  <2>8. HasTitle(e, "Last") => Contains(w.order, "Last")
    <3>1. CASE HasTitle(g, "Last")
      BY <2>1, <2>6, <2>7, <3>1 DEF TitlesOrdered
    <3>2. CASE x.kind = "section" /\ x.name = "Last"
      <4>1. w.section = "Last" /\ "Last" # Unused
        BY <2>3, <2>7, <3>2 DEF Unused
      <4>2. CASE Contains(c.order, "Last")
        BY <2>6, <2>7, <4>2
      <4>3. CASE ~ Contains(c.order, "Last")
        <5>1. w.order = Append(c.order, "Last")
          BY <2>3, <3>2, <4>1, <4>3
        <5> QED BY <2>4, <2>7, <4>3, <5>1, OrderGrows
      <4> QED BY <4>2, <4>3
    <3> QED BY <2>2, <3>1, <3>2
  <2>9. ASSUME ~ HasTitle(e, "General")
        PROVE  /\ Len(w.order) = 2 => w.order[1] = "General"
               /\ w.section = "General" => ~ Contains(w.order, "Last")
    <3>1. /\ ~ HasTitle(g, "General")
          /\ ~ (x.kind = "section" /\ x.name = "General")
      BY <2>2, <2>9
    <3>2. w.section = "General" => c.section = "General" /\ ~ Contains(c.order, "Last")
      BY <2>1, <2>3, <3>1, KeyFacts DEF TitlesOrdered, Key, Unused
    <3>3. w.section = "General" => ~ Contains(w.order, "Last")
      BY <2>6, <2>7, <3>2
    <3>4. ASSUME Len(w.order) = 2, w.order # c.order PROVE w.order[1] = "General"
      <4>1. /\ w.section \in Sections /\ ~ Contains(c.order, w.section)
            /\ w.order = Append(c.order, w.section)
        BY <2>5, <3>4
      <4>2. c.order \in Seq(Sections)
        BY <2>4, OrderGrows
      <4>3. Len(c.order) = 1 /\ w.order[1] = c.order[1]
        <5>1. Len(w.order) = Len(c.order) + 1 /\ Len(c.order) \in Nat
          BY <4>1, <4>2, AppendProperties
        <5>2. Len(c.order) = 1
          <6> DEFINE m == Len(w.order)
                     n == Len(c.order)
          <6>1. m = 2 /\ m = n + 1 /\ n \in Nat
            BY <3>4, <5>1
          <6> HIDE DEF m, n
          <6>2. n = 1
            BY <6>1
          <6> QED BY <6>2 DEF n
        <5>3. c.order # <<>>
          BY <2>4, <5>2, OrderPairs
        <5> QED BY <2>4, <4>1, <5>2, <5>3, OrderGrows
      <4>4. c.order[1] \in Sections /\ c.order[1] # w.section
        BY <2>4, <4>1, <4>3, OrderPairs
      <4>5. w.section # "General"
        BY <2>4, <2>7, <3>2, <4>3, <4>4, OrderPairs DEF Sections
      <4> QED BY <4>1, <4>3, <4>4, <4>5 DEF Sections
    <3> QED BY <2>1, <3>1, <3>3, <3>4 DEF TitlesOrdered
  <2>10. TitlesOrdered(e, w)
    BY <2>1, <2>3, <2>8, <2>9 DEF TitlesOrdered
  <2> QED BY <2>1, <2>10 DEF e, w
<1>3. f \in T
  <2>1. \A g \in Seq(Line), x \in Line : g \in T => Append(g, x) \in T
    BY <1>2
  <2> HIDE DEF T
  <2> QED BY <1>1, <2>1, FilesByLine, Zenon
<1> QED BY <1>3

(* A file that has lines is all but the last one, and the last one.        *)
LEMMA LastLine ==
  ASSUME NEW S, NEW f \in Seq(S), f # <<>>
  PROVE  /\ Front(f) \in Seq(S) /\ Last(f) \in S
         /\ f = Append(Front(f), Last(f))
<1>1. Len(f) \in Nat /\ Len(f) # 0
  BY EmptySeq, LenProperties
<1>2. Len(f) \in 1..Len(f)
  BY <1>1
<1>3. SubSeq(f, 1, Len(f)) = Append(SubSeq(f, 1, Len(f) - 1), f[Len(f)])
  <2>1. \A k \in 1..Len(f) : SubSeq(f, 1, k) = Append(SubSeq(f, 1, k - 1), f[k])
    BY SubSeqRecursiveSecond
  <2> QED BY <1>2, <2>1
<1>4. SubSeq(f, 1, Len(f) - 1) \in Seq(S) /\ f[Len(f)] \in S
  <2>1. \A i \in 1..(Len(f) - 1) : i \in 1..Len(f)
    BY <1>1
  <2> QED BY <1>1, <1>2, <2>1, SubSeqProperties, ElementOfSeq
<1>5. SubSeq(f, 1, Len(f)) = f
  BY SubSeqFull
<1> QED BY <1>3, <1>4, <1>5 DEF Front, Last

(* Only where the last line without a line break went, the scan of a file  *)
(* differs from the scan of its lines; and what comes next stands apart if *)
(* the lines of the file are kept apart.                                   *)
LEMMA FileScanned ==
  ASSUME NEW file \in File, NEW v \in [Entries -> Values]
  PROVE  /\ ScannedFile(file, v) =
              [Scanned(file.lines, v) EXCEPT !.open = ScannedFile(file, v).open]
         /\ ScannedFile(file, v) \in FilledStates /\ Shape(ScannedFile(file, v))
         /\ KeptApart(file) => Apart(ScannedFile(file, v))
<1> DEFINE f == file.lines
           s == Scanned(f, v)
           w == ScannedFile(file, v)
           Goal == /\ w = [s EXCEPT !.open = w.open]
                   /\ w \in FilledStates /\ Shape(w)
                   /\ KeptApart(file) => Apart(w)
<1>0. f \in Seq(Line) /\ s \in ScanState /\ Shape(s) /\ TitlesOrdered(f, s)
  BY ScanHolds, OrderOfTitles DEF File, ScanInv
<1>1. s.order \in Orders /\ \A k \in Sections : k # Junk /\ k # Nowhere /\ k # Unused
  BY <1>0 DEF ScanState, Sections, Junk, Nowhere, Unused
<1>2. ASSUME NEW o \in Keys \cup {Junk, Nowhere}, w = [s EXCEPT !.open = o],
             o = Junk => s.junk # <<>>,
             KeptApart(file) => /\ Contains(s.order, "Last") \/ o \notin {Junk, "General"}
                                /\ Len(s.order) = 2 => o # s.order[1]
      PROVE  Goal
  <2> HIDE DEF s, w
  <2>1. /\ w.open = o /\ w.order = s.order /\ w.junk = s.junk /\ w.data = s.data
        /\ w \in ScanState
    BY <1>0, <1>2 DEF ScanState
  <2>2. Shape(w)
    BY <1>0, <2>1 DEF Shape
  <2>3. KeptApart(file) => Apart(w)
    BY <1>2, <2>1 DEF Apart
  <2> QED BY <1>2, <2>1, <2>2, <2>3 DEF FilledStates, Filled, Shape
<1> HIDE DEF Goal
<1>3. ASSUME file.ended \/ f = <<>> PROVE Goal
  <2>1. w = s /\ s.open = Nowhere
    BY <1>0, <1>3 DEF ScannedFile, TitlesOrdered
  <2>2. s = [s EXCEPT !.open = Nowhere]
    BY <1>0, <2>1 DEF ScanState
  <2>3. /\ Nowhere \notin {Junk, "General"} /\ Nowhere # Junk
        /\ Len(s.order) = 2 => Nowhere # s.order[1]
    <3>1. Nowhere # "General" /\ Nowhere # Junk
      BY DEF Nowhere, Junk
    <3>2. Len(s.order) = 2 => s.order[1] \in Sections
      BY <1>1, OrderPairs
    <3> QED BY <1>1, <3>1, <3>2
  <2>4. Nowhere \in Keys \cup {Junk, Nowhere}
    OBVIOUS
  <2> HIDE DEF s, w
  <2> QED BY <1>2, <2>1, <2>2, <2>3, <2>4
<1>4. ASSUME ~ file.ended, f # <<>> PROVE Goal
  <2> DEFINE g == Front(f)
             x == Last(f)
             b == Scanned(g, v)
             o == CopiedTo(b, x, v)
  <2>1. g \in Seq(Line) /\ x \in Line /\ f = Append(g, x)
    BY <1>0, <1>4, LastLine
  <2>2. b \in ScanState /\ s = ScanLine(b, x, v) /\ TitlesOrdered(g, b)
    BY <2>1, ScanAppend, OrderOfTitles
  <2>3. w = [s EXCEPT !.open = o]
    BY <1>4, <2>2 DEF ScannedFile
  <2>4. /\ s.section = IF x.kind = "section" THEN Key(x.name) ELSE b.section
        /\ s.order = IF \/ x.kind = "comment" \/ s.section = Unused
                        \/ Contains(b.order, s.section)
                       THEN b.order ELSE Append(b.order, s.section)
        /\ x.kind = "comment" => s.junk # <<>>
    BY <2>1, <2>2, OrderScanned
  <2>5. KeptApart(file) => IF x.kind = "entry" THEN ~ HasTitle(f, "General")
                                              ELSE HasTitle(f, "Last")
    BY <1>4 DEF KeptApart
  <2>6. Len(s.order) = 2 => s.order[1] \in Sections
    BY <1>1, OrderPairs
  <2> HIDE DEF f, s, w, g, x, b
  <2>7. ASSUME x.kind = "comment" PROVE Goal
    <3>1. o = Junk
      BY <2>7 DEF CopiedTo
    <3>2. KeptApart(file) => Contains(s.order, "Last")
      BY <1>0, <2>5, <2>7 DEF TitlesOrdered
    <3> HIDE DEF o
    <3> QED BY <1>1, <1>2, <2>3, <2>4, <2>6, <2>7, <3>1, <3>2
  <2>8. ASSUME x.kind = "section", x.name \in Sections, ~ Contains(b.order, x.name)
        PROVE  Goal
    <3>1. o = x.name /\ o \in Sections /\ o \in Keys
      BY <2>8, KeyFacts DEF CopiedTo
    <3>2. KeptApart(file) => Contains(s.order, "Last")
      BY <1>0, <2>5, <2>8 DEF TitlesOrdered
    <3> HIDE DEF o
    <3>3. s.section = o /\ s.order = Append(b.order, o)
      BY <1>1, <2>4, <2>8, <3>1 DEF Key
    <3>4. Len(s.order) = 2 => o # s.order[1]
      <4>1. b.order \in Orders /\ b.order \in Seq(Sections)
        BY <2>2, OrderGrows DEF ScanState
      <4>2. Len(s.order) = Len(b.order) + 1
        BY <3>1, <3>3, <4>1, AppendProperties
      <4>3. Len(s.order) = 2 => b.order # <<>> /\ Len(b.order) = 1
        <5>1. Len(b.order) \in {0, 1, 2} /\ (Len(b.order) = 0 <=> b.order = <<>>)
          BY <4>1, OrderPairs
        <5> QED BY <4>2, <5>1
      <4>4. b.order # <<>> => s.order[1] = b.order[1]
        BY <2>8, <3>1, <3>3, <4>1, OrderGrows
      <4> QED BY <2>8, <3>1, <4>1, <4>3, <4>4, OrderPairs
    <3> QED BY <1>1, <1>2, <2>3, <3>1, <3>2, <3>4
  <2>9. ASSUME x.kind = "section", x.name \notin Sections PROVE Goal
    <3>1. o = Unused /\ Unused \in Keys /\ Unused # Junk /\ Unused # "General"
      BY <2>9, KeyFacts DEF CopiedTo, Unused, Junk
    <3> HIDE DEF o
    <3> QED BY <1>1, <1>2, <2>3, <2>6, <3>1
  <2>10. ASSUME x.kind = "entry", IsEntry(b.section, x.name), x.value = v[x.name]
         PROVE  Goal
    <3>1. o = "Last" /\ "Last" \in Keys /\ "Last" # Junk
      BY <2>10, KeyFacts DEF CopiedTo, IsEntry, Junk
    <3>2. KeptApart(file) /\ Len(s.order) = 2 => s.order[1] = "General"
      BY <1>0, <2>5, <2>10 DEF TitlesOrdered
    <3> HIDE DEF o
    <3> QED BY <1>2, <2>3, <3>1, <3>2
  <2>11. ASSUME \/ x.kind = "section" /\ x.name \in Sections /\ Contains(b.order, x.name)
                \/ x.kind = "entry" /\ ~ (IsEntry(b.section, x.name) /\ x.value = v[x.name])
         PROVE  Goal
    <3>1. o = Nowhere /\ Nowhere # Junk /\ Nowhere # "General"
      BY <2>11 DEF CopiedTo, Nowhere, Junk
    <3> HIDE DEF o
    <3> QED BY <1>1, <1>2, <2>3, <2>6, <3>1
  <2>12. x.kind \in {"comment", "section", "entry"}
    BY <2>1, Lines
  <2> QED BY <2>7, <2>8, <2>9, <2>10, <2>11, <2>12
<1>5. Goal
  BY <1>3, <1>4
<1> QED BY <1>5 DEF Goal
-----------------------------------------------------------------------------
(* The entries that are added at the end.                                  *)

(* Two lines without a line break between them are one line.               *)
LEMMA JoinType == \A x, y \in Line : Join(x, y) \in Line
<1> SUFFICES ASSUME NEW x \in Line, NEW y \in Line PROVE Join(x, y) \in Line
  OBVIOUS
<1>1. Mangled \in Names /\ Mangled \in Values
  BY MangledAssumption DEF Names
<1>2. Title(Mangled) \in Line /\ (x.kind = "entry" => Assign(x.name, Mangled) \in Line)
  BY <1>1, Lines
<1>3. CASE "comment" \in {x.kind, y.kind}
  BY <1>3 DEF Join
<1>4. CASE "comment" \notin {x.kind, y.kind}
  BY <1>2, <1>4, Lines DEF Join
<1> QED BY <1>3, <1>4

(* A section that is written to is in the order and has lines.             *)
LEMMA FilledWritten ==
  ASSUME NEW c \in ScanState, Filled(c), NEW x \in Line, NEW w, w = WriteSectionData(c, x)
  PROVE  /\ Filled(w) /\ (c.section \in Sections => Contains(w.order, c.section))
         /\ w \in ScanState /\ w.section = c.section /\ w.changed = c.changed
         /\ w.open = c.open
         /\ w.order = IF c.section = Unused \/ Contains(c.order, c.section)
                        THEN c.order ELSE Append(c.order, c.section)
<1>1. Wrote(c, x, w)
  BY WriteEffect
<1> DEFINE s == c.section
<1>2. c.order \in Orders /\ s \in Keys /\ c.data[s] \in Seq(Line) /\ c.junk \in Seq(Line)
  <2>1. Seq(Comments) \subseteq Seq(Line)
    BY Lines, SeqMonotonic
  <2> QED BY <2>1 DEF ScanState
<1>3. w.data[s] # <<>>
  <2> DEFINE a == c.data[s]
             j == c.junk
             e == Append(a \o j, x)
  <2>1. a \in Seq(Line) /\ j \in Seq(Line) /\ w.data[s] = a \o j \o <<x>>
    BY <1>1, <1>2 DEF Wrote
  <2> HIDE DEF a, j, e
  <2>2. a \o j \in Seq(Line) /\ a \o j \o <<x>> = Append(a \o j, x)
    BY <2>1, ConcatAppend
  <2>3. \A q \in Seq(Line) : Append(q, x) # <<>>
    BY AppendProperties
  <2>4. Append(a \o j, x) # <<>>
    BY <2>2, <2>3
  <2> QED BY <2>1, <2>2, <2>4
<1>4. \A k \in Sections : Contains(w.order, k) <=> Contains(c.order, k) \/ k = s
  <2>1. CASE s = Unused \/ Contains(c.order, s)
    BY <1>1, <2>1, KeyFacts DEF Wrote
  <2>2. CASE ~ (s = Unused \/ Contains(c.order, s))
    <3>1. s \in Sections /\ w.order = Append(c.order, s)
      BY <1>1, <1>2, <2>2 DEF Wrote, Keys
    <3> QED BY <1>2, <2>2, <3>1, OrderGrows
  <2> QED BY <2>1, <2>2
<1>5. Filled(w)
  BY <1>1, <1>3, <1>4, KeyFacts DEF Filled, Wrote
<1> QED BY <1>1, <1>4, <1>5 DEF Wrote

(* The title of the section that is added, on the last line of the         *)
(* comments if that one is not ended.                                      *)
LEMMA TitleAdded ==
  ASSUME NEW c \in FilledStates, c.section = "Last", NEW w, w = AddTitle(c)
  PROVE  /\ w \in ScanState /\ Filled(w) /\ Contains(w.order, "Last")
         /\ w.section = "Last" /\ w.changed = c.changed /\ w.open = c.open
         /\ w.order = IF Contains(c.order, "Last") THEN c.order ELSE Append(c.order, "Last")
         /\ Apart(c) => w = IF Contains(c.order, "Last")
                              THEN c ELSE WriteSectionData(c, Title("Last"))
<1>1. c \in ScanState /\ Filled(c) /\ (c.open = Junk => c.junk # <<>>)
  BY DEF FilledStates
<1>2. "Last" \in Sections /\ "Last" # Unused
  BY KeyFacts
<1>3. CASE Contains(c.order, "Last")
  <2>1. w = c
    BY <1>3 DEF AddTitle
  <2> QED BY <1>1, <1>3, <2>1
<1>4. CASE ~ Contains(c.order, "Last") /\ c.open # Junk
  <2> DEFINE z == Title("Last")
  <2>1. z \in Line
    BY Lines, KeyFacts
  <2>2. w = WriteSectionData(c, z)
    BY <1>4 DEF AddTitle
  <2> HIDE DEF z
  <2>3. /\ Filled(w) /\ (c.section \in Sections => Contains(w.order, c.section))
        /\ w \in ScanState /\ w.section = c.section /\ w.changed = c.changed
        /\ w.open = c.open
        /\ w.order = IF c.section = Unused \/ Contains(c.order, c.section)
                       THEN c.order ELSE Append(c.order, c.section)
    BY <1>1, <2>1, <2>2, FilledWritten
  <2>4. Contains(w.order, "Last") /\ w.section = "Last" /\ w.order = Append(c.order, "Last")
    BY <1>2, <1>4, <2>3
  <2> QED BY <1>4, <2>2, <2>3, <2>4 DEF z
<1>5. CASE ~ Contains(c.order, "Last") /\ c.open = Junk
  <2> DEFINE in == [c EXCEPT !.junk = Front(@)]
             z == Join(Last(c.junk), Title("Last"))
  <2>1. c.junk \in Seq(Comments) /\ c.junk # <<>>
    BY <1>1, <1>5 DEF ScanState
  <2>2. Front(c.junk) \in Seq(Comments) /\ Last(c.junk) \in Line
    BY <2>1, LastLine, Lines
  <2>3. /\ in \in ScanState /\ in.section = "Last" /\ in.changed = c.changed
        /\ in.open = c.open /\ in.order = c.order /\ in.data = c.data
    BY <1>1, <2>2 DEF ScanState
  <2>4. z \in Line
    BY <1>2, <2>2, Lines, JoinType, KeyFacts
  <2>5. w = WriteSectionData(in, z)
    BY <1>5 DEF AddTitle
  <2> HIDE DEF in, z
  <2>6. Filled(in)
    BY <1>1, <2>3 DEF Filled
  <2>7. /\ Filled(w) /\ (in.section \in Sections => Contains(w.order, in.section))
        /\ w \in ScanState /\ w.section = in.section /\ w.changed = in.changed
        /\ w.open = in.open
        /\ w.order = IF in.section = Unused \/ Contains(in.order, in.section)
                       THEN in.order ELSE Append(in.order, in.section)
    BY <2>3, <2>4, <2>5, <2>6, FilledWritten
  <2>9. /\ Contains(w.order, "Last") /\ w.section = "Last" /\ w.changed = c.changed
        /\ w.open = c.open /\ w.order = Append(c.order, "Last")
    BY <1>2, <1>5, <2>3, <2>7
  <2>8. ~ Apart(c)
    BY <1>5 DEF Apart
  <2> QED BY <1>5, <2>7, <2>8, <2>9
<1> QED BY <1>3, <1>4, <1>5

(* AddEntry leaves a scan that is to be written, and nothing open that     *)
(* another line would be written to.                                       *)
LEMMA AddEntryType ==
  ASSUME NEW c \in FilledStates, NEW n \in Entries, NEW v \in [Entries -> Values],
         NEW w, w = AddEntry(c, n, v)
  PROVE  /\ w \in FilledStates
         /\ w.changed = TRUE
         /\ Apart(c) => Apart(w)
<1> DEFINE in == [c EXCEPT !.section = "Last", !.changed = TRUE]
           titled == AddTitle(in)
           ended == EndLine(titled)
           remark == Comment("description")
           described == WriteSectionData(ended, remark)
           x == Assign(n, v[n])
<1>1. c \in ScanState /\ Filled(c) /\ (c.open = Junk => c.junk # <<>>)
  BY DEF FilledStates
<1>2. /\ in \in FilledStates /\ in.section = "Last" /\ in.changed = TRUE
      /\ in.order = c.order /\ in.open = c.open
  BY <1>1, KeyFacts DEF ScanState, FilledStates, Filled
<1>3. remark \in Line /\ x \in Line
  BY Lines DEF Comments
<1>4. w = WriteSectionData(described, x)
  BY DEF AddEntry
<1>5. "Last" \in Sections /\ "Last" # Unused
  BY KeyFacts
<1>6. ended = [titled EXCEPT !.open = IF titled.open \in {Junk, titled.section}
                                       THEN Nowhere ELSE titled.open]
  BY DEF EndLine
<1>7. described = WriteSectionData(ended, remark) /\ titled = AddTitle(in)
  OBVIOUS
<1> HIDE DEF in, titled, ended, remark, described, x
<1>8. /\ titled \in ScanState /\ Filled(titled) /\ Contains(titled.order, "Last")
      /\ titled.section = "Last" /\ titled.changed = TRUE /\ titled.open = c.open
      /\ titled.order = IF Contains(c.order, "Last") THEN c.order
                                                     ELSE Append(c.order, "Last")
  BY <1>2, <1>7, TitleAdded
<1>9. /\ ended \in ScanState /\ Filled(ended) /\ ended.section = "Last"
      /\ ended.changed = TRUE /\ ended.order = titled.order
      /\ ended.open = IF c.open \in {Junk, "Last"} THEN Nowhere ELSE c.open
  BY <1>6, <1>8 DEF ScanState, Filled
<1>10. /\ described \in ScanState /\ Filled(described) /\ described.section = "Last"
       /\ described.changed = TRUE /\ described.order = titled.order
       /\ described.open = ended.open
  BY <1>3, <1>5, <1>7, <1>8, <1>9, FilledWritten
<1>11. /\ w \in ScanState /\ Filled(w) /\ w.changed = TRUE
       /\ w.order = titled.order /\ w.open = ended.open
  BY <1>3, <1>4, <1>5, <1>8, <1>10, FilledWritten
<1>12. w \in FilledStates
  BY <1>9, <1>11 DEF FilledStates, Nowhere, Junk
<1>13. ASSUME Apart(c) PROVE Apart(w)
  <2>1. c.order \in Orders /\ w.order \in Orders
    BY <1>1, <1>11 DEF ScanState
  <2>2. ASSUME Len(w.order) = 2 PROVE w.open # w.order[1]
    <3>1. w.order[1] \in Sections /\ Nowhere \notin Sections
      BY <2>1, <2>2, OrderPairs DEF Sections, Nowhere
    <3>2. CASE Contains(c.order, "Last")
      BY <1>8, <1>9, <1>11, <1>13, <2>2, <3>1, <3>2 DEF Apart
    <3>3. CASE ~ Contains(c.order, "Last")
      <4>1. w.order = Append(c.order, "Last") /\ c.order \in Seq(Sections)
        BY <1>8, <1>11, <2>1, <3>3, OrderGrows
      <4>2. Len(w.order) = Len(c.order) + 1
        BY <1>5, <4>1, AppendProperties
      <4>3. c.order # <<>>
        <5> SUFFICES ASSUME c.order = <<>> PROVE FALSE
          OBVIOUS
        <5> DEFINE m == Len(w.order)
                   n0 == Len(c.order)
        <5>1. m = 2 /\ m = n0 + 1 /\ n0 = 0
          BY <2>1, <2>2, <4>2, OrderPairs
        <5> HIDE DEF m, n0
        <5> QED BY <5>1
      <4>4. /\ w.order[1] = c.order[1] /\ c.order[1] \in Sections
            /\ Contains(c.order, c.order[1])
        BY <1>5, <2>1, <3>3, <4>1, <4>3, OrderGrows
      <4>5. w.order[1] = "General"
        BY <3>3, <4>4 DEF Sections
      <4>6. c.open \notin {Junk, "General"}
        BY <1>13, <3>3 DEF Apart
      <4> QED BY <1>9, <1>11, <3>1, <4>5, <4>6
    <3> QED BY <3>2, <3>3
  <2> QED BY <1>8, <1>11, <2>2 DEF Apart
<1> QED BY <1>11, <1>12, <1>13

(* A scan that holds the file, except for the entries left to be added.    *)
Holding(f, c, left, v) ==
  c \in FilledStates /\ Shape(c) /\ Apart(c) /\ Held(f, c, left, v)

(* AddEntry adds one entry, and the file is to be written.                 *)
LEMMA EntryAdded ==
  ASSUME NEW f, NEW c, NEW left, NEW v \in [Entries -> Values], NEW n \in Entries,
         Holding(f, c, left, v)
  PROVE  Holding(f, AddEntry(c, n, v), left \ {n}, v)
<1> DEFINE in == [c EXCEPT !.section = "Last", !.changed = TRUE]
           begun == AddTitle(in)
           titled == EndLine(begun)
           remark == Comment("description")
           described == WriteSectionData(titled, remark)
           y == v[n]
           x == Assign(n, y)
           w == WriteSectionData(described, x)
<1>1. AddEntry(c, n, v) = w
  BY DEF AddEntry
<1>2. /\ c \in FilledStates /\ Apart(c) /\ c \in ScanState
      /\ Shape(c) /\ Held(f, c, left, v)
  BY DEF Holding, FilledStates
<1>3. /\ remark \in Line /\ remark.kind # "entry" /\ remark.kind # "section"
      /\ Title("Last") \in Line /\ Title("Last").kind = "section"
      /\ Title("Last").name = "Last"
      /\ y \in Values /\ x \in Line /\ x.kind = "entry"
  BY Lines, KeyFacts DEF Comment, Comments, Title, Assign
<1>4. /\ in \in ScanState /\ in.section = "Last" /\ in.changed = TRUE
      /\ in.order = c.order /\ in.data = c.data /\ in.open = c.open
      /\ in \in FilledStates /\ Apart(in)
  BY <1>2, KeyFacts DEF ScanState, FilledStates, Filled, Apart
<1>5. /\ begun = AddTitle(in)
      /\ titled = [begun EXCEPT !.open = titled.open]
      /\ titled.open \in {Nowhere, begun.open}
  <2>1. titled = [begun EXCEPT !.open = IF begun.open \in {Junk, begun.section}
                                         THEN Nowhere ELSE begun.open]
    BY DEF EndLine
  <2>3. begun = AddTitle(in)
    OBVIOUS
  <2> HIDE DEF begun, titled, in
  <2>2. begun \in ScanState
    BY <1>4, <2>3, TitleAdded
  <2>4. /\ titled.open \in {Nowhere, begun.open}
        /\ titled = [begun EXCEPT !.open = titled.open]
    BY <2>1, <2>2 DEF ScanState
  <2> QED BY <2>3, <2>4
<1> HIDE DEF in, begun, titled, x, y, remark
<1>6. Shape(in) /\ Held(f, in, left, v)
  <2>1. SameLines(f, f)
    BY DEF SameLines
  <2>2. Shape(in)
    BY <1>2, <1>4 DEF Shape
  <2>3. Held(f, in, left, v)
    <3>1. HeldKnown(f, in, left, v)
      BY <1>2, <1>4 DEF Held, HeldKnown
    <3>2. HeldForeign(f, in)
      BY <1>2, <1>4 DEF Held, HeldForeign
    <3>3. HeldComments(f, in)
      BY <1>2, <1>4 DEF Held, HeldComments
    <3> QED BY <3>1, <3>2, <3>3 DEF Held
  <2> QED BY <2>2, <2>3
<1>15. /\ begun \in ScanState /\ begun.section = "Last" /\ begun.changed = TRUE
      /\ Shape(begun) /\ Opened(begun) /\ Held(f, begun, left, v)
  <2>0. begun = IF Contains(in.order, "Last")
                  THEN in ELSE WriteSectionData(in, Title("Last"))
    BY <1>4, <1>5, TitleAdded
  <2>1. CASE Contains(in.order, "Last")
    <3>1. Opened(in)
      BY <1>4, <2>1, KeyFacts DEF Opened
    <3> QED BY <1>4, <1>6, <2>1, <2>0, <3>1
  <2>2. CASE ~ Contains(in.order, "Last")
    <3> DEFINE z == Title("Last")
    <3>1. z \in Line /\ z.kind = "section" /\ in.section = Key(z.name)
      BY <1>3, <1>4, KeyFacts
    <3>2. begun = WriteSectionData(in, z)
      BY <2>2, <2>0
    <3> HIDE DEF z
    <3>3. Wrote(in, z, begun)
      BY <1>4, <3>1, <3>2, WriteEffect
    <3>4. begun \in ScanState /\ begun.section = "Last" /\ begun.changed = TRUE
      BY <1>4, <3>3 DEF Wrote
    <3>5. Shape(begun) /\ Opened(begun)
      BY <1>4, <1>6, <3>1, <3>2, ShapeWritten
    <3>6. SameParts(in, begun) /\ SameLines(f, f)
      BY <1>4, <3>1, <3>2, OtherWritten DEF SameLines
    <3>7. Held(f, begun, left, v)
      BY <1>4, <1>6, <3>4, <3>6, SameHeld
    <3> QED BY <3>4, <3>5, <3>7
  <2> QED BY <2>1, <2>2
<1>7. /\ titled \in ScanState /\ titled.section = "Last" /\ titled.changed = TRUE
      /\ Shape(titled) /\ Opened(titled) /\ Held(f, titled, left, v)
  <2>1. /\ titled \in ScanState /\ titled.section = "Last" /\ titled.changed = TRUE
        /\ titled.order = begun.order /\ titled.data = begun.data
        /\ begun.section = "Last" /\ begun.changed = TRUE
    BY <1>5, <1>15 DEF ScanState
  <2>2. Shape(titled) /\ Opened(titled)
    BY <1>15, <2>1 DEF Shape, Opened
  <2>3. SameLines(f, f) /\ SameParts(begun, titled)
    BY <2>1 DEF SameLines, SameParts
  <2>4. Held(f, titled, left, v)
    BY <1>15, <2>1, <2>3, SameHeld
  <2> QED BY <2>1, <2>2, <2>4
<1>8. /\ described \in ScanState /\ described.section = "Last"
      /\ described.changed = TRUE
      /\ Shape(described) /\ Opened(described) /\ Held(f, described, left, v)
      /\ Section(described.data["Last"]) = "Last"
  <2>1. described = WriteSectionData(titled, remark)
    OBVIOUS
  <2> HIDE DEF described
  <2>2. Wrote(titled, remark, described)
    BY <1>3, <1>7, <2>1, WriteEffect
  <2>3. /\ described \in ScanState /\ described.section = "Last"
        /\ described.changed = TRUE
    BY <1>7, <2>2 DEF Wrote
  <2>4. Shape(described) /\ Opened(described)
    BY <1>3, <1>7, <2>1, ShapeWritten
  <2>5. SameParts(titled, described) /\ SameLines(f, f)
    BY <1>3, <1>7, <2>1, OtherWritten DEF SameLines
  <2>6. Held(f, described, left, v)
    BY <1>7, <2>3, <2>5, SameHeld
  <2>7. Section(described.data["Last"]) = "Last"
    <3>1. Contains(described.order, "Last")
      BY <2>3, <2>4, KeyFacts DEF Opened
    <3> QED BY <2>4, <3>1, KeyFacts DEF Shape
  <2> QED BY <2>3, <2>4, <2>6, <2>7
<1>9. w = WriteSectionData(described, x) /\ w = WriteSectionData(described, Assign(n, y))
  BY DEF x
<1> HIDE DEF described, w
<1>10. Wrote(described, x, w)
  BY <1>3, <1>8, <1>9, WriteEffect
<1>11. w \in ScanState /\ w.changed = TRUE
  BY <1>8, <1>10 DEF Wrote
<1>12. Shape(w)
  BY <1>3, <1>8, <1>9, ShapeWritten
<1>13. /\ KnownOf(w.data["Last"]) = KnownOf(described.data["Last"]) \cup {<<n, y>>}
       /\ \A k \in Keys : k # "Last" => w.data[k] = described.data[k]
       /\ CommentedOf(described.data["Last"]) \subseteq CommentedOf(w.data["Last"])
       /\ \A s \in Names :
            ForeignOf(w.data["Last"], s) = ForeignOf(described.data["Last"], s)
  <2>1. y \in Values
    BY <1>3
  <2>2. KnownPut(described, n, y, w)
    BY <1>8, <1>9, <2>1, KnownWritten
  <2> QED BY <2>2 DEF KnownPut
<1>14. Held(f, w, left \ {n}, v)
  <2>1. y = v[n]
    BY DEF y
  <2>2. HeldKnown(f, w, left \ {n}, v)
    BY <1>8, <1>11, <1>13, <2>1 DEF Held, HeldKnown
  <2>3. \A s \in Names, k \in Keys :
          ForeignOf(w.data[k], s) = ForeignOf(described.data[k], s)
    BY <1>13
  <2>4. HeldForeign(f, w)
    BY <1>8, <2>3, KeyFacts DEF Held, HeldForeign
  <2>5. HeldComments(f, w)
    BY <1>8, <1>13 DEF Held, HeldComments
  <2> QED BY <2>2, <2>4, <2>5 DEF Held
<1>16. w \in FilledStates /\ Apart(w)
  BY <1>1, <1>2, AddEntryType
<1> QED BY <1>1, <1>12, <1>14, <1>16 DEF Holding

(* A recursion over scans that are to be written.                          *)
LEMMA FilledRecursion ==
  ASSUME NEW base \in FilledStates, NEW n \in Nat,
         NEW step \in [1..n -> [FilledStates -> FilledStates]]
  PROVE  \E g \in [0..n -> FilledStates] :
           g[0] = base /\ \A i \in 1..n : g[i] = step[i][g[i - 1]]
<1> HIDE DEF FilledStates
<1> QED BY RecursionExists

(* The scan after each of the entries that are added.                      *)
LEMMA AddedByEntry ==
  ASSUME NEW c \in FilledStates, NEW entries \in Seq(Entries), NEW v \in [Entries -> Values]
  PROVE  \E g \in [0..Len(entries) -> FilledStates] :
           /\ AddRemaining(c, entries, v) = g[Len(entries)]
           /\ g[0] = c
           /\ \A i \in 1..Len(entries) : g[i] = AddEntry(g[i - 1], entries[i], v)
<1> DEFINE n == Len(entries)
           Is(h) == h = [i \in 0..n |->
                          IF i = 0 THEN c ELSE AddEntry(h[i - 1], entries[i], v)]
           step == [i \in 1..n |-> [d \in FilledStates |-> AddEntry(d, entries[i], v)]]
<1>1. n \in Nat /\ \A i \in 1..n : entries[i] \in Entries
  BY ElementOfSeq, LenProperties
<1>2. step \in [1..n -> [FilledStates -> FilledStates]]
  <2>1. ASSUME NEW i \in 1..n, NEW d \in FilledStates
        PROVE  AddEntry(d, entries[i], v) \in FilledStates
    BY <1>1, AddEntryType
  <2> QED BY <2>1
<1>3. PICK g \in [0..n -> FilledStates] :
        g[0] = c /\ \A i \in 1..n : g[i] = step[i][g[i - 1]]
  <2>1. n \in Nat
    BY <1>1
  <2> HIDE DEF step, n
  <2> QED BY <1>2, <2>1, FilledRecursion
<1>4. ASSUME NEW i \in 1..n
      PROVE  g[i] = AddEntry(g[i - 1], entries[i], v)
  <2>1. g[i - 1] \in FilledStates
    BY <1>1
  <2> QED BY <1>3, <2>1
<1>5. Is(g)
  <2>1. g = [i \in 0..n |-> g[i]]
    OBVIOUS
  <2>2. ASSUME NEW i \in 0..n
        PROVE  g[i] = IF i = 0 THEN c ELSE AddEntry(g[i - 1], entries[i], v)
    <3>1. i = 0 \/ (i # 0 /\ i \in 1..n)
      BY <1>1
    <3> QED BY <1>3, <1>4, <3>1
  <2> QED BY <2>1, <2>2, Zenon
<1>6. PICK h : Is(h) /\ AddRemaining(c, entries, v) = h[n]
  <2>1. AddRemaining(c, entries, v) = (CHOOSE h : Is(h))[n]
    BY DEF AddRemaining
  <2> HIDE DEF Is
  <2> QED BY <1>5, <2>1
<1>7. h = g
  <2> DEFINE T == {i \in 0..n : h[i] = g[i]}
  <2>1. 0 \in T
    BY <1>1, <1>3, <1>6
  <2>2. ASSUME NEW i \in 1..n, i - 1 \in T PROVE i \in T
    <3>1. h[i - 1] = g[i - 1] /\ i \in 0..n /\ i # 0
      BY <1>1, <2>2
    <3>2. h[i] = AddEntry(h[i - 1], entries[i], v)
      BY <1>6, <3>1
    <3> QED BY <1>4, <3>1, <3>2
  <2>3. \A i \in 0..n : i \in T
    <3> HIDE DEF T
    <3> QED BY <1>1, <2>1, <2>2, CountUp
  <2>4. \A i \in 0..n : h[i] = g[i]
    BY <2>3
  <2>5. h = [i \in 0..n |-> h[i]]
    BY <1>6
  <2> QED BY <2>4, <2>5
<1> QED BY <1>3, <1>4, <1>6, <1>7

(* When every entry left has been added, the scan holds the whole file.    *)
LEMMA RemainingAdded ==
  ASSUME NEW f, NEW c, NEW left, NEW v \in [Entries -> Values],
         Holding(f, c, left, v), NEW entries \in Seq(Entries),
         \A m \in left : \E i \in 1..Len(entries) : entries[i] = m
  PROVE  Holding(f, AddRemaining(c, entries, v), {}, v)
<1> DEFINE n == Len(entries)
           Left(i) == {m \in left : \A j \in 1..i : entries[j] # m}
<1>1. c \in FilledStates /\ n \in Nat /\ \A i \in 1..n : entries[i] \in Entries
  BY ElementOfSeq, LenProperties DEF Holding
<1>2. PICK g \in [0..n -> FilledStates] :
        /\ AddRemaining(c, entries, v) = g[n]
        /\ g[0] = c
        /\ \A i \in 1..n : g[i] = AddEntry(g[i - 1], entries[i], v)
  BY <1>1, AddedByEntry
<1> DEFINE T == {i \in 0..n : Holding(f, g[i], Left(i), v)}
<1>3. 0 \in T
  <2>1. Left(0) = left
    OBVIOUS
  <2>2. Holding(f, g[0], Left(0), v)
    BY <1>2, <2>1
  <2> HIDE DEF Left
  <2> QED BY <1>1, <2>2
<1>4. ASSUME NEW i \in 1..n, i - 1 \in T PROVE i \in T
  <2>1. Left(i) = Left(i - 1) \ {entries[i]}
    <3>1. \A j \in 1..i : j = i \/ j \in 1..(i - 1)
      BY <1>1
    <3>2. i \in 1..i /\ \A j \in 1..(i - 1) : j \in 1..i
      BY <1>1
    <3> QED BY <3>1, <3>2
  <2> HIDE DEF Left
  <2>2. Holding(f, g[i - 1], Left(i - 1), v)
    BY <1>4
  <2>3. Holding(f, AddEntry(g[i - 1], entries[i], v), Left(i - 1) \ {entries[i]}, v)
    BY <1>1, <2>2, EntryAdded
  <2>4. Holding(f, g[i], Left(i), v)
    BY <1>2, <2>1, <2>3
  <2> QED BY <1>1, <2>4
<1>5. n \in T
  <2>1. \A i \in 1..n : i - 1 \in T => i \in T
    BY <1>4
  <2>2. n \in 0..n
    BY <1>1
  <2> HIDE DEF T
  <2>3. \A i \in 0..n : i \in T
    BY <1>1, <1>3, <2>1, CountUp
  <2> QED BY <2>2, <2>3
<1>6. Left(n) = {}
  OBVIOUS
<1>7. Holding(f, g[n], Left(n), v)
  <2> HIDE DEF Left
  <2> QED BY <1>5
<1> QED BY <1>2, <1>6, <1>7

(* Every outcome of the scan of a file is to be written or has changed     *)
(* nothing, and holds the whole file if its lines are kept apart.          *)
LEMMA OutcomeHolds ==
  ASSUME NEW file \in File, NEW v \in [Entries -> Values], NEW c \in Outcomes(file, v)
  PROVE  /\ c \in FilledStates
         /\ KeptApart(file) => Holding(file.lines, c, {}, v)
         /\ ~ c.changed => Load(file.lines) = v
<1> DEFINE f == file.lines
           lines == Scanned(f, v)
           scan == ScannedFile(file, v)
           left == scan.remaining
           n == Cardinality(left)
<1>1. f \in Seq(Line) /\ ScanInv(f, lines, v)
  BY ScanHolds DEF File
<1>2. /\ scan = [lines EXCEPT !.open = scan.open]
      /\ scan \in FilledStates /\ Shape(scan) /\ (KeptApart(file) => Apart(scan))
  BY FileScanned
<1>3. PICK entries \in Bijection(1..n, left) : c = AddRemaining(scan, entries, v)
  BY DEF Outcomes
<1> HIDE DEF f, lines, scan
<1>4. /\ left \subseteq Entries /\ scan.remaining = lines.remaining
      /\ scan.changed = lines.changed /\ scan.data = lines.data
  BY <1>1, <1>2 DEF ScanInv, ScanState
<1>5. Held(f, scan, left, v)
  <2>1. Held(f, lines, left, v)
    BY <1>1, <1>4 DEF ScanInv
  <2>2. SameLines(f, f) /\ SameParts(lines, scan)
    BY <1>4 DEF SameLines, SameParts
  <2> QED BY <1>4, <2>1, <2>2, SameHeld
<1>6. n \in Nat /\ (n = 0 => left = {})
  <2>1. IsFiniteSet(Entries)
    <3>1. IsFiniteSet({"User"})
      BY FS_Singleton
    <3>2. IsFiniteSet({"User"} \cup {"Session"})
      BY <3>1, FS_AddElement
    <3>3. Entries = {"User"} \cup {"Session"}
      BY DEF Entries
    <3> QED BY <3>2, <3>3
  <2>2. IsFiniteSet(left)
    BY <1>4, <2>1, FS_Subset
  <2> QED BY <2>2, FS_CardinalityType, FS_EmptySet
<1>7. entries \in [1..n -> left] /\ \A m \in left : \E i \in 1..n : entries[i] = m
  BY <1>3 DEF Bijection, Injection, Surjection
<1> HIDE DEF n
<1>8. entries \in Seq(Entries) /\ Len(entries) = n
  BY <1>4, <1>6, <1>7
<1>9. \A m \in left : \E i \in 1..Len(entries) : entries[i] = m
  BY <1>7, <1>8
<1>10. PICK g \in [0..n -> FilledStates] :
         /\ c = g[n] /\ g[0] = scan
         /\ \A i \in 1..n : g[i] = AddEntry(g[i - 1], entries[i], v)
  <2> HIDE DEF left
  <2>1. scan \in FilledStates /\ entries \in Seq(Entries) /\ v \in [Entries -> Values]
    BY <1>2, <1>8
  <2>2. \E g \in [0..Len(entries) -> FilledStates] :
          /\ AddRemaining(scan, entries, v) = g[Len(entries)]
          /\ g[0] = scan
          /\ \A i \in 1..Len(entries) : g[i] = AddEntry(g[i - 1], entries[i], v)
    BY <2>1, AddedByEntry
  <2> QED BY <1>3, <1>8, <2>2, Zenon
<1>11. c \in FilledStates
  BY <1>6, <1>10
<1>12. ASSUME ~ c.changed PROVE Load(f) = v
  <2>1. n = 0
    <3> SUFFICES ASSUME n # 0 PROVE FALSE
      OBVIOUS
    <3>1. n \in 1..n /\ n - 1 \in 0..n
      BY <1>6
    <3>2. c = AddEntry(g[n - 1], entries[n], v) /\ g[n - 1] \in FilledStates
      BY <1>10, <3>1
    <3>3. entries[n] \in Entries
      BY <1>4, <1>7, <3>1
    <3>4. c.changed = TRUE
      BY <3>2, <3>3, AddEntryType
    <3> QED BY <1>12, <3>4
  <2>2. left = {} /\ c = scan
    BY <1>6, <1>10, <2>1
  <2>3. Gives(f, v)
    BY <1>5, <1>12, <2>2 DEF Held, HeldKnown, Gives
  <2> QED BY <1>1, <2>3, LoadedAs
<1>13. ASSUME KeptApart(file) PROVE Holding(f, c, {}, v)
  <2>1. Holding(f, scan, left, v)
    BY <1>2, <1>5, <1>13 DEF Holding
  <2> HIDE DEF left
  <2> QED BY <1>3, <1>8, <1>9, <2>1, RemainingAdded
<1> QED BY <1>11, <1>12, <1>13 DEF f

-----------------------------------------------------------------------------
(* The file that is written.                                               *)

(* Lines behind others whose last one may be open.                         *)
LEMMA BehindType ==
  ASSUME NEW a \in Seq(Line), NEW b \in Seq(Line), NEW open \in BOOLEAN,
         open => a # <<>> /\ b # <<>>
  PROVE  Behind(a, open, b) \in Seq(Line)
<1>1. CASE ~ open
  <2>1. Behind(a, open, b) = a \o b
    BY <1>1 DEF Behind
  <2> QED BY <2>1, ConcatProperties
<1>2. CASE open
  <2> DEFINE x == Join(Last(a), Head(b))
  <2>1. Front(a) \in Seq(Line) /\ Last(a) \in Line
    BY <1>2, LastLine
  <2>2. Head(b) \in Line /\ Tail(b) \in Seq(Line)
    BY <1>2, HeadTailProperties
  <2>3. x \in Line
    BY <2>1, <2>2, JoinType
  <2>4. Behind(a, open, b) = Front(a) \o <<x>> \o Tail(b)
    BY <1>2 DEF Behind
  <2> HIDE DEF x
  <2>5. <<x>> \in Seq(Line)
    BY <2>3
  <2> QED BY <2>1, <2>2, <2>4, <2>5, ConcatProperties
<1> QED BY <1>1, <1>2

(* The parts of the sections in the order, one after the other.            *)
LEMMA WrittenByPart ==
  ASSUME NEW c \in FilledStates
  PROVE  \E g \in [0..Len(c.order) -> Seq(Line)] :
           /\ Written(c).lines = g[Len(c.order)] \o c.data[Unused]
           /\ g[0] = <<>>
           /\ \A i \in 1..Len(c.order) :
                g[i] = Behind(g[i - 1], i > 1 /\ c.open = c.order[i - 1],
                              c.data[c.order[i]])
<1> DEFINE o == c.order
           n == Len(o)
           open(i) == i > 1 /\ c.open = o[i - 1]
           d(i) == c.data[o[i]]
           Is(h) == h = [i \in 0..n |->
                          IF i = 0 THEN <<>> ELSE Behind(h[i - 1], open(i), d(i))]
           two == Behind(d(1), open(2), d(2))
           g == [i \in 0..n |-> IF i = 0 THEN <<>> ELSE IF i = 1 THEN d(1) ELSE two]
<1>1. /\ n \in {0, 1, 2} /\ n \in Nat
      /\ \A i \in 1..n : d(i) \in Seq(Line) /\ d(i) # <<>>
  <2>1. o \in Orders /\ o \in Seq(Sections) /\ c.data \in [Keys -> Seq(Line)]
    BY OrderGrows DEF ScanState, FilledStates
  <2>2. n \in {0, 1, 2}
    BY <2>1, OrderPairs
  <2>3. ASSUME NEW i \in 1..n PROVE d(i) \in Seq(Line) /\ d(i) # <<>>
    <3>1. o[i] \in Sections /\ Contains(o, o[i])
      BY <2>1, <2>3, ElementOfSeq DEF Contains
    <3> QED BY <2>1, <3>1, KeyFacts DEF FilledStates, Filled
  <2> QED BY <2>2, <2>3
<1>2. Behind(<<>>, open(1), d(1)) = <<>> \o d(1) /\ ~ open(1)
  BY DEF Behind
<1>3. n >= 1 => <<>> \o d(1) = d(1)
  BY <1>1, ConcatEmptySeq
<1>4. n = 2 => two \in Seq(Line)
  <2>1. open(2) \in BOOLEAN
    OBVIOUS
  <2> HIDE DEF open, d
  <2> QED BY <1>1, <2>1, BehindType
<1>5. Written(c).lines = (CHOOSE h : Is(h))[n] \o c.data[Unused]
  BY DEF Written
<1> HIDE DEF two, d, open
<1>6. g \in [0..n -> Seq(Line)]
  <2>1. ASSUME NEW i \in 0..n
        PROVE  (IF i = 0 THEN <<>> ELSE IF i = 1 THEN d(1) ELSE two) \in Seq(Line)
    <3> HIDE DEF n
    <3>1. \/ i = 0
          \/ i = 1 /\ 1 \in 1..n
          \/ i # 0 /\ i # 1 /\ n = 2
      BY <1>1
    <3> QED BY <1>1, <1>4, <3>1, EmptySeq
  <2> QED BY <2>1
<1>7. /\ g[0] = <<>>
      /\ \A i \in 1..n : g[i] = Behind(g[i - 1], open(i), d(i))
  <2>1. g[0] = <<>>
    BY <1>1
  <2>2. ASSUME n >= 1 PROVE g[1] = d(1) /\ g[1] = Behind(g[0], open(1), d(1))
    BY <1>1, <1>2, <1>3, <2>1, <2>2
  <2>3. ASSUME n = 2 PROVE g[2] = Behind(g[1], open(2), d(2))
    BY <2>2, <2>3 DEF two
  <2> HIDE DEF g, n
  <2>4. ASSUME NEW i \in 1..n PROVE g[i] = Behind(g[i - 1], open(i), d(i))
    <3>1. (i = 1 /\ n >= 1 /\ i - 1 = 0) \/ (i = 2 /\ n = 2 /\ i - 1 = 1)
      BY <1>1
    <3>2. CASE i = 1 /\ n >= 1 /\ i - 1 = 0
      BY <2>2, <3>2
    <3>3. CASE i = 2 /\ n = 2 /\ i - 1 = 1
      BY <2>3, <3>3
    <3> QED BY <3>1, <3>2, <3>3
  <2> QED BY <2>1, <2>4
<1>8. Is(g)
  <2>1. g = [i \in 0..n |-> g[i]]
    OBVIOUS
  <2>2. ASSUME NEW i \in 0..n
        PROVE  g[i] = IF i = 0 THEN <<>> ELSE Behind(g[i - 1], open(i), d(i))
    <3>1. i = 0 \/ (i # 0 /\ i \in 1..n)
      BY <1>1
    <3> HIDE DEF g
    <3> QED BY <1>7, <3>1
  <2> HIDE DEF g
  <2> QED BY <2>1, <2>2, Zenon
<1>9. PICK h : Is(h) /\ Written(c).lines = h[n] \o c.data[Unused]
  <2> HIDE DEF Is, g
  <2> QED BY <1>5, <1>8
<1> HIDE DEF g
<1>10. h = g
  <2> DEFINE T == {i \in 0..n : h[i] = g[i]}
  <2>1. 0 \in T
    <3>1. 0 \in 0..n
      BY <1>1
    <3>2. h[0] = <<>>
      <4> HIDE DEF n
      <4> QED BY <1>9, <3>1, Zenon
    <3> QED BY <1>7, <3>1, <3>2
  <2>2. ASSUME NEW i \in 1..n, i - 1 \in T PROVE i \in T
    <3>1. h[i - 1] = g[i - 1] /\ i \in 0..n /\ i # 0
      BY <1>1, <2>2
    <3>2. h[i] = Behind(h[i - 1], open(i), d(i))
      BY <1>9, <3>1
    <3> QED BY <1>7, <3>1, <3>2
  <2>3. \A i \in 0..n : i \in T
    <3> HIDE DEF T
    <3> QED BY <1>1, <2>1, <2>2, CountUp
  <2>4. \A i \in 0..n : h[i] = g[i]
    BY <2>3
  <2>5. h = [i \in 0..n |-> h[i]]
    BY <1>9
  <2>6. g = [i \in 0..n |-> g[i]]
    BY <1>6
  <2> QED BY <2>4, <2>5, <2>6
<1> QED BY <1>6, <1>7, <1>9, <1>10 DEF open, d

(* A file is written.                                                      *)
LEMMA WrittenType ==
  ASSUME NEW c \in FilledStates
  PROVE  Written(c) \in File
<1>1. Written(c).lines \in Seq(Line)
  <2>1. PICK g \in [0..Len(c.order) -> Seq(Line)] :
          Written(c).lines = g[Len(c.order)] \o c.data[Unused]
    BY WrittenByPart
  <2>2. Len(c.order) \in 0..Len(c.order) /\ c.data[Unused] \in Seq(Line)
    <3>1. c.order \in Orders /\ c.data \in [Keys -> Seq(Line)]
      BY DEF FilledStates, ScanState
    <3> QED BY <3>1, OrderPairs, KeyFacts
  <2> QED BY <2>1, <2>2, ConcatProperties
<1>2. /\ Written(c).ended \in BOOLEAN
      /\ Written(c) = [lines |-> Written(c).lines, ended |-> Written(c).ended]
  BY DEF Written
<1> QED BY <1>1, <1>2 DEF File

(* Two sections, of which only the first may begin without its title, and  *)
(* then what is in unknown sections.                                       *)
LEMMA WrittenParts ==
  ASSUME NEW c \in FilledStates, Shape(c), Apart(c)
  PROVE  \E a, b \in Sections :
           /\ a # b
           /\ Written(c).lines = c.data[a] \o c.data[b] \o c.data[Unused]
           /\ Headed(c.data[b]) /\ Headed(c.data[Unused])
<1> DEFINE o == c.order
           d(k) == c.data[k]
<1>1. o \in Orders /\ \A k \in Keys : d(k) \in Seq(Line)
  BY DEF ScanState, FilledStates
<1>2. PICK g \in [0..Len(o) -> Seq(Line)] :
        /\ Written(c).lines = g[Len(o)] \o d(Unused)
        /\ g[0] = <<>>
        /\ \A i \in 1..Len(o) : g[i] = g[i - 1] \o d(o[i])
  <2>1. PICK g \in [0..Len(o) -> Seq(Line)] :
          /\ Written(c).lines = g[Len(o)] \o d(Unused)
          /\ g[0] = <<>>
          /\ \A i \in 1..Len(o) :
               g[i] = Behind(g[i - 1], i > 1 /\ c.open = o[i - 1], d(o[i]))
    BY WrittenByPart
  <2>2. ASSUME NEW i \in 1..Len(o) PROVE g[i] = g[i - 1] \o d(o[i])
    <3>1. ~ (i > 1 /\ c.open = o[i - 1])
      <4>1. Len(o) \in {0, 1, 2}
        BY <1>1, OrderPairs
      <4>2. i > 1 => i = 2 /\ Len(o) = 2
        BY <4>1
      <4> QED BY <4>2 DEF Apart
    <3>2. g[i] = Behind(g[i - 1], FALSE, d(o[i]))
      BY <2>1, <3>1
    <3> QED BY <3>2 DEF Behind
  <2> QED BY <2>1, <2>2
<1>3. Headed(d(Unused))
  <2>1. o # <<>> => o[1] # Unused
    BY <1>1, OrderGrows, KeyFacts
  <2> QED BY <2>1, KeyFacts DEF Shape
<1>4. /\ \A k \in Sections : ~ Contains(o, k) => d(k) = <<>>
      /\ \A k \in Keys : ~ (o # <<>> /\ o[1] = k) => Headed(d(k))
  BY DEF Shape
<1>5. /\ "General" \in Sections /\ "Last" \in Sections /\ "General" # "Last"
      /\ Sections \subseteq Keys /\ Unused \in Keys
  BY KeyFacts
<1> HIDE DEF o, d
<1>6. ASSUME NEW a \in Sections, NEW b \in Sections, a # b,
             g[Len(o)] = d(a) \o d(b), Headed(d(b))
      PROVE  \E x, y \in Sections :
               /\ x # y
               /\ Written(c).lines = d(x) \o d(y) \o d(Unused)
               /\ Headed(d(y)) /\ Headed(d(Unused))
  BY <1>2, <1>3, <1>6
<1>7. \A s \in Seq(Line) : <<>> \o s = s /\ s \o <<>> = s
  BY ConcatEmptySeq
<1>8. CASE o = <<>>
  <2>1. d("General") = <<>> /\ d("Last") = <<>>
    BY <1>1, <1>4, <1>5, <1>8, OrderGrows
  <2>2. Len(o) = 0 /\ <<>> \in Seq(Line)
    BY <1>8, EmptySeq
  <2>3. g[Len(o)] = d("General") \o d("Last")
    BY <1>2, <1>7, <2>1, <2>2
  <2>4. Headed(d("Last"))
    BY <1>4, <1>5, <1>8
  <2> QED BY <1>5, <1>6, <2>3, <2>4 DEF d
<1>9. ASSUME NEW a \in Sections, NEW b \in Sections, a # b, o = <<a>>
      PROVE  \E x, y \in Sections :
               /\ x # y
               /\ Written(c).lines = d(x) \o d(y) \o d(Unused)
               /\ Headed(d(y)) /\ Headed(d(Unused))
  <2>1. Len(o) = 1 /\ o[1] = a /\ o # <<>>
    BY <1>9
  <2>2. ~ Contains(o, b)
    BY <1>9, <2>1 DEF Contains
  <2>3. d(b) = <<>> /\ Headed(d(b))
    BY <1>4, <1>5, <1>9, <2>1, <2>2
  <2>4. g[1] = g[0] \o d(a)
    <3>1. 1 \in 1..Len(o) /\ 1 - 1 = 0
      BY <2>1
    <3>2. g[1] = g[1 - 1] \o d(o[1])
      BY <1>2, <3>1, Zenon
    <3> QED BY <2>1, <3>1, <3>2
  <2>5. d(a) \in Seq(Line)
    BY <1>1, <1>5
  <2>6. g[Len(o)] = d(a) \o d(b)
    BY <1>2, <1>7, <2>1, <2>3, <2>4, <2>5
  <2> QED BY <1>6, <1>9, <2>3, <2>6
<1>10. ASSUME NEW a \in Sections, NEW b \in Sections, a # b, o = <<a, b>>
       PROVE  \E x, y \in Sections :
                /\ x # y
                /\ Written(c).lines = d(x) \o d(y) \o d(Unused)
                /\ Headed(d(y)) /\ Headed(d(Unused))
  <2>1. Len(o) = 2 /\ o[1] = a /\ o[2] = b /\ o # <<>>
    BY <1>10
  <2>2. Headed(d(b))
    BY <1>4, <1>5, <1>10, <2>1
  <2>3. g[1] = g[0] \o d(a) /\ g[2] = g[1] \o d(b)
    <3>1. 1 \in 1..Len(o) /\ 1 - 1 = 0 /\ 2 \in 1..Len(o) /\ 2 - 1 = 1
      BY <2>1
    <3>2. g[1] = g[1 - 1] \o d(o[1]) /\ g[2] = g[2 - 1] \o d(o[2])
      BY <1>2, <3>1, Zenon
    <3> QED BY <2>1, <3>1, <3>2
  <2>4. d(a) \in Seq(Line)
    BY <1>1, <1>5
  <2>5. g[Len(o)] = d(a) \o d(b)
    BY <1>2, <1>7, <2>1, <2>3, <2>4
  <2> QED BY <1>6, <1>10, <2>2, <2>5
<1>11. \/ o = <<>> \/ o = <<"General">> \/ o = <<"Last">>
       \/ o = <<"General", "Last">> \/ o = <<"Last", "General">>
  BY <1>1 DEF Orders
<1>12. \E x, y \in Sections :
         /\ x # y
         /\ Written(c).lines = d(x) \o d(y) \o d(Unused)
         /\ Headed(d(y)) /\ Headed(d(Unused))
  <2>1. CASE o = <<>>
    BY <1>8, <2>1 DEF d
  <2>2. CASE o = <<"General">>
    BY <1>5, <1>9, <2>2, Zenon
  <2>3. CASE o = <<"Last">>
    BY <1>5, <1>9, <2>3, Zenon
  <2>4. CASE o = <<"General", "Last">>
    BY <1>5, <1>10, <2>4, Zenon
  <2>5. CASE o = <<"Last", "General">>
    BY <1>5, <1>10, <2>5, Zenon
  <2> QED BY <1>11, <2>1, <2>2, <2>3, <2>4, <2>5
<1> QED BY <1>12 DEF d


(* What any outcome writes is a file.  If the lines of the file that is    *)
(* replaced are kept apart, it gives the daemon's values when it is loaded *)
(* and keeps the lines of others; and whatever that file is, when nothing  *)
(* is to be written it gives those values already.  save() and             *)
(* loadInternal() thus agree on every file, of any length, except where    *)
(* save() runs a line without a line break into another one.               *)
THEOREM OutcomeSaved ==
  ASSUME NEW file \in File, NEW v \in [Entries -> Values], NEW c \in Outcomes(file, v)
  PROVE  /\ Written(c) \in File
         /\ KeptApart(file) => /\ Load(Written(c).lines) = v
                               /\ ForeignKept(file.lines, Written(c).lines)
                               /\ CommentsStay(file.lines, Written(c).lines)
         /\ ~ c.changed => Load(file.lines) = v
<1> DEFINE f == file.lines
           d(k) == c.data[k]
           out == Written(c).lines
<1>1. /\ c \in FilledStates /\ f \in Seq(Line)
      /\ ~ c.changed => Load(f) = v
      /\ Written(c) \in File
  BY OutcomeHolds, WrittenType DEF File
<1>2. SUFFICES ASSUME KeptApart(file)
               PROVE  Load(out) = v /\ ForeignKept(f, out) /\ CommentsStay(f, out)
  BY <1>1
<1>3. Shape(c) /\ Apart(c) /\ Held(f, c, {}, v)
  BY <1>2, OutcomeHolds DEF Holding
<1> HIDE DEF f
<1>4. PICK a \in Sections, b \in Sections :
        /\ a # b
        /\ out = d(a) \o d(b) \o d(Unused)
        /\ Tidy(d(b)) /\ Tidy(d(Unused))
  BY <1>1, <1>3, WrittenParts DEF Headed
<1>5. /\ \A k \in Keys : d(k) \in Seq(Line)
      /\ a \in Keys /\ b \in Keys /\ Unused \in Keys
      /\ \A k \in Keys : k = a \/ k = b \/ k = Unused
      /\ a # Unused /\ b # Unused
  BY <1>1, <1>4, KeyFacts DEF FilledStates, ScanState, Keys, Sections
<1>6. /\ HeldKnown(f, c, {}, v) /\ HeldForeign(f, c) /\ HeldComments(f, c)
  BY <1>3 DEF Held
<1> DEFINE ab == d(a) \o d(b)
<1>7. /\ ab \in Seq(Line)
      /\ KnownOf(ab) = KnownOf(d(a)) \cup KnownOf(d(b))
      /\ CommentedOf(d(a)) \cup CommentedOf(d(b)) \subseteq CommentedOf(ab)
      /\ \A s \in Names : ForeignOf(ab, s) = ForeignOf(d(a), s) \o ForeignOf(d(b), s)
  BY <1>4, <1>5, PartsJoined
<1>8. out = ab \o d(Unused)
  BY <1>4
<1> HIDE DEF ab, out
<1>9. /\ out \in Seq(Line)
      /\ KnownOf(out) = KnownOf(ab) \cup KnownOf(d(Unused))
      /\ CommentedOf(ab) \cup CommentedOf(d(Unused)) \subseteq CommentedOf(out)
      /\ \A s \in Names : ForeignOf(out, s) = ForeignOf(ab, s) \o ForeignOf(d(Unused), s)
  BY <1>4, <1>5, <1>7, <1>8, PartsJoined
<1> HIDE DEF d
<1>10. KnownOf(out) = KnownOf(d("Last"))
  <2>1. \A k \in Keys : k # "Last" => KnownOf(d(k)) = {}
    BY <1>6 DEF HeldKnown, d
  <2>2. "Last" \in Keys
    BY KeyFacts
  <2> QED BY <1>5, <1>7, <1>9, <2>1, <2>2
<1>11. Load(out) = v
  <2>1. Gives(out, v)
    BY <1>6, <1>10 DEF HeldKnown, Gives, d
  <2> QED BY <1>9, <2>1, LoadedAs
<1>12. ForeignKept(f, out)
  <2>1. ASSUME NEW s \in Names PROVE ForeignOf(out, s) = ForeignOf(f, s)
    <3>1. /\ ForeignOf(d(Key(s)), s) = ForeignOf(f, s)
          /\ \A k \in Keys : k # Key(s) => ForeignOf(d(k), s) = <<>>
          /\ Key(s) \in Keys
      BY <1>6, <2>1, KeyFacts DEF HeldForeign, d
    <3> DEFINE g == ForeignOf(f, s)
               p(k) == ForeignOf(d(k), s)
    <3>2. ForeignOf(out, s) = (p(a) \o p(b)) \o p(Unused) /\ g \in Seq(Line)
      BY <1>1, <1>7, <1>9, <2>1, ForeignAppend
    <3>3. <<>> \o g = g /\ g \o <<>> = g /\ <<>> \o <<>> = <<>>
      BY <3>2, EmptySeq, ConcatEmptySeq
    <3>4. p(Key(s)) = g /\ \A k \in Keys : k # Key(s) => p(k) = <<>>
      BY <3>1
    <3> HIDE DEF g, p
    <3>5. ASSUME Key(s) = a PROVE ForeignOf(out, s) = g
      BY <1>4, <1>5, <3>2, <3>3, <3>4, <3>5
    <3>6. ASSUME Key(s) = b PROVE ForeignOf(out, s) = g
      BY <1>4, <1>5, <3>2, <3>3, <3>4, <3>6
    <3>7. ASSUME Key(s) = Unused PROVE ForeignOf(out, s) = g
      BY <1>4, <1>5, <3>2, <3>3, <3>4, <3>7
    <3>8. ForeignOf(out, s) = g
      BY <1>5, <3>1, <3>5, <3>6, <3>7
    <3> QED BY <3>8 DEF g
  <2> QED BY <2>1 DEF ForeignKept, Names
<1>13. CommentsStay(f, out)
  <2>1. CommentedOf(f) \subseteq CommentedOf(out)
    <3>1. \A k \in Keys : CommentedOf(d(k)) \subseteq CommentedOf(out)
      BY <1>5, <1>7, <1>9
    <3> QED BY <1>6, <3>1 DEF HeldComments, d
  <2>2. SUFFICES ASSUME NEW i \in 1..Len(f) - 1,
                        f[i] = Comment("note"), f[i + 1].kind = "entry"
                 PROVE  \E j \in 1..Len(out) - 1 :
                          /\ out[j] = f[i]
                          /\ out[j + 1].kind = "entry"
                          /\ out[j + 1].name = f[i + 1].name
                          /\ SectionOf(out, j) = SectionOf(f, i)
    BY DEF CommentsStay
  <2>3. <<SectionOf(f, i), f[i + 1].name>> \in CommentedOf(f)
    BY <2>2 DEF CommentedOf
  <2>4. <<SectionOf(f, i), f[i + 1].name>> \in CommentedOf(out)
    BY <2>1, <2>3
  <2>5. PICK j \in 1..Len(out) - 1 :
          /\ out[j] = Comment("note") /\ out[j + 1].kind = "entry"
          /\ <<SectionOf(f, i), f[i + 1].name>> = <<SectionOf(out, j), out[j + 1].name>>
    BY <2>4 DEF CommentedOf
  <2> QED BY <2>2, <2>5
<1> QED BY <1>11, <1>12, <1>13
-----------------------------------------------------------------------------
(* The specification.                                                      *)

(* The inductive invariant: what is about to be written gives the values   *)
(* and keeps the lines of the file that was read, if those are kept apart. *)
IInv ==
  /\ TypeOK
  /\ pc = "written" /\ KeptApart(old) =>
       /\ Load(output.lines) = values
       /\ ForeignKept(old.lines, output.lines)
       /\ CommentsStay(old.lines, output.lines)

(* What is read from a file is a value for every entry.                    *)
LEMMA LoadType == \A f \in Seq(Line) : Load(f) \in [Entries -> Values]
BY ReadAppend DEF ReadState

(* There is a file without lines.                                          *)
LEMMA NoFileType == NoFile \in File
BY EmptySeq DEF NoFile, File

(* Whatever file the daemon finds when it starts.                          *)
LEMMA InitInvariant == Init => IInv
<1> SUFFICES ASSUME Init PROVE IInv
  OBVIOUS
<1>1. disk \in File
  <2>0. PICK n \in 0..MaxLines : \E lines \in [1..n -> Edited] : \E ended \in BOOLEAN :
          disk = [lines |-> lines, ended |-> ended \/ n = 0]
    BY DEF Init
  <2>1. PICK lines \in [1..n -> Edited], ended \in BOOLEAN :
          disk = [lines |-> lines, ended |-> ended \/ n = 0]
    BY <2>0
  <2>2. n \in Nat /\ Edited \subseteq Line
    BY BoundsAssumption DEF Edited
  <2>3. lines \in Seq(Line)
    BY <2>1, <2>2
  <2> QED BY <2>1, <2>3 DEF File
<1>2. values \in [Entries -> Values]
  BY <1>1, LoadType DEF Init, File
<1>3. TypeOK
  BY <1>1, <1>2, BoundsAssumption, NoFileType DEF Init, TypeOK
<1> QED BY <1>3 DEF Init, IInv

(* A login changes the values; the save has yet to come.                   *)
LEMMA RememberKeeps == IInv /\ Remember => IInv'
<1> SUFFICES ASSUME IInv, Remember PROVE IInv'
  OBVIOUS
<1>1. values' \in [Entries -> Values]
  BY DEF Remember
<1>2. saves' \in 0..MaxSaves
  BY BoundsAssumption DEF IInv, TypeOK, Remember
<1>3. /\ disk' = disk /\ output' = output /\ old' = old /\ pc' = "save"
  BY DEF Remember
<1>4. TypeOK'
  BY <1>1, <1>2, <1>3 DEF IInv, TypeOK
<1> QED BY <1>3, <1>4 DEF IInv

(* Nothing is written.                                                     *)
LEMMA SaveUnchangedKeeps == IInv /\ SaveUnchanged => IInv'
<1> SUFFICES ASSUME IInv, SaveUnchanged PROVE IInv'
  OBVIOUS
<1>1. TypeOK'
  BY DEF IInv, TypeOK, SaveUnchanged
<1> QED BY <1>1 DEF IInv, SaveUnchanged

(* What is to be written is an outcome of the scan of the file.            *)
LEMMA SaveTruncatesKeeps == IInv /\ SaveTruncates => IInv'
<1> SUFFICES ASSUME IInv, SaveTruncates PROVE IInv'
  OBVIOUS
<1>1. PICK scan \in Outcomes(disk, values) : output' = Written(scan)
  BY DEF SaveTruncates
<1>2. disk \in File /\ values \in [Entries -> Values]
  BY DEF IInv, TypeOK
<1>3. /\ output' \in File
      /\ KeptApart(disk) => /\ Load(output'.lines) = values
                            /\ ForeignKept(disk.lines, output'.lines)
                            /\ CommentsStay(disk.lines, output'.lines)
  BY <1>1, <1>2, OutcomeSaved
<1>4. /\ pc' = "written" /\ disk' = NoFile /\ old' = disk /\ values' = values
      /\ saves' = saves
  BY DEF SaveTruncates
<1>5. TypeOK'
  BY <1>2, <1>3, <1>4, NoFileType DEF IInv, TypeOK
<1> QED BY <1>3, <1>4, <1>5 DEF IInv

(* What was to be written becomes the file.                                *)
LEMMA SaveWritesKeeps == IInv /\ SaveWrites => IInv'
<1> SUFFICES ASSUME IInv, SaveWrites PROVE IInv'
  OBVIOUS
<1>1. TypeOK'
  BY NoFileType DEF IInv, TypeOK, SaveWrites
<1> QED BY <1>1 DEF IInv, SaveWrites

(* Whatever is left of the file is read.                                   *)
LEMMA RestartKeeps == IInv /\ Restart => IInv'
<1> SUFFICES ASSUME IInv, Restart PROVE IInv'
  OBVIOUS
<1>1. values' \in [Entries -> Values]
  BY LoadType DEF IInv, TypeOK, Restart, File
<1>2. TypeOK'
  BY <1>1, NoFileType DEF IInv, TypeOK, Restart
<1> QED BY <1>2 DEF IInv, Restart

(* An edited file is a file.                                               *)
LEMMA EditFileKeeps == IInv /\ EditFile => IInv'
<1> SUFFICES ASSUME IInv, EditFile PROVE IInv'
  OBVIOUS
<1> DEFINE f == disk.lines
<1>1. f \in Seq(Line)
  BY DEF IInv, TypeOK, File
<1>2. PICK i \in 1..Len(f) + 1, line \in Line, ended \in BOOLEAN :
        disk' = [lines |-> InsertAt(f, i, line), ended |-> ended]
  BY DEF EditFile, Edited
<1> HIDE DEF f
<1>3. InsertAt(f, i, line) \in Seq(Line)
  <2>1. Len(f) \in Nat
    BY <1>1, LenProperties
  <2>2. /\ SubSeq(f, 1, i - 1) \in Seq(Line)
        /\ SubSeq(f, i, Len(f)) \in Seq(Line)
    <3>1. /\ \A j \in 1..(i - 1) : j \in 1..Len(f)
          /\ \A j \in i..Len(f) : j \in 1..Len(f)
      BY <2>1
    <3> QED BY <1>1, <2>1, <3>1, SubSeqProperties
  <2>3. <<line>> \in Seq(Line)
    OBVIOUS
  <2>4. InsertAt(f, i, line) = (SubSeq(f, 1, i - 1) \o <<line>>) \o SubSeq(f, i, Len(f))
    BY DEF InsertAt
  <2> QED BY <2>2, <2>3, <2>4, ConcatProperties
<1>4. disk' \in File
  BY <1>2, <1>3 DEF File
<1>5. TypeOK'
  BY <1>4 DEF IInv, TypeOK, EditFile
<1> QED BY <1>5 DEF IInv, EditFile

(* The invariant is inductive.                                             *)
THEOREM Invariance == Spec => []IInv
<1>1. Init => IInv
  BY InitInvariant
<1>2. IInv /\ [Next]_vars => IInv'
  <2> SUFFICES ASSUME IInv, [Next]_vars PROVE IInv'
    OBVIOUS
  <2>1. CASE Next
    BY <2>1, RememberKeeps, SaveUnchangedKeeps, SaveTruncatesKeeps, SaveWritesKeeps,
       RestartKeeps, EditFileKeeps DEF Next
  <2>2. CASE UNCHANGED vars
    BY <2>2 DEF vars, IInv, TypeOK
  <2> QED BY <2>1, <2>2
<1> QED BY <1>1, <1>2, PTL DEF Spec

(* Every variable keeps its type: what is written and what is read back is *)
(* always a file, with lines run together or not, and the values are those *)
(* of entries.                                                             *)
THEOREM TypeCorrect == Spec => []TypeOK
<1>1. IInv => TypeOK
  BY DEF IInv
<1> QED BY <1>1, Invariance, PTL

(* A save that is through is what a restarted daemon reads: always if it   *)
(* found nothing to write, and otherwise if the lines of the file that was *)
(* there are kept apart, in whatever order the hash table gave the new     *)
(* entries and wherever the daemon was ended before.                       *)
THEOREM SavedAlwaysLoaded == Spec => SavedIsLoaded
<1> DEFINE Saved == /\ pc = "save" /\ pc' = "idle" => Load(disk'.lines) = values'
                    /\ SaveWrites /\ KeptApart(old) => Load(disk'.lines) = values
<1>1. IInv /\ [Next]_vars => [Saved]_vars
  <2> SUFFICES ASSUME IInv, Next PROVE Saved
    BY DEF Saved
  <2>1. SaveWrites /\ KeptApart(old) => Load(disk'.lines) = values
    BY DEF IInv, SaveWrites
  <2>2. ASSUME pc = "save", pc' = "idle" PROVE Load(disk'.lines) = values'
    <3>1. SaveUnchanged \/ Restart
      BY <2>2 DEF Next, Remember, SaveTruncates, SaveWrites, EditFile
    <3>2. CASE SaveUnchanged
      <4>1. PICK scan \in Outcomes(disk, values) : ~ scan.changed
        BY <3>2 DEF SaveUnchanged
      <4>2. disk \in File /\ values \in [Entries -> Values]
        BY DEF IInv, TypeOK
      <4>3. Load(disk.lines) = values
        BY <4>1, <4>2, OutcomeSaved
      <4> QED BY <3>2, <4>3 DEF SaveUnchanged
    <3>3. CASE Restart
      BY <3>3 DEF Restart
    <3> QED BY <3>1, <3>2, <3>3
  <2> QED BY <2>1, <2>2
<1> QED BY <1>1, Invariance, PTL DEF Spec, SavedIsLoaded

(* The daemon's rewriting of a file whose lines it keeps apart keeps what  *)
(* an administrator wrote: assignments in their sections and in their      *)
(* order, and the comments before assignments.                             *)
THEOREM OthersLinesAlwaysKept == Spec => OthersLinesKept
<1>1. IInv /\ [Next]_vars =>
        [SaveWrites /\ KeptApart(old) =>
           /\ ForeignKept(old.lines, disk'.lines)
           /\ CommentsStay(old.lines, disk'.lines)]_vars
  BY DEF IInv, SaveWrites
<1> QED BY <1>1, Invariance, PTL DEF Spec, OthersLinesKept
==============================================================================
