--------------------------- MODULE VtRouting_proofs ---------------------------
(***************************************************************************)
(* Proofs about VtRouting, for every set of users and of VTs, any number   *)
(* of VT changes, of ends of dde-seatd and of requests given up on.        *)
(***************************************************************************)
EXTENDS VtRouting, SequenceTheorems, WellFoundedInduction, TLAPS

(* What the daemon has read and not handled, and what it has not read.     *)
Stream == buffer \o wire

(* A socket dde-seatd writes to.                                           *)
Live == open /\ ~closed

(* Only the socket of a running dde-seatd is live; one that is not open    *)
(* has nothing in it; the daemon keeps less than an event.                 *)
SocketInv ==
  /\ Live => running
  /\ ~open => ~closed /\ wire = <<>> /\ buffer = <<>>
  /\ Len(buffer) <= 1

(* Headers and payloads in turn; while the socket is live, in pairs, the   *)
(* last of which is of the change to the active VT.                        *)
StreamInv ==
  /\ \A i \in 1 .. Len(Stream) : (Stream[i] = Header) <=> (i % 2 = 1)
  /\ Live => Len(Stream) % 2 = 0
  /\ Live /\ Len(Stream) > 0 => Stream[Len(Stream)].new = active

(* A live socket with nothing to read leaves the cache as it should be.    *)
CacheInv == Live /\ pc # "query" /\ Len(Stream) = 0 => cachedVt = active

(* A login in progress.                                                    *)
CallInv ==
  /\ pc = "open" => login # NoLogin
  /\ pc = "idle" => login = NoLogin
  /\ pc = "query" => open

(* Sessions and the login in progress have VTs of their own, none of them  *)
(* the greeter's; the registry says which.                                 *)
VtsApart ==
  /\ \A u, w \in Users : auths[u] # NoAuth /\ auths[u].vt = auths[w].vt => u = w
  /\ \A u \in Users : auths[u].vt # GreeterVt
  /\ login # NoLogin =>
       /\ login.vt # GreeterVt /\ auths[login.user] = NoAuth
       /\ \A u \in Users : auths[u].vt # login.vt
RegistryExact ==
  \A u \in Users, v \in Vts :
    [user |-> u, vt |-> v] \in registry <=> auths[u] # NoAuth /\ auths[u].vt = v

(* The groups: with a dde-seatd that has not stopped, of sessions and of   *)
(* the login in progress.                                                  *)
GroupInv ==
  /\ ~running => grouped = {} /\ destroying = {}
  /\ stops = 0 => destroying \subseteq grouped
  /\ stops = 0 /\ login # NoLogin => login.vt \in grouped \ destroying
  /\ GroupsFollowSessions

(* Whom Treeland shows on VT v of user u.                                  *)
ShownOn(v, u) == IF stale[v] = "dde" THEN u ELSE stale[v]

(* Treeland heard of the VT that is cached, and there is no event that it  *)
(* will hear of.                                                           *)
HeardInv == heard # NoVt => open /\ connected /\ pc # "query" /\ heard = cachedVt
Settled == Live /\ heard # NoVt /\ Len(Stream) = 0
OwnerInv ==
  Settled =>
    /\ login # NoLogin => login.vt # active
    /\ active = GreeterVt => told = "dde"
    /\ \A u \in Users :
         auths[u] = [vt |-> active, treeland |-> TRUE] => told = ShownOn(active, u)

(* The inductive invariant.                                                *)
IInv ==
  /\ TypeOK /\ SocketInv /\ StreamInv /\ CacheInv /\ CallInv
  /\ VtsApart /\ RegistryExact /\ GroupInv /\ HeardInv /\ OwnerInv

USE VtsAssumption, UsersAssumption, BoundsAssumption

-----------------------------------------------------------------------------
(* Numbers and sequences.                                                  *)

(* Headers are at odd places of the stream and payloads at even ones.      *)
LEMMA Parity ==
  /\ \A i \in Nat : (i + 2) % 2 = i % 2
  /\ \A i \in Nat : i % 2 = 0 => (i + 1) % 2 = 1
  /\ \A i \in Nat : (2 * i) % 2 = 0
  /\ \A i, j \in Nat : (i + 2 * j) % 2 = i % 2
  /\ \A i \in Nat : 2 * (i \div 2) <= i /\ i <= 2 * (i \div 2) + 1 /\ i \div 2 \in Nat
  /\ \A i \in Nat : i % 2 = 0 => i = 2 * (i \div 2)
OBVIOUS

(* A set of numbers with a bound has a largest element.                    *)
LEMMA LargestNumber ==
  ASSUME NEW n \in Nat, NEW T \in SUBSET (1 .. n), T # {}
  PROVE  \E x \in T : \A y \in T : y <= x
<1> DEFINE R == OpToRel(<, Nat)
           D == {n - x : x \in T}
<1>1. IsWellFoundedOn(R, Nat)
  BY NatLessThanWellFounded
<1>2. \A x, y \in Nat : y < x => <<y, x>> \in R
  BY DEF OpToRel
<1>3. D \subseteq Nat /\ D # {}
  <2>1. \A x \in T : x \in Nat /\ x <= n /\ n - x \in Nat
    OBVIOUS
  <2> QED BY <2>1
<1> HIDE DEF R
<1>4. PICK d \in D : \A e \in D : <<e, d>> \notin R
  BY <1>1, <1>3, WFMin
<1>5. PICK x \in T : d = n - x
  BY <1>4
<1>6. \A y \in T : ~ (n - y < d)
  BY <1>2, <1>3, <1>4
<1> QED BY <1>5, <1>6

(* What is left of a sequence from some place on, and up to one; and two  *)
(* sequences in a row.                                                     *)
LEMMA SuffixFacts ==
  ASSUME NEW S, NEW s \in Seq(S), NEW d \in Nat, d <= Len(s)
  PROVE  /\ SubSeq(s, d + 1, Len(s)) \in Seq(S)
         /\ Len(SubSeq(s, d + 1, Len(s))) = Len(s) - d
         /\ \A i \in 1 .. Len(s) - d : SubSeq(s, d + 1, Len(s))[i] = s[d + i]
<1>1. d + 1 \in Int /\ Len(s) \in Nat /\ \A i \in d + 1 .. Len(s) : s[i] \in S
  OBVIOUS
<1>2. SubSeq(s, d + 1, Len(s)) \in Seq(S)
  BY <1>1, SubSeqProperties
<1>3. Len(SubSeq(s, d + 1, Len(s))) = IF d + 1 <= Len(s) THEN Len(s) - (d + 1) + 1 ELSE 0
  BY <1>1, SubSeqProperties
<1>4. \A i \in 1 .. Len(s) - (d + 1) + 1 : SubSeq(s, d + 1, Len(s))[i] = s[d + 1 + i - 1]
  BY <1>1, SubSeqProperties
<1>5. Len(SubSeq(s, d + 1, Len(s))) = Len(s) - d
  BY <1>1, <1>3
<1>6. ASSUME NEW i \in 1 .. Len(s) - d
      PROVE  SubSeq(s, d + 1, Len(s))[i] = s[d + i]
  <2>1. i \in 1 .. Len(s) - (d + 1) + 1 /\ d + 1 + i - 1 = d + i
    BY <1>1
  <2> QED BY <1>4, <2>1
<1> QED BY <1>2, <1>5, <1>6

(* The first few of a sequence.                                            *)
LEMMA PrefixFacts ==
  ASSUME NEW S, NEW s \in Seq(S), NEW k \in Nat, k <= Len(s)
  PROVE  /\ SubSeq(s, 1, k) \in Seq(S) /\ Len(SubSeq(s, 1, k)) = k
         /\ \A i \in 1 .. k : SubSeq(s, 1, k)[i] = s[i]
<1>1. \A i \in 1 .. k : s[i] \in S
  OBVIOUS
<1>2. SubSeq(s, 1, k) \in Seq(S)
  BY <1>1, SubSeqProperties
<1>3. Len(SubSeq(s, 1, k)) = IF 1 <= k THEN k - 1 + 1 ELSE 0
  BY <1>1, SubSeqProperties
<1>4. \A i \in 1 .. k - 1 + 1 : SubSeq(s, 1, k)[i] = s[1 + i - 1]
  BY <1>1, SubSeqProperties
<1> QED BY <1>1, <1>2, <1>3, <1>4

(* One sequence after another.                                             *)
LEMMA ConcatFacts ==
  ASSUME NEW S, NEW s \in Seq(S), NEW t \in Seq(S)
  PROVE  /\ s \o t \in Seq(S) /\ Len(s \o t) = Len(s) + Len(t)
         /\ \A i \in 1 .. Len(s) : (s \o t)[i] = s[i]
         /\ \A i \in 1 .. Len(t) : (s \o t)[Len(s) + i] = t[i]
BY ConcatProperties

(* Headers and payloads are told apart, and both are units of the stream.  *)
LEMMA UnitFacts ==
  /\ Header \in Unit /\ <<Header>> \in Seq(Unit)
  /\ \A o, n \in Vts : /\ Payload(o, n) \in Unit /\ Payload(o, n) # Header
                       /\ Payload(o, n).new = n
                       /\ <<Header, Payload(o, n)>> \in Seq(Unit)
  /\ \A u \in Unit : u # Header => u.new \in Vts
<1>1. Header.type = "header"
  BY DEF Header
<1>2. \A o, n : Payload(o, n).type = "payload" /\ Payload(o, n).new = n
  BY DEF Payload
<1>3. "header" # "payload"
  OBVIOUS
<1>4. \A u \in Unit : u # Header => u.new \in Vts
  BY <1>2 DEF Unit
<1> QED BY <1>1, <1>2, <1>3, <1>4 DEF Unit

(* The stream is what the daemon has read and what is still in the socket. *)
LEMMA StreamFacts ==
  ASSUME wire \in Seq(Unit), buffer \in Seq(Unit)
  PROVE  /\ Stream \in Seq(Unit) /\ Len(Stream) = Len(buffer) + Len(wire)
         /\ Len(Stream) \in Nat
         /\ \A i \in 1 .. Len(buffer) : Stream[i] = buffer[i]
         /\ \A i \in 1 .. Len(wire) : Stream[Len(buffer) + i] = wire[i]
BY ConcatFacts DEF Stream

(* Units that dde-seatd writes come last.                                  *)
LEMMA StreamGrows ==
  ASSUME wire \in Seq(Unit), buffer \in Seq(Unit), NEW units \in Seq(Unit),
         wire' = wire \o units, buffer' = buffer
  PROVE  /\ wire' \in Seq(Unit) /\ Stream' \in Seq(Unit)
         /\ Len(Stream') = Len(Stream) + Len(units)
         /\ \A i \in 1 .. Len(Stream) : Stream'[i] = Stream[i]
         /\ \A i \in 1 .. Len(units) : Stream'[Len(Stream) + i] = units[i]
<1>1. wire \o units \in Seq(Unit) /\ Stream \in Seq(Unit)
  BY StreamFacts
<1>2. Stream' = Stream \o units
  <2>1. (buffer \o wire) \o units = buffer \o (wire \o units)
    BY ConcatAssociative, SMTT(60)
  <2>2. Stream' = buffer' \o wire' /\ Stream = buffer \o wire
    BY DEF Stream
  <2> QED BY <2>1, <2>2
<1> QED BY <1>1, <1>2, ConcatFacts

(* The daemon reads k units, which gives it these, and drops the first d.  *)
ReadAndDrop(k, units, d) ==
  /\ k \in 1 .. Len(wire) /\ units = buffer \o SubSeq(wire, 1, k)
  /\ d \in Nat /\ d <= Len(units)
  /\ wire' = SubSeq(wire, k + 1, Len(wire))
  /\ buffer' = SubSeq(units, d + 1, Len(units))

(* Then as many are gone from the front of the stream.                     *)
LEMMA StreamShrinks ==
  ASSUME wire \in Seq(Unit), buffer \in Seq(Unit), NEW k, NEW units, NEW d,
         ReadAndDrop(k, units, d)
  PROVE  /\ units \in Seq(Unit) /\ Len(units) = Len(buffer) + k
         /\ \A i \in 1 .. Len(units) : units[i] = Stream[i]
         /\ wire' \in Seq(Unit) /\ buffer' \in Seq(Unit)
         /\ Len(buffer') = Len(units) - d
         /\ Len(Stream) \in Nat /\ Len(units) <= Len(Stream)
         /\ Stream' \in Seq(Unit) /\ Len(Stream') = Len(Stream) - d
         /\ \A i \in 1 .. Len(Stream') : Stream'[i] = Stream[i + d]
<1> USE DEF ReadAndDrop
<1> DEFINE front == SubSeq(wire, 1, k)
           back == SubSeq(wire, k + 1, Len(wire))
           rest == SubSeq(units, d + 1, Len(units))
<1>0. /\ k \in Nat /\ k <= Len(wire) /\ k >= 1 /\ d \in Nat /\ d <= Len(units)
      /\ Len(wire) \in Nat /\ Len(buffer) \in Nat
  OBVIOUS
<1>1. /\ front \in Seq(Unit) /\ Len(front) = k
      /\ \A i \in 1 .. k : front[i] = wire[i]
  BY <1>0, PrefixFacts
<1>2. /\ back \in Seq(Unit) /\ Len(back) = Len(wire) - k
      /\ \A i \in 1 .. Len(wire) - k : back[i] = wire[k + i]
  BY <1>0, SuffixFacts
<1> HIDE DEF front, back
<1>3. units = buffer \o front /\ wire' = back
  BY DEF front, back
<1>4. /\ units \in Seq(Unit) /\ Len(units) = Len(buffer) + k
      /\ \A i \in 1 .. Len(buffer) : units[i] = buffer[i]
      /\ \A i \in 1 .. k : units[Len(buffer) + i] = wire[i]
  <2>1. /\ buffer \o front \in Seq(Unit)
        /\ Len(buffer \o front) = Len(buffer) + Len(front)
        /\ \A i \in 1 .. Len(buffer) : (buffer \o front)[i] = buffer[i]
        /\ \A i \in 1 .. Len(front) : (buffer \o front)[Len(buffer) + i] = front[i]
    <3>1. front \in Seq(Unit) /\ buffer \in Seq(Unit)
      BY <1>1
    <3> QED BY <3>1, ConcatFacts
  <2> QED BY <1>1, <1>3, <2>1
<1>5. /\ rest \in Seq(Unit) /\ Len(rest) = Len(units) - d
      /\ \A i \in 1 .. Len(units) - d : rest[i] = units[d + i]
  <2>1. units \in Seq(Unit)
    BY <1>4
  <2> QED BY <2>1, SuffixFacts
<1> HIDE DEF rest
<1>6. buffer' = rest
  BY DEF rest
<1>7. /\ Stream \in Seq(Unit) /\ Len(Stream) = Len(buffer) + Len(wire)
      /\ \A i \in 1 .. Len(buffer) : Stream[i] = buffer[i]
      /\ \A i \in 1 .. Len(wire) : Stream[Len(buffer) + i] = wire[i]
  BY StreamFacts
<1>8. ASSUME NEW i \in 1 .. Len(units) PROVE units[i] = Stream[i]
  <2>1. CASE i \in 1 .. Len(buffer)
    BY <1>4, <1>7, <2>1
  <2>2. CASE i \notin 1 .. Len(buffer)
    <3> DEFINE j == i - Len(buffer)
    <3>1. j \in 1 .. k /\ j \in 1 .. Len(wire) /\ i = Len(buffer) + j
      BY <1>0, <1>4, <2>2
    <3> HIDE DEF j
    <3> QED BY <1>4, <1>7, <3>1
  <2> QED BY <2>1, <2>2
<1>9. Stream' = rest \o back
  BY <1>3, <1>6 DEF Stream
<1>10. /\ Stream' \in Seq(Unit) /\ Len(Stream') = Len(rest) + Len(back)
       /\ \A i \in 1 .. Len(rest) : Stream'[i] = rest[i]
       /\ \A i \in 1 .. Len(back) : Stream'[Len(rest) + i] = back[i]
  <2>1. rest \in Seq(Unit) /\ back \in Seq(Unit)
    BY <1>2, <1>5
  <2>2. /\ rest \o back \in Seq(Unit)
        /\ Len(rest \o back) = Len(rest) + Len(back)
        /\ \A i \in 1 .. Len(rest) : (rest \o back)[i] = rest[i]
        /\ \A i \in 1 .. Len(back) : (rest \o back)[Len(rest) + i] = back[i]
    BY <2>1, ConcatFacts
  <2> QED BY <1>9, <2>2
<1>11. Len(rest) \in Nat /\ Len(back) \in Nat /\ Len(units) \in Nat
  BY <1>2, <1>4, <1>5
<1>12. ASSUME NEW i \in 1 .. Len(Stream') PROVE Stream'[i] = Stream[i + d]
  <2>1. CASE i \in 1 .. Len(rest)
    <3>1. i \in 1 .. Len(units) - d /\ Stream'[i] = rest[i]
      BY <1>5, <1>10, <2>1
    <3>2. rest[i] = units[d + i]
      BY <1>5, <3>1
    <3>3. d + i \in 1 .. Len(units) /\ d + i = i + d
      BY <1>0, <1>11, <3>1
    <3>4. units[d + i] = Stream[d + i]
      BY <1>8, <3>3
    <3> QED BY <3>1, <3>2, <3>3, <3>4
  <2>2. CASE i \notin 1 .. Len(rest)
    <3> DEFINE j == i - Len(rest)
    <3>1. j \in 1 .. Len(back) /\ i = Len(rest) + j
      BY <1>10, <1>11, <2>2
    <3>2. Len(buffer) + (k + j) = i + d /\ j \in 1 .. Len(wire) - k /\ k + j \in 1 .. Len(wire)
      BY <1>0, <1>2, <1>4, <1>5, <3>1
    <3> HIDE DEF j
    <3>3. Stream'[i] = wire[k + j]
      BY <1>2, <1>10, <3>1, <3>2
    <3>4. Stream[Len(buffer) + (k + j)] = wire[k + j]
      BY <1>7, <3>2
    <3>5. Stream[i + d] = wire[k + j]
      BY <3>2, <3>4
    <3> QED BY <3>3, <3>5
  <2> QED BY <2>1, <2>2
<1>13. /\ Len(Stream) \in Nat /\ Len(units) <= Len(Stream)
       /\ Len(Stream') = Len(Stream) - d /\ Len(buffer') = Len(units) - d
  <2>1. Len(buffer') = Len(units) - d
    BY <1>5, <1>6
  <2>2. Len(Stream) = Len(buffer) + Len(wire) /\ Len(units) = Len(buffer) + k
    BY <1>4, <1>7
  <2>3. Len(Stream') = (Len(units) - d) + (Len(wire) - k)
    BY <1>2, <1>5, <1>10
  <2> QED BY <1>0, <2>1, <2>2, <2>3
<1> QED BY <1>2, <1>3, <1>4, <1>5, <1>6, <1>8, <1>10, <1>12, <1>13

(* What a change of the VT does to the event socket; Switched is also the  *)
(* change to the VT that is active already.                                *)
LEMMA SwitchedStep ==
  ASSUME TypeOK, SocketInv, StreamInv, NEW v \in Vts, Switched(v),
         UNCHANGED <<running, closed, open, buffer>>
  PROVE  /\ active' = v /\ active' \in Vts /\ switches' \in 0 .. MaxSwitches
         /\ running /\ wire' \in Seq(Unit) /\ Live' = Live
         /\ SocketInv' /\ StreamInv'
         /\ Live /\ Len(Stream') = 0 => active' = active /\ Len(Stream) = 0
         /\ wire' = <<>> /\ Live => wire = <<>> /\ active' = active
<1>1. /\ running /\ active \in Vts /\ switches \in 0 .. MaxSwitches
      /\ wire \in Seq(Unit) /\ buffer \in Seq(Unit)
      /\ open \in BOOLEAN /\ closed \in BOOLEAN
  BY DEF Switched, TypeOK
<1>2. Live' = Live
  BY DEF Live
<1>3. CASE v = active
  <2>1. UNCHANGED <<active, switches, wire>>
    BY <1>3 DEF Switched
  <2>2. Stream' = Stream
    BY <2>1 DEF Stream
  <2>3. SocketInv'
    BY <1>2, <2>1 DEF SocketInv
  <2>4. StreamInv'
    BY <1>2, <2>1, <2>2 DEF StreamInv
  <2> QED BY <1>1, <1>2, <1>3, <2>1, <2>2, <2>3, <2>4
<1>4. CASE v # active
  <2> DEFINE units == <<Header, Payload(active, v)>>
  <2>1. active' = v /\ switches' \in 0 .. MaxSwitches /\ wire' = Sent(units)
    BY <1>1, <1>4 DEF Switched
  <2>2. CASE ~Live
    <3>1. wire' = wire
      BY <2>1, <2>2 DEF Sent, Live
    <3>2. Stream' = Stream
      BY <3>1 DEF Stream
    <3>3. SocketInv'
      BY <1>2, <2>2, <3>1 DEF SocketInv
    <3>4. StreamInv'
      BY <1>2, <2>2, <3>2 DEF StreamInv
    <3> QED BY <1>1, <1>2, <2>1, <2>2, <3>1, <3>3, <3>4
  <2>3. CASE Live
    <3>1. units \in Seq(Unit) /\ Len(units) = 2
      BY <1>1, UnitFacts
    <3>2. units[1] = Header /\ units[2] # Header /\ units[2].new = v
      BY <1>1, UnitFacts
    <3>3. wire' = wire \o units
      BY <2>1, <2>3 DEF Sent, Live
    <3> HIDE DEF units
    <3>4. /\ wire' \in Seq(Unit) /\ Stream' \in Seq(Unit)
          /\ Len(Stream') = Len(Stream) + 2
          /\ \A i \in 1 .. Len(Stream) : Stream'[i] = Stream[i]
          /\ \A i \in 1 .. 2 : Stream'[Len(Stream) + i] = units[i]
      BY <1>1, <3>1, <3>3, StreamGrows
    <3>5. Len(Stream) \in Nat /\ Len(Stream) % 2 = 0
      BY <1>1, <2>3, StreamFacts DEF StreamInv
    <3>6. Stream'[Len(Stream) + 1] = Header /\ Stream'[Len(Stream) + 2] = units[2]
      BY <3>2, <3>4
    <3>7. ASSUME NEW i \in 1 .. Len(Stream')
          PROVE  (Stream'[i] = Header) <=> (i % 2 = 1)
      <4>1. CASE i \in 1 .. Len(Stream)
        BY <3>4, <4>1 DEF StreamInv
      <4>2. CASE i = Len(Stream) + 1
        BY <3>5, <3>6, <4>2, Parity
      <4>3. CASE i = Len(Stream) + 2
        <5>1. i % 2 = 0
          BY <3>5, <4>3, Parity
        <5> QED BY <3>2, <3>6, <4>3, <5>1
      <4> QED BY <3>4, <3>5, <4>1, <4>2, <4>3
    <3>8. Len(Stream') % 2 = 0 /\ Len(Stream') > 0
      BY <3>4, <3>5, Parity
    <3>9. Stream'[Len(Stream')].new = active'
      BY <2>1, <3>2, <3>4, <3>6
    <3>10. StreamInv'
      BY <3>7, <3>8, <3>9 DEF StreamInv
    <3>11. open = TRUE /\ closed = FALSE
      BY <2>3 DEF Live
    <3>12. SocketInv'
      BY <1>1, <3>11 DEF SocketInv
    <3>13. wire' # <<>>
      <4>1. wire \in Seq(Unit) /\ units \in Seq(Unit)
        BY <1>1, <3>1
      <4>2. Len(wire \o units) = Len(wire) + Len(units)
        BY <4>1, ConcatFacts
      <4> QED BY <3>1, <3>3, <4>1, <4>2
    <3> QED BY <1>1, <1>2, <2>1, <3>4, <3>8, <3>10, <3>12, <3>13
  <2> QED BY <2>2, <2>3
<1> QED BY <1>3, <1>4

(* Nothing happens to the event socket.                                    *)
LEMMA SocketUnchanged ==
  ASSUME UNCHANGED <<wire, closed, open, buffer>>
  PROVE  /\ Stream' = Stream /\ Live' = Live
         /\ SocketInv /\ (running => running') => SocketInv'
         /\ StreamInv /\ UNCHANGED active => StreamInv'
BY DEF Stream, Live, SocketInv, StreamInv

(* The daemon closed its end.                                              *)
LEMMA SocketClosed ==
  ASSUME Disconnected
  PROVE  /\ wire' \in Seq(Unit) /\ buffer' \in Seq(Unit)
         /\ open' = FALSE /\ closed' = FALSE /\ cachedVt' = NoVt /\ heard' = NoVt
         /\ SocketInv' /\ StreamInv' /\ CacheInv' /\ HeardInv' /\ OwnerInv'
<1>1. /\ open' = FALSE /\ closed' = FALSE /\ cachedVt' = NoVt /\ heard' = NoVt
      /\ wire' = <<>> /\ buffer' = <<>>
  BY DEF Disconnected
<1>2. <<>> \in Seq(Unit) /\ Len(<<>>) = 0
  OBVIOUS
<1>3. Stream' = <<>> /\ Len(Stream') = 0
  <2>1. <<>> \o <<>> = <<>>
    OBVIOUS
  <2> QED BY <1>1, <1>2, <2>1 DEF Stream
<1>4. Live' = FALSE
  BY <1>1 DEF Live
<1>5. SocketInv'
  BY <1>1, <1>2, <1>4 DEF SocketInv
<1>6. StreamInv'
  BY <1>3, <1>4 DEF StreamInv
<1>7. CacheInv' /\ HeardInv' /\ OwnerInv'
  BY <1>1, <1>4 DEF CacheInv, HeardInv, OwnerInv, Settled, ShownOn
<1> QED BY <1>1, <1>2, <1>5, <1>6, <1>7

-----------------------------------------------------------------------------
(* The actions, one lemma each where there is something to say.            *)

(* A VT switch adds an event to the stream of a connection that works.     *)
LEMMA SwitchVtStep ==
  ASSUME IInv, NEW v \in Vts, SwitchVt(v)
  PROVE  IInv'
<1>1. TypeOK /\ SocketInv /\ StreamInv /\ CacheInv /\ GroupInv /\ OwnerInv
  BY DEF IInv
<1>2. /\ Switched(v)
      /\ UNCHANGED <<running, grouped, destroying, late, leaked, stops,
                     closed, open, buffer, cachedVt, pc, login, auths,
                     registry, stale, xServer, connected, told, heard>>
  BY DEF SwitchVt, groups, call, sessions, treeland
<1>3. /\ active' \in Vts /\ switches' \in 0 .. MaxSwitches
      /\ wire' \in Seq(Unit) /\ Live' = Live /\ SocketInv' /\ StreamInv'
      /\ Live /\ Len(Stream') = 0 => active' = active /\ Len(Stream) = 0
  BY <1>1, <1>2, SwitchedStep
<1>4. TypeOK'
  BY <1>1, <1>2, <1>3 DEF TypeOK
<1>5. CacheInv'
  BY <1>1, <1>2, <1>3 DEF CacheInv
<1>6. CallInv' /\ VtsApart' /\ RegistryExact' /\ HeardInv'
  BY <1>2 DEF IInv, CallInv, VtsApart, RegistryExact, HeardInv
<1>7. GroupInv'
  BY <1>1, <1>2 DEF GroupInv, GroupsFollowSessions, GroupLeaksKnown, SessionsStayGrouped
<1>8. OwnerInv'
  <2>1. Settled' => Settled /\ active' = active
    BY <1>2, <1>3 DEF Settled
  <2> QED BY <1>1, <1>2, <2>1 DEF OwnerInv, ShownOn
<1> QED BY <1>3, <1>4, <1>5, <1>6, <1>7, <1>8 DEF IInv

(* dde-seatd ungroups a VT that no session and no login has.               *)
LEMMA GroupDestroyedStep ==
  ASSUME IInv, NEW v \in Vts, GroupDestroyed(v)
  PROVE  IInv'
<1>1. /\ running /\ v \in destroying
      /\ destroying' = destroying \ {v} /\ grouped' = grouped \ {v}
      /\ leaked' = leaked \ {v}
      /\ UNCHANGED <<running, active, late, switches, stops, wire, closed,
                     open, buffer, cachedVt, pc, login, auths, registry,
                     stale, xServer, connected, told, heard>>
  BY DEF GroupDestroyed, socket, call, sessions, treeland
<1>2. Stream' = Stream /\ Live' = Live /\ SocketInv' /\ StreamInv'
  BY <1>1, SocketUnchanged DEF IInv
<1>3. TypeOK'
  BY <1>1 DEF IInv, TypeOK
<1>4. CacheInv' /\ CallInv' /\ VtsApart' /\ RegistryExact' /\ HeardInv'
  BY <1>1, <1>2 DEF IInv, CacheInv, CallInv, VtsApart, RegistryExact, HeardInv
<1>5. OwnerInv'
  BY <1>1, <1>2 DEF IInv, OwnerInv, Settled, ShownOn
<1>6. GroupInv'
  <2>1. (running \in BOOLEAN) /\ running = TRUE
    BY <1>1 DEF IInv, TypeOK
  <2>2. GroupLeaksKnown'
    BY <1>1 DEF IInv, GroupInv, GroupsFollowSessions, GroupLeaksKnown
  <2>3. SessionsStayGrouped'
    BY <1>1 DEF IInv, GroupInv, GroupsFollowSessions, SessionsStayGrouped
  <2> QED BY <1>1, <2>1, <2>2, <2>3 DEF IInv, GroupInv, GroupsFollowSessions
<1> QED BY <1>2, <1>3, <1>4, <1>5, <1>6 DEF IInv

(* dde-seatd may stop in the middle of an event: the socket is not live    *)
(* any more, so what is in it only has to be headers and payloads in turn. *)
LEMMA SeatdStopsStep ==
  ASSUME IInv, SeatdStops
  PROVE  IInv'
<1>1. /\ running /\ stops < MaxStops
      /\ running' = FALSE /\ stops' = stops + 1
      /\ grouped' = {} /\ destroying' = {} /\ late' = 0 /\ leaked' = {}
      /\ closed' = open
      /\ wire' \in {wire, Sent(<<Header>>)}
      /\ UNCHANGED <<active, switches, open, buffer, cachedVt, pc, login,
                     auths, registry, stale, xServer, connected, told, heard>>
  BY DEF SeatdStops, call, sessions, treeland
<1>2. /\ wire \in Seq(Unit) /\ buffer \in Seq(Unit) /\ open \in BOOLEAN
      /\ closed \in BOOLEAN /\ stops \in 0 .. MaxStops
  BY DEF IInv, TypeOK
<1>3. Live' = FALSE
  BY <1>1, <1>2 DEF Live
<1>4. ~open => wire' = wire
  BY <1>1 DEF Sent
<1>5. wire' \in Seq(Unit) /\ StreamInv'
  <2>1. CASE wire' = wire
    <3>1. Stream' = Stream
      BY <1>1, <2>1 DEF Stream
    <3> QED BY <1>2, <1>3, <2>1, <3>1 DEF IInv, StreamInv
  <2>2. CASE wire' # wire
    <3> DEFINE units == <<Header>>
    <3>1. Live
      BY <1>1, <2>2 DEF Sent, Live
    <3>2. wire' = wire \o units
      BY <1>1, <2>2, <3>1 DEF Sent, Live
    <3>3. units \in Seq(Unit) /\ Len(units) = 1 /\ units[1] = Header
      BY UnitFacts
    <3> HIDE DEF units
    <3>4. /\ wire' \in Seq(Unit) /\ Len(Stream') = Len(Stream) + 1
          /\ \A i \in 1 .. Len(Stream) : Stream'[i] = Stream[i]
          /\ Stream'[Len(Stream) + 1] = Header
      <4>1. buffer' = buffer
        BY <1>1
      <4>2. /\ wire' \in Seq(Unit) /\ Len(Stream') = Len(Stream) + Len(units)
            /\ \A i \in 1 .. Len(Stream) : Stream'[i] = Stream[i]
            /\ \A i \in 1 .. Len(units) : Stream'[Len(Stream) + i] = units[i]
        BY <1>2, <3>2, <3>3, <4>1, StreamGrows
      <4> QED BY <3>3, <4>2
    <3>5. Len(Stream) \in Nat /\ Len(Stream) % 2 = 0
      BY <1>2, <3>1, StreamFacts DEF IInv, StreamInv
    <3>6. ASSUME NEW i \in 1 .. Len(Stream')
          PROVE  (Stream'[i] = Header) <=> (i % 2 = 1)
      <4>1. CASE i \in 1 .. Len(Stream)
        BY <3>4, <4>1 DEF IInv, StreamInv
      <4>2. CASE i = Len(Stream) + 1
        BY <3>4, <3>5, <4>2, Parity
      <4> QED BY <3>4, <3>5, <4>1, <4>2
    <3> QED BY <1>3, <3>4, <3>6 DEF StreamInv
  <2> QED BY <2>1, <2>2
<1>6. SocketInv'
  BY <1>1, <1>2, <1>3, <1>4 DEF IInv, SocketInv
<1>7. TypeOK'
  <2>1. stops' \in 0 .. MaxStops /\ running' \in BOOLEAN /\ closed' \in BOOLEAN
    <3>1. stops' = stops + 1 /\ stops < MaxStops
      BY <1>1
    <3>2. running' = FALSE /\ closed' = open
      BY <1>1
    <3>3. stops' \in 0 .. MaxStops
      BY <1>2, <3>1
    <3>4. closed' \in BOOLEAN
      BY <1>2, <3>2
    <3> QED BY <3>2, <3>3, <3>4
  <2>2. /\ grouped' \subseteq Vts /\ destroying' \subseteq Vts
        /\ leaked' \subseteq Vts /\ late' \in 0 .. MaxLate
    BY <1>1
  <2>3. UNCHANGED <<active, switches, open, buffer, cachedVt, pc, login,
                    auths, registry, stale, xServer, connected, told, heard>>
    BY <1>1
  <2> QED BY <1>5, <2>1, <2>2, <2>3 DEF IInv, TypeOK
<1>8. CacheInv' /\ OwnerInv'
  BY <1>3 DEF CacheInv, OwnerInv, Settled, ShownOn
<1>9. CallInv' /\ VtsApart' /\ RegistryExact' /\ HeardInv'
  BY <1>1 DEF IInv, CallInv, VtsApart, RegistryExact, HeardInv
<1>10. GroupInv'
  BY <1>1, <1>2 DEF GroupInv, GroupsFollowSessions, GroupLeaksKnown, SessionsStayGrouped
<1> QED BY <1>5, <1>6, <1>7, <1>8, <1>9, <1>10 DEF IInv

(* dde-seatd starts again, without groups; the old connection stays        *)
(* broken.                                                                 *)
LEMMA SeatdStartsStep ==
  ASSUME IInv, SeatdStarts
  PROVE  IInv'
<1>1. /\ ~running /\ running' = TRUE /\ active' \in Vts
      /\ UNCHANGED <<grouped, destroying, late, leaked, switches, stops, wire,
                     closed, open, buffer, cachedVt, pc, login, auths,
                     registry, stale, xServer, connected, told, heard>>
  BY DEF SeatdStarts, groups, socket, call, sessions, treeland
<1>2. Stream' = Stream /\ Live' = FALSE /\ Live = FALSE /\ SocketInv'
  <2>1. Stream' = Stream /\ Live' = Live /\ SocketInv'
    BY <1>1, SocketUnchanged DEF IInv
  <2>2. ~Live
    BY <1>1 DEF IInv, SocketInv
  <2> QED BY <2>1, <2>2 DEF Live
<1>3. StreamInv'
  BY <1>2 DEF IInv, StreamInv
<1>4. TypeOK'
  BY <1>1 DEF IInv, TypeOK
<1>5. CacheInv' /\ OwnerInv'
  BY <1>2 DEF CacheInv, OwnerInv, Settled, ShownOn
<1>6. CallInv' /\ VtsApart' /\ RegistryExact' /\ HeardInv'
  BY <1>1 DEF IInv, CallInv, VtsApart, RegistryExact, HeardInv
<1>7. GroupInv'
  BY <1>1 DEF IInv, GroupInv, GroupsFollowSessions, GroupLeaksKnown, SessionsStayGrouped
<1> QED BY <1>2, <1>3, <1>4, <1>5, <1>6, <1>7 DEF IInv

(* Whom a VT is routed to, as long as the registry says what Display::auths *)
(* does: its owner.                                                        *)
LEMMA RouteFacts ==
  ASSUME TypeOK, VtsApart, RegistryExact, NEW v \in Vts
  PROVE  /\ Route(v) \in Users \cup {"dde", "nothing"}
         /\ v = GreeterVt => Route(v) = "dde"
         /\ \A u \in Users :
              auths[u] = [vt |-> v, treeland |-> TRUE] => Route(v) = ShownOn(v, u)
<1> DEFINE found == {s \in registry : s.vt = v}
<1>1. registry \subseteq [user : Users, vt : Vts] /\ stale[v] \in Users \cup {"dde"}
  BY DEF TypeOK
<1>2. stale[v] = "dde" /\ found # {} =>
        /\ FindUserByVt(v) \in Users
        /\ [user |-> FindUserByVt(v), vt |-> v] \in registry
  <2> SUFFICES ASSUME stale[v] = "dde", found # {}
               PROVE  /\ FindUserByVt(v) \in Users
                      /\ [user |-> FindUserByVt(v), vt |-> v] \in registry
    OBVIOUS
  <2>1. FindUserByVt(v) = (CHOOSE s \in found : TRUE).user
    BY DEF FindUserByVt
  <2>2. PICK s \in found : s = CHOOSE r \in found : TRUE
    OBVIOUS
  <2>3. s \in registry /\ s \in [user : Users, vt : Vts] /\ s.vt = v
    BY <1>1
  <2>4. s = [user |-> s.user, vt |-> v] /\ s.user \in Users
    BY <2>3
  <2> QED BY <2>1, <2>2, <2>3, <2>4
<1>3. stale[v] = "dde" /\ found = {} => FindUserByVt(v) = "dde"
  BY DEF FindUserByVt
<1>4. stale[v] # "dde" => FindUserByVt(v) = stale[v]
  BY DEF FindUserByVt
<1> HIDE DEF found
<1>5. FindUserByVt(v) \in Users \cup {"dde"}
  BY <1>1, <1>2, <1>3, <1>4
<1>6. v = GreeterVt => Route(v) = "dde"
  BY DEF Route, IsVtRunningTreeland
<1>7. Route(v) \in Users \cup {"dde", "nothing"}
  BY <1>5 DEF Route
<1>8. ASSUME NEW u \in Users, auths[u] = [vt |-> v, treeland |-> TRUE]
      PROVE  Route(v) = ShownOn(v, u)
  <2>1. auths[u].vt = v /\ auths[u] # NoAuth /\ v # GreeterVt
    <3>1. auths[u].vt = v /\ auths[u].treeland = TRUE /\ NoAuth.treeland = FALSE
      BY <1>8 DEF NoAuth
    <3> QED BY <3>1 DEF VtsApart
  <2>2. IsVtRunningTreeland(v)
    BY <1>8 DEF IsVtRunningTreeland
  <2>3. FindUserByVt(v) # "dde" => Route(v) = FindUserByVt(v)
    BY <2>1, <2>2 DEF Route
  <2>4. CASE stale[v] # "dde"
    BY <1>4, <2>3, <2>4 DEF ShownOn
  <2>5. CASE stale[v] = "dde"
    <3>1. [user |-> u, vt |-> v] \in registry
      BY <2>1 DEF RegistryExact
    <3>2. found # {}
      BY <3>1 DEF found
    <3>3. /\ auths[FindUserByVt(v)] # NoAuth
          /\ auths[FindUserByVt(v)].vt = v /\ FindUserByVt(v) \in Users
      BY <1>2, <2>5, <3>2 DEF RegistryExact
    <3>4. FindUserByVt(v) = u
      BY <2>1, <3>3 DEF VtsApart
    <3>5. u # "dde"
      OBVIOUS
    <3> QED BY <2>3, <2>5, <3>4, <3>5 DEF ShownOn
  <2> QED BY <2>4, <2>5
<1> QED BY <1>6, <1>7, <1>8

(* A run of events shows what its last command says; a last event that is  *)
(* a command is that.                                                      *)
LEMMA RoutedFacts ==
  ASSUME TypeOK, VtsApart, RegistryExact, NEW n \in Nat,
         NEW events, DOMAIN events = 1 .. n, Len(events) = n,
         \A i \in 1 .. n : events[i].new \in Vts, n = 0 <=> events = <<>>,
         Routed(events)
  PROVE  /\ told' \in Users \cup {"dde", "nothing"}
         /\ n = 0 => UNCHANGED <<told, heard>>
         /\ ~connected => UNCHANGED <<told, heard>>
         /\ connected /\ n > 0 =>
              /\ heard' = events[n].new
              /\ Route(events[n].new) # "nothing" => told' = Route(events[n].new)
<1> DEFINE commands == {i \in 1 .. n : Route(events[i].new) # "nothing"}
           last == CHOOSE i \in commands : \A j \in commands : j <= i
<1>1. told \in Users \cup {"dde", "nothing"} /\ connected \in BOOLEAN
  BY DEF TypeOK
<1>2. /\ connected /\ commands # {} => told' = Route(events[last].new)
      /\ ~connected \/ commands = {} => told' = told
  BY DEF Routed
<1>3. /\ connected /\ events # <<>> => heard' = events[n].new
      /\ ~connected \/ events = <<>> => heard' = heard
  BY DEF Routed
<1>4. commands # {} => last \in commands /\ \A j \in commands : j <= last
  <2> HIDE DEF commands
  <2>1. commands \in SUBSET (1 .. n)
    BY DEF commands
  <2>2. commands # {} => \E i \in commands : \A j \in commands : j <= i
    BY <2>1, LargestNumber
  <2> QED BY <2>2
<1>5. commands # {} => Route(events[last].new) \in Users \cup {"dde", "nothing"}
  <2> SUFFICES ASSUME commands # {}
               PROVE  Route(events[last].new) \in Users \cup {"dde", "nothing"}
    OBVIOUS
  <2>1. last \in 1 .. n
    BY <1>4
  <2> HIDE DEF last
  <2> QED BY <2>1, RouteFacts
<1>6. n > 0 /\ Route(events[n].new) # "nothing" => commands # {} /\ last = n
  <2> SUFFICES ASSUME n > 0, Route(events[n].new) # "nothing"
               PROVE  commands # {} /\ last = n
    OBVIOUS
  <2>1. n \in commands
    OBVIOUS
  <2>2. last \in commands /\ n <= last
    BY <1>4, <2>1
  <2>3. last \in 1 .. n
    BY <2>2
  <2> HIDE DEF last, commands
  <2> QED BY <2>1, <2>2, <2>3
<1>7. n = 0 => commands = {}
  OBVIOUS
<1> HIDE DEF commands, last
<1>8. told' \in Users \cup {"dde", "nothing"}
  BY <1>1, <1>2, <1>5
<1>9. (n = 0 \/ ~connected) => UNCHANGED <<told, heard>>
  BY <1>2, <1>3, <1>7
<1>10. connected /\ n > 0 =>
         /\ heard' = events[n].new
         /\ Route(events[n].new) # "nothing" => told' = Route(events[n].new)
  BY <1>2, <1>3, <1>6
<1> QED BY <1>8, <1>9, <1>10

(* Reading: whole events are handled, in order; the rest waits.            *)
LEMMA HandleEventSocketStep ==
  ASSUME IInv, HandleEventSocket
  PROVE  IInv'
<1>1. /\ TypeOK /\ SocketInv /\ StreamInv /\ CacheInv /\ CallInv /\ VtsApart
      /\ RegistryExact /\ GroupInv /\ HeardInv /\ OwnerInv
  BY DEF IInv
<1>2. /\ pc = "idle" /\ open
      /\ UNCHANGED <<running, active, grouped, destroying, late, leaked,
                     switches, stops, closed, open, pc, login, auths,
                     registry, stale, xServer, connected>>
  BY DEF HandleEventSocket, seatd, groups, call, sessions
<1>3. PICK k \in 1 .. Len(wire) :
        LET units == buffer \o SubSeq(wire, 1, k)
            n == Handled(units)
            events == [i \in 1 .. n |-> Event(units, i)] IN
        /\ wire' = SubSeq(wire, k + 1, Len(wire))
        /\ buffer' = SubSeq(units, 2 * n + 1, Len(units))
        /\ cachedVt' = IF n = 0 THEN cachedVt ELSE events[n].new
        /\ Routed(events)
  BY DEF HandleEventSocket
<1> DEFINE units == buffer \o SubSeq(wire, 1, k)
           n == Handled(units)
           events == [i \in 1 .. n |-> Event(units, i)]
<1>4. wire \in Seq(Unit) /\ buffer \in Seq(Unit) /\ Len(wire) \in Nat
  BY <1>1 DEF TypeOK
<1>5. units \in Seq(Unit) /\ Len(units) = Len(buffer) + k /\ Len(units) \in Nat
  <2>1. SubSeq(wire, 1, k) \in Seq(Unit) /\ Len(SubSeq(wire, 1, k)) = k
    BY <1>4, PrefixFacts
  <2> DEFINE front == SubSeq(wire, 1, k)
  <2> HIDE DEF front
  <2>2. front \in Seq(Unit) /\ buffer \in Seq(Unit) /\ Len(front) = k
    BY <1>4, <2>1 DEF front
  <2>3. buffer \o front \in Seq(Unit) /\ Len(buffer \o front) = Len(buffer) + Len(front)
    BY <2>2, ConcatFacts
  <2> QED BY <1>4, <2>2, <2>3 DEF front
<1>6. n \in Nat /\ 2 * n <= Len(units) /\ Len(units) <= 2 * n + 1 /\ 2 * n \in Nat
  <2> HIDE DEF units
  <2> QED BY <1>5, Parity DEF Handled
<1>7. Len(units) >= 1
  BY <1>4, <1>5
<1>8. /\ wire' = SubSeq(wire, k + 1, Len(wire))
      /\ buffer' = SubSeq(units, 2 * n + 1, Len(units))
      /\ cachedVt' = IF n = 0 THEN cachedVt ELSE events[n].new
      /\ Routed(events)
  BY <1>3
<1>9. units = buffer \o SubSeq(wire, 1, k)
  OBVIOUS
<1>10. DOMAIN events = 1 .. n /\ \A i \in 1 .. n : events[i] = units[2 * i]
  BY DEF Event
<1>11. Len(events) = n /\ (n = 0 <=> events = <<>>)
  BY <1>6
<1> HIDE DEF units, n, events
<1>12. /\ \A i \in 1 .. Len(units) : units[i] = Stream[i]
       /\ wire' \in Seq(Unit) /\ buffer' \in Seq(Unit)
       /\ Len(buffer') = Len(units) - 2 * n
       /\ Len(Stream) \in Nat /\ Len(units) <= Len(Stream)
       /\ Stream' \in Seq(Unit) /\ Len(Stream') = Len(Stream) - 2 * n
       /\ \A i \in 1 .. Len(Stream') : Stream'[i] = Stream[i + 2 * n]
  <2>1. PICK us, d : us = units /\ d = 2 * n
    OBVIOUS
  <2>2. d \in Nat /\ d <= Len(us) /\ us = buffer \o SubSeq(wire, 1, k)
    BY <1>6, <1>9, <2>1
  <2>3. wire' = SubSeq(wire, k + 1, Len(wire)) /\ buffer' = SubSeq(us, d + 1, Len(us))
    BY <1>8, <2>1
  <2>4. /\ us \in Seq(Unit) /\ Len(us) = Len(buffer) + k
        /\ \A i \in 1 .. Len(us) : us[i] = Stream[i]
        /\ wire' \in Seq(Unit) /\ buffer' \in Seq(Unit)
        /\ Len(buffer') = Len(us) - d
        /\ Len(Stream) \in Nat /\ Len(us) <= Len(Stream)
        /\ Stream' \in Seq(Unit) /\ Len(Stream') = Len(Stream) - d
        /\ \A i \in 1 .. Len(Stream') : Stream'[i] = Stream[i + d]
    <3>1. wire \in Seq(Unit) /\ buffer \in Seq(Unit)
      BY <1>4
    <3>2. ReadAndDrop(k, us, d)
      BY <2>2, <2>3 DEF ReadAndDrop
    <3> QED BY <3>1, <3>2, StreamShrinks
  <2> QED BY <2>1, <2>4
<1>13. Live' = Live
  BY <1>2 DEF Live
<1>14. SocketInv'
  <2>1. Len(buffer') <= 1
    BY <1>5, <1>6, <1>12
  <2> QED BY <1>1, <1>2, <1>13, <2>1 DEF SocketInv
<1>15. Len(Stream') \in Nat /\ Len(Stream) = Len(Stream') + 2 * n
  BY <1>5, <1>6, <1>12
<1>16. StreamInv'
  <2>1. ASSUME NEW i \in 1 .. Len(Stream')
        PROVE  (Stream'[i] = Header) <=> (i % 2 = 1)
    <3>1. i + 2 * n \in 1 .. Len(Stream) /\ (i + 2 * n) % 2 = i % 2
      BY <1>6, <1>15, Parity
    <3> QED BY <1>1, <1>12, <3>1 DEF StreamInv
  <2>2. Len(Stream') % 2 = Len(Stream) % 2
    BY <1>6, <1>15, Parity
  <2>3. Len(Stream') > 0 => Stream'[Len(Stream')] = Stream[Len(Stream)] /\ Len(Stream) > 0
    <3> SUFFICES ASSUME Len(Stream') > 0
                 PROVE  Stream'[Len(Stream')] = Stream[Len(Stream)] /\ Len(Stream) > 0
      OBVIOUS
    <3>1. Len(Stream') \in 1 .. Len(Stream')
      BY <1>15
    <3> QED BY <1>6, <1>12, <1>15, <3>1
  <2> QED BY <1>1, <1>2, <1>13, <2>1, <2>2, <2>3 DEF StreamInv
<1>17. \A i \in 1 .. n : events[i] = Stream[2 * i] /\ events[i].new \in Vts
  <2> SUFFICES ASSUME NEW i \in 1 .. n
               PROVE  events[i] = Stream[2 * i] /\ events[i].new \in Vts
    OBVIOUS
  <2>1. 2 * i \in 1 .. Len(units) /\ 2 * i \in 1 .. Len(Stream) /\ (2 * i) % 2 = 0
    BY <1>5, <1>6, <1>12, Parity
  <2>2. events[i] = units[2 * i] /\ units[2 * i] = Stream[2 * i]
    BY <1>10, <1>12, <2>1
  <2>3. units[2 * i] \in Unit
    BY <1>5, <2>1
  <2>4. Stream[2 * i] # Header
    BY <1>1, <2>1 DEF StreamInv
  <2> QED BY <2>2, <2>3, <2>4, UnitFacts
<1>18. /\ told' \in Users \cup {"dde", "nothing"}
       /\ n = 0 => UNCHANGED <<told, heard>>
       /\ ~connected => UNCHANGED <<told, heard>>
       /\ connected /\ n > 0 =>
            /\ heard' = events[n].new
            /\ Route(events[n].new) # "nothing" => told' = Route(events[n].new)
  BY <1>1, <1>6, <1>8, <1>10, <1>11, <1>17, RoutedFacts
<1>19. /\ n = 0 => cachedVt' = cachedVt
       /\ n > 0 => cachedVt' = events[n].new /\ cachedVt' \in Vts
  BY <1>6, <1>8, <1>17
<1>20. Live /\ Len(Stream') = 0 => n > 0 /\ events[n].new = active
  <2> SUFFICES ASSUME Live, Len(Stream') = 0
               PROVE  n > 0 /\ events[n].new = active
    OBVIOUS
  <2>1. n > 0 /\ Len(Stream) = 2 * n
    <3>1. Len(Stream) = 2 * n /\ Len(units) <= Len(Stream)
      BY <1>6, <1>12, <1>15
    <3> QED BY <1>5, <1>6, <1>7, <3>1
  <2>2. events[n] = Stream[Len(Stream)]
    BY <1>6, <1>17, <2>1
  <2> QED BY <1>1, <1>6, <2>1, <2>2 DEF StreamInv
<1>21. CacheInv'
  BY <1>2, <1>13, <1>19, <1>20 DEF CacheInv
<1>22. CallInv' /\ VtsApart' /\ RegistryExact' /\ GroupInv'
  BY <1>1, <1>2 DEF CallInv, VtsApart, RegistryExact, GroupInv,
     GroupsFollowSessions, GroupLeaksKnown, SessionsStayGrouped
<1>23. HeardInv' /\ heard' \in Vts \cup {NoVt}
  <2>1. heard \in Vts \cup {NoVt} /\ connected \in BOOLEAN
    BY <1>1 DEF TypeOK
  <2>2. CASE ~connected \/ n = 0
    <3>1. heard' = heard
      BY <1>18, <2>2
    <3>2. heard' # NoVt => n = 0
      BY <1>1, <2>2, <3>1 DEF HeardInv
    <3> QED BY <1>1, <1>2, <1>19, <2>1, <3>1, <3>2 DEF HeardInv
  <2>3. CASE connected /\ n > 0
    BY <1>2, <1>18, <1>19, <2>3 DEF HeardInv
  <2> QED BY <1>6, <2>1, <2>2, <2>3
<1>24. TypeOK'
  <2>1. cachedVt' \in Vts \cup {NoVt}
    BY <1>1, <1>6, <1>19 DEF TypeOK
  <2> QED BY <1>1, <1>2, <1>12, <1>18, <1>23, <2>1 DEF TypeOK
<1>25. OwnerInv'
  <2> SUFFICES ASSUME Settled'
               PROVE  /\ active = GreeterVt => told' = "dde"
                      /\ \A u \in Users :
                           auths[u] = [vt |-> active, treeland |-> TRUE] =>
                             told' = ShownOn(active, u)
    BY <1>1, <1>2 DEF OwnerInv, CallInv, ShownOn
  <2>1. Live /\ Len(Stream') = 0 /\ heard' # NoVt /\ connected
    BY <1>2, <1>13, <1>23 DEF Settled, HeardInv
  <2>2. n > 0 /\ events[n].new = active
    BY <1>20, <2>1
  <2>3. Route(active) # "nothing" => told' = Route(active)
    BY <1>18, <2>1, <2>2
  <2>4. active \in Vts /\ stale[active] \in Users \cup {"dde"}
    BY <1>1 DEF TypeOK
  <2>5. \A u \in Users : ShownOn(active, u) # "nothing"
    BY <2>4 DEF ShownOn
  <2>6. /\ active = GreeterVt => Route(active) = "dde"
        /\ \A u \in Users :
             auths[u] = [vt |-> active, treeland |-> TRUE] =>
               Route(active) = ShownOn(active, u)
    BY <1>1, <2>4, RouteFacts
  <2> QED BY <2>3, <2>5, <2>6
<1> QED BY <1>14, <1>16, <1>21, <1>22, <1>23, <1>24, <1>25 DEF IInv

(* What a login and a session that is not there look like.                 *)
LEMMA LoginFacts ==
  ASSUME TypeOK
  PROVE  /\ NoVt \notin Vts
         /\ login = NoLogin <=> login.vt = NoVt
         /\ login # NoLogin => login \in [user : Users, vt : Vts]
         /\ NoLogin.vt = NoVt /\ NoAuth.vt = NoVt /\ NoAuth.treeland = FALSE
         /\ \A u \in Users : auths[u] # NoAuth => auths[u].vt \in Vts
         /\ \A u \in Users : auths[u].treeland \in BOOLEAN
<1>1. login \in [user : Users, vt : Vts] \cup {NoLogin} /\ NoVt \notin Vts
  BY DEF TypeOK
<1>2. \A u \in Users : auths[u] \in [vt : Vts, treeland : BOOLEAN] \cup {NoAuth}
  BY DEF TypeOK
<1>3. NoLogin.vt = NoVt /\ NoAuth.vt = NoVt /\ NoAuth.treeland = FALSE
  BY DEF NoLogin, NoAuth
<1> QED BY <1>1, <1>2, <1>3

(* A login that is given up gives its VT to a destroy request, and no      *)
(* session loses its own by that.                                          *)
LEMMA AbandonedFacts ==
  ASSUME TypeOK, VtsApart, RegistryExact, GroupInv, Abandoned,
         UNCHANGED <<running, grouped, leaked, stops, auths, registry>>
  PROVE  /\ pc' = "idle" /\ login' = NoLogin /\ destroying' \subseteq Vts
         /\ CallInv' /\ VtsApart' /\ RegistryExact' /\ GroupInv'
<1>1. /\ pc' = "idle" /\ login' = NoLogin
      /\ destroying' = IF running /\ login.vt # NoVt
                         THEN destroying \cup {login.vt} ELSE destroying
  BY DEF Abandoned
<1>2. /\ login = NoLogin <=> login.vt = NoVt
      /\ login # NoLogin => login.vt \in Vts
  BY LoginFacts
<1>3. destroying \subseteq Vts /\ grouped \subseteq Vts /\ NoVt \notin Vts
  BY LoginFacts DEF TypeOK
<1>4. destroying' \subseteq Vts
  BY <1>1, <1>2, <1>3
<1>5. CallInv' /\ VtsApart' /\ RegistryExact'
  BY <1>1 DEF CallInv, VtsApart, RegistryExact
<1>6. GroupLeaksKnown'
  <2> SUFFICES ASSUME NEW v \in grouped
               PROVE  \/ v \in destroying' \/ v = NoLogin.vt \/ v \in leaked
                      \/ \E u \in Users : auths[u] = [vt |-> v, treeland |-> TRUE]
    BY <1>1 DEF GroupLeaksKnown
  <2>1. running /\ v # NoVt
    BY <1>3 DEF GroupInv
  <2> QED BY <1>1, <2>1 DEF GroupInv, GroupsFollowSessions, GroupLeaksKnown
<1>7. SessionsStayGrouped'
  <2> SUFFICES ASSUME stops = 0, NEW u \in Users, auths[u].treeland
               PROVE  auths[u].vt \in grouped \ destroying'
    BY DEF SessionsStayGrouped
  <2>1. auths[u].vt \in grouped \ destroying
    BY DEF GroupInv, GroupsFollowSessions, SessionsStayGrouped
  <2>2. login # NoLogin => auths[u].vt # login.vt
    BY DEF VtsApart
  <2> QED BY <1>1, <1>2, <2>1, <2>2
<1>8. ~running => grouped = {} /\ destroying' = {}
  BY <1>1 DEF GroupInv
<1>9. stops = 0 => destroying' \subseteq grouped
  BY <1>1, <1>2 DEF GroupInv
<1>10. GroupInv'
  BY <1>1, <1>6, <1>7, <1>8, <1>9 DEF GroupInv, GroupsFollowSessions
<1> QED BY <1>1, <1>4, <1>5, <1>10

(* The two ways in which the daemon ends with no event socket and the      *)
(* login given up.                                                         *)
LEMMA GivenUpStep ==
  ASSUME IInv, ConnectFails \/ QueryFails
  PROVE  IInv'
<1>1. /\ Disconnected /\ Abandoned
      /\ UNCHANGED <<running, active, grouped, late, leaked, switches, stops,
                     auths, registry, stale, xServer, connected, told>>
  BY DEF ConnectFails, QueryFails, sessions
<1>2. /\ wire' \in Seq(Unit) /\ buffer' \in Seq(Unit)
      /\ open' = FALSE /\ closed' = FALSE /\ cachedVt' = NoVt /\ heard' = NoVt
      /\ SocketInv' /\ StreamInv' /\ CacheInv' /\ HeardInv' /\ OwnerInv'
  BY <1>1, SocketClosed
<1>3. /\ pc' = "idle" /\ login' = NoLogin /\ destroying' \subseteq Vts
      /\ CallInv' /\ VtsApart' /\ RegistryExact' /\ GroupInv'
  BY <1>1, AbandonedFacts DEF IInv
<1>4. TypeOK'
  BY <1>1, <1>2, <1>3 DEF IInv, TypeOK
<1> QED BY <1>2, <1>3, <1>4 DEF IInv

(* The daemon notices that the connection broke, and forgets what it had   *)
(* read of an event.                                                       *)
LEMMA EventSocketClosesStep ==
  ASSUME IInv, EventSocketCloses
  PROVE  IInv'
<1>1. /\ Disconnected /\ pc = "idle"
      /\ UNCHANGED <<running, active, grouped, destroying, late, leaked,
                     switches, stops, pc, login, auths, registry, stale,
                     xServer, connected, told>>
  BY DEF EventSocketCloses, seatd, groups, call, sessions
<1>2. /\ wire' \in Seq(Unit) /\ buffer' \in Seq(Unit)
      /\ open' = FALSE /\ closed' = FALSE /\ cachedVt' = NoVt /\ heard' = NoVt
      /\ SocketInv' /\ StreamInv' /\ CacheInv' /\ HeardInv' /\ OwnerInv'
  BY <1>1, SocketClosed
<1>3. TypeOK'
  BY <1>1, <1>2 DEF IInv, TypeOK
<1>4. CallInv' /\ VtsApart' /\ RegistryExact'
  BY <1>1 DEF IInv, CallInv, VtsApart, RegistryExact
<1>5. GroupInv'
  BY <1>1 DEF IInv, GroupInv, GroupsFollowSessions, GroupLeaksKnown, SessionsStayGrouped
<1> QED BY <1>2, <1>3, <1>4, <1>5 DEF IInv

(* The login goes on with the connection there is.                         *)
LEMMA AlreadyConnectedStep ==
  ASSUME IInv, AlreadyConnected
  PROVE  IInv'
<1>1. /\ pc = "connect" /\ pc' = IF login = NoLogin THEN "idle" ELSE "open"
      /\ UNCHANGED <<running, active, grouped, destroying, late, leaked,
                     switches, stops, wire, closed, open, buffer, cachedVt,
                     login, auths, registry, stale, xServer, connected, told,
                     heard>>
  BY DEF AlreadyConnected, CallConnected, seatd, groups, socket, sessions, treeland
<1>2. Stream' = Stream /\ Live' = Live /\ SocketInv' /\ StreamInv'
  BY <1>1, SocketUnchanged DEF IInv
<1>3. TypeOK' /\ CallInv'
  BY <1>1 DEF IInv, TypeOK, CallInv
<1>4. CacheInv' /\ VtsApart' /\ RegistryExact' /\ HeardInv' /\ OwnerInv'
  BY <1>1, <1>2 DEF IInv, CacheInv, VtsApart, RegistryExact, HeardInv, OwnerInv, Settled, ShownOn
<1>5. GroupInv'
  BY <1>1 DEF IInv, GroupInv, GroupsFollowSessions, GroupLeaksKnown, SessionsStayGrouped
<1> QED BY <1>2, <1>3, <1>4, <1>5 DEF IInv

(* The new socket has nothing in it; the VT is asked for next.             *)
LEMMA EventSocketConnectsStep ==
  ASSUME IInv, EventSocketConnects
  PROVE  IInv'
<1>1. /\ pc = "connect" /\ ~open /\ running /\ open' = TRUE /\ pc' = "query"
      /\ UNCHANGED <<running, active, grouped, destroying, late, leaked,
                     switches, stops, wire, closed, buffer, cachedVt, login,
                     auths, registry, stale, xServer, connected, told, heard>>
  BY DEF EventSocketConnects, seatd, groups, sessions, treeland
<1>2. Stream' = Stream /\ Stream = <<>> /\ Len(Stream') = 0
  <2>1. wire = <<>> /\ buffer = <<>> /\ <<>> \o <<>> = <<>>
    BY <1>1 DEF IInv, SocketInv
  <2> QED BY <1>1, <2>1 DEF Stream
<1>3. heard = NoVt
  BY <1>1 DEF IInv, HeardInv
<1>4. SocketInv'
  BY <1>1 DEF IInv, SocketInv, Live
<1>5. StreamInv'
  BY <1>2 DEF IInv, StreamInv
<1>6. TypeOK' /\ CallInv'
  BY <1>1 DEF IInv, TypeOK, CallInv
<1>7. CacheInv' /\ VtsApart' /\ RegistryExact' /\ HeardInv' /\ OwnerInv'
  BY <1>1, <1>3 DEF IInv, CacheInv, VtsApart, RegistryExact, HeardInv, OwnerInv, Settled, ShownOn
<1>8. GroupInv'
  BY <1>1 DEF IInv, GroupInv, GroupsFollowSessions, GroupLeaksKnown, SessionsStayGrouped
<1> QED BY <1>4, <1>5, <1>6, <1>7, <1>8 DEF IInv

(* The daemon asks for the active VT after it connected: changes since are *)
(* in the stream.                                                          *)
LEMMA QueryActiveVtStep ==
  ASSUME IInv, QueryActiveVt
  PROVE  IInv'
<1>1. /\ pc = "query" /\ pc' = IF login = NoLogin THEN "idle" ELSE "open"
      /\ cachedVt' = active
      /\ UNCHANGED <<running, active, grouped, destroying, late, leaked,
                     switches, stops, wire, closed, open, buffer, login,
                     auths, registry, stale, xServer, connected, told, heard>>
  BY DEF QueryActiveVt, CallConnected, seatd, groups, socket, sessions, treeland
<1>2. Stream' = Stream /\ Live' = Live /\ SocketInv' /\ StreamInv'
  BY <1>1, SocketUnchanged DEF IInv
<1>3. heard = NoVt
  BY <1>1 DEF IInv, HeardInv
<1>4. TypeOK' /\ CallInv'
  BY <1>1 DEF IInv, TypeOK, CallInv
<1>5. CacheInv' /\ VtsApart' /\ RegistryExact' /\ HeardInv' /\ OwnerInv'
  BY <1>1, <1>2, <1>3 DEF IInv, CacheInv, VtsApart, RegistryExact, HeardInv, OwnerInv, Settled, ShownOn
<1>6. GroupInv'
  BY <1>1 DEF IInv, GroupInv, GroupsFollowSessions, GroupLeaksKnown, SessionsStayGrouped
<1> QED BY <1>2, <1>4, <1>5, <1>6 DEF IInv

(* A session gets the VT of a login, or a free one: the VTs stay apart and *)
(* the registry stays exact.                                               *)
LEMMA RegisteredFacts ==
  ASSUME TypeOK, VtsApart, RegistryExact, NEW u \in Users, NEW v \in Vts,
         NEW t \in BOOLEAN, Registered(u, v, t), auths[u] = NoAuth,
         v # GreeterVt, \A w \in Users : auths[w].vt # v, login' = NoLogin
  PROVE  /\ auths' = [auths EXCEPT ![u] = [vt |-> v, treeland |-> t]]
         /\ auths' \in [Users -> [vt : Vts, treeland : BOOLEAN] \cup {NoAuth}]
         /\ registry' \subseteq [user : Users, vt : Vts]
         /\ \A w \in Users : w # u => auths'[w] = auths[w]
         /\ auths'[u] = [vt |-> v, treeland |-> t] /\ auths'[u] # NoAuth
         /\ VtsApart' /\ RegistryExact'
<1>1. /\ auths' = [auths EXCEPT ![u] = [vt |-> v, treeland |-> t]]
      /\ registry' = registry \cup {[user |-> u, vt |-> v]}
  BY DEF Registered
<1>2. /\ auths \in [Users -> [vt : Vts, treeland : BOOLEAN] \cup {NoAuth}]
      /\ registry \subseteq [user : Users, vt : Vts]
  BY DEF TypeOK
<1>3. /\ auths' \in [Users -> [vt : Vts, treeland : BOOLEAN] \cup {NoAuth}]
      /\ registry' \subseteq [user : Users, vt : Vts]
      /\ \A w \in Users : w # u => auths'[w] = auths[w]
      /\ auths'[u] = [vt |-> v, treeland |-> t]
  BY <1>1, <1>2
<1>4. auths'[u].vt = v /\ auths'[u] # NoAuth
  <2>1. NoAuth.vt = NoVt /\ v # NoVt /\ auths'[u].vt = v
    BY <1>3 DEF NoAuth
  <2> QED BY <2>1
<1>5. VtsApart'
  <2>1. ASSUME NEW x \in Users, NEW w \in Users, auths'[x] # NoAuth,
               auths'[x].vt = auths'[w].vt
        PROVE  x = w
    BY <1>3, <1>4, <2>1 DEF VtsApart
  <2>2. ASSUME NEW w \in Users
        PROVE  auths'[w].vt # GreeterVt
    BY <1>3, <1>4 DEF VtsApart
  <2> QED BY <2>1, <2>2 DEF VtsApart
<1>6. RegistryExact'
  <2> SUFFICES ASSUME NEW w \in Users, NEW x \in Vts
               PROVE  [user |-> w, vt |-> x] \in registry' <=>
                        auths'[w] # NoAuth /\ auths'[w].vt = x
    BY DEF RegistryExact
  <2>1. [user |-> w, vt |-> x] = [user |-> u, vt |-> v] <=> w = u /\ x = v
    OBVIOUS
  <2>2. [user |-> w, vt |-> x] \in registry <=> auths[w] # NoAuth /\ auths[w].vt = x
    BY DEF RegistryExact
  <2>3. CASE w = u
    BY <1>1, <1>4, <2>1, <2>2, <2>3
  <2>4. CASE w # u
    BY <1>1, <1>3, <2>1, <2>2, <2>4
  <2> QED BY <2>3, <2>4
<1> QED BY <1>1, <1>3, <1>4, <1>5, <1>6

(* The session of a login opens on the VT that was grouped for it.         *)
LEMMA TreelandSessionOpensStep ==
  ASSUME IInv, TreelandSessionOpens
  PROVE  IInv'
<1>1. /\ TypeOK /\ SocketInv /\ StreamInv /\ CacheInv /\ CallInv /\ VtsApart
      /\ RegistryExact /\ GroupInv /\ HeardInv /\ OwnerInv
  BY DEF IInv
<1>2. /\ pc = "open" /\ Switched(login.vt)
      /\ Registered(login.user, login.vt, TRUE)
      /\ pc' = "idle" /\ login' = NoLogin
      /\ UNCHANGED <<running, grouped, destroying, late, leaked, stops,
                     closed, open, buffer, cachedVt, stale, xServer,
                     connected, told, heard>>
  BY DEF TreelandSessionOpens, groups, treeland
<1>3. /\ login # NoLogin /\ login.user \in Users /\ login.vt \in Vts
  BY <1>1, <1>2, LoginFacts DEF CallInv
<1>4. /\ active' = login.vt /\ active' \in Vts /\ switches' \in 0 .. MaxSwitches
      /\ wire' \in Seq(Unit) /\ Live' = Live /\ SocketInv' /\ StreamInv'
      /\ Live /\ Len(Stream') = 0 => active' = active /\ Len(Stream) = 0
  BY <1>1, <1>2, <1>3, SwitchedStep
<1>5. /\ auths' \in [Users -> [vt : Vts, treeland : BOOLEAN] \cup {NoAuth}]
      /\ registry' \subseteq [user : Users, vt : Vts]
      /\ \A w \in Users : w # login.user => auths'[w] = auths[w]
      /\ auths'[login.user] = [vt |-> login.vt, treeland |-> TRUE]
      /\ VtsApart' /\ RegistryExact'
  <2>1. PICK u, v : u = login.user /\ v = login.vt
    OBVIOUS
  <2>2. /\ u \in Users /\ v \in Vts /\ Registered(u, v, TRUE)
        /\ auths[u] = NoAuth /\ v # GreeterVt
        /\ \A w \in Users : auths[w].vt # v
    BY <1>1, <1>2, <1>3, <2>1 DEF VtsApart
  <2>3. /\ auths' \in [Users -> [vt : Vts, treeland : BOOLEAN] \cup {NoAuth}]
        /\ registry' \subseteq [user : Users, vt : Vts]
        /\ \A w \in Users : w # u => auths'[w] = auths[w]
        /\ auths'[u] = [vt |-> v, treeland |-> TRUE]
        /\ VtsApart' /\ RegistryExact'
    BY <1>1, <1>2, <2>2, RegisteredFacts
  <2> QED BY <2>1, <2>3
<1>6. TypeOK'
  BY <1>1, <1>2, <1>4, <1>5 DEF TypeOK
<1>7. CacheInv' /\ CallInv' /\ HeardInv'
  BY <1>1, <1>2, <1>4 DEF CacheInv, CallInv, HeardInv
<1>8. OwnerInv'
  <2>1. Settled' => Settled /\ active = login.vt
    BY <1>2, <1>4 DEF Settled
  <2> QED BY <1>1, <1>3, <2>1 DEF OwnerInv, ShownOn
<1>9. GroupLeaksKnown'
  <2> SUFFICES ASSUME NEW v \in grouped
               PROVE  \/ v \in destroying \/ v \in leaked
                      \/ \E u \in Users : auths'[u] = [vt |-> v, treeland |-> TRUE]
    BY <1>2 DEF GroupLeaksKnown
  <2>1. CASE v = login.vt
    BY <1>3, <1>5, <2>1
  <2>2. CASE v # login.vt /\ v \notin destroying /\ v \notin leaked
    <3>1. PICK u \in Users : auths[u] = [vt |-> v, treeland |-> TRUE]
      BY <1>1, <2>2 DEF GroupInv, GroupsFollowSessions, GroupLeaksKnown
    <3>2. u # login.user
      <4>1. auths[login.user] = NoAuth /\ NoAuth.treeland = FALSE
        BY <1>1, <1>3, LoginFacts DEF VtsApart
      <4>2. auths[u].treeland = TRUE
        BY <3>1
      <4> QED BY <4>1, <4>2
    <3> QED BY <1>5, <3>1, <3>2
  <2> QED BY <2>1, <2>2
<1>10. SessionsStayGrouped'
  <2> SUFFICES ASSUME stops = 0, NEW u \in Users, auths'[u].treeland
               PROVE  auths'[u].vt \in grouped \ destroying
    BY <1>2 DEF SessionsStayGrouped
  <2>1. CASE u = login.user
    BY <1>1, <1>3, <1>5, <2>1 DEF GroupInv
  <2>2. CASE u # login.user
    BY <1>1, <1>5, <2>2 DEF GroupInv, GroupsFollowSessions, SessionsStayGrouped
  <2> QED BY <2>1, <2>2
<1>11. GroupInv'
  BY <1>1, <1>2, <1>9, <1>10 DEF GroupInv, GroupsFollowSessions
<1> QED BY <1>4, <1>5, <1>6, <1>7, <1>8, <1>11 DEF IInv

(* The session of a login fails, and its group is destroyed.               *)
LEMMA TreelandSessionFailsStep ==
  ASSUME IInv, TreelandSessionFails
  PROVE  IInv'
<1>1. /\ TypeOK /\ SocketInv /\ StreamInv /\ CacheInv /\ CallInv /\ VtsApart
      /\ RegistryExact /\ GroupInv /\ HeardInv /\ OwnerInv
  BY DEF IInv
<1>2. /\ pc = "open" /\ Abandoned
      /\ UNCHANGED <<running, grouped, late, leaked, stops, closed, open,
                     buffer, cachedVt, auths, registry, stale, xServer,
                     connected, told, heard>>
  BY DEF TreelandSessionFails, sessions, treeland
<1>3. login.vt \in Vts
  BY <1>1, <1>2, LoginFacts DEF CallInv
<1>4. /\ active' \in Vts /\ switches' \in 0 .. MaxSwitches
      /\ wire' \in Seq(Unit) /\ Live' = Live /\ SocketInv' /\ StreamInv'
      /\ Live /\ Len(Stream') = 0 => active' = active /\ Len(Stream) = 0
  <2>1. CASE Switched(login.vt)
    BY <1>1, <1>2, <1>3, <2>1, SwitchedStep
  <2>2. CASE UNCHANGED <<active, switches, wire>>
    <3>1. Stream' = Stream /\ Live' = Live /\ SocketInv' /\ StreamInv'
      BY <1>1, <1>2, <2>2, SocketUnchanged
    <3> QED BY <1>1, <2>2, <3>1 DEF TypeOK
  <2> QED BY <2>1, <2>2 DEF TreelandSessionFails
<1>5. /\ pc' = "idle" /\ login' = NoLogin /\ destroying' \subseteq Vts
      /\ CallInv' /\ VtsApart' /\ RegistryExact' /\ GroupInv'
  BY <1>1, <1>2, AbandonedFacts
<1>6. TypeOK'
  BY <1>1, <1>2, <1>4, <1>5 DEF TypeOK
<1>7. CacheInv' /\ HeardInv'
  BY <1>1, <1>2, <1>4, <1>5 DEF CacheInv, HeardInv
<1>8. OwnerInv'
  <2>1. Settled' => Settled /\ active' = active
    BY <1>2, <1>4 DEF Settled
  <2> QED BY <1>1, <1>2, <1>5, <2>1 DEF OwnerInv, ShownOn
<1> QED BY <1>4, <1>5, <1>6, <1>7, <1>8 DEF IInv

(* A login gets a VT that nobody has, grouped with Treeland.               *)
LEMMA CreateGroupVtStep ==
  ASSUME IInv, NEW u \in Users, CreateGroupVt(u)
  PROVE  IInv'
<1>1. /\ TypeOK /\ SocketInv /\ StreamInv /\ CacheInv /\ CallInv /\ VtsApart
      /\ RegistryExact /\ GroupInv /\ HeardInv /\ OwnerInv
  BY DEF IInv
<1>2. PICK v \in SeatdFreeVts : /\ grouped' = grouped \cup {v}
                                /\ login' = [user |-> u, vt |-> v]
  BY DEF CreateGroupVt
<1>3. /\ pc = "idle" /\ running /\ auths[u] = NoAuth /\ pc' = "connect"
      /\ UNCHANGED <<running, active, destroying, late, leaked, switches,
                     stops, wire, closed, open, buffer, cachedVt, auths,
                     registry, stale, xServer, connected, told, heard>>
  BY DEF CreateGroupVt, socket, sessions, treeland
<1>4. /\ v \in Vts /\ v # GreeterVt /\ v # active /\ v \notin grouped
      /\ \A w \in Users : auths[w].vt # v
  BY <1>2 DEF SeatdFreeVts
<1>5. login = NoLogin /\ login.vt \notin Vts
  BY <1>1, <1>3, LoginFacts DEF CallInv
<1>6. login' \in [user : Users, vt : Vts] /\ login'.vt = v /\ login'.user = u
  BY <1>2, <1>4
<1>7. login' # NoLogin
  BY <1>4, <1>6 DEF NoLogin
<1>8. Stream' = Stream /\ Live' = Live /\ SocketInv' /\ StreamInv'
  BY <1>1, <1>3, SocketUnchanged
<1>9. TypeOK'
  BY <1>1, <1>2, <1>3, <1>4, <1>6 DEF TypeOK
<1>10. CacheInv' /\ CallInv' /\ RegistryExact' /\ HeardInv'
  BY <1>1, <1>3, <1>8 DEF CacheInv, CallInv, RegistryExact, HeardInv
<1>11. VtsApart'
  BY <1>1, <1>3, <1>4, <1>6 DEF VtsApart
<1>12. OwnerInv'
  BY <1>1, <1>3, <1>4, <1>6, <1>8 DEF OwnerInv, Settled, ShownOn
<1>13. GroupLeaksKnown'
  BY <1>1, <1>2, <1>3, <1>5, <1>6
     DEF GroupInv, GroupsFollowSessions, GroupLeaksKnown, TypeOK
<1>14. SessionsStayGrouped'
  BY <1>1, <1>2, <1>3 DEF GroupInv, GroupsFollowSessions, SessionsStayGrouped
<1>15. stops = 0 => v \notin destroying /\ destroying \subseteq grouped'
  BY <1>1, <1>2, <1>4 DEF GroupInv
<1>16. GroupInv'
  BY <1>2, <1>3, <1>6, <1>13, <1>14, <1>15 DEF GroupInv, GroupsFollowSessions
<1> QED BY <1>8, <1>9, <1>10, <1>11, <1>12, <1>16 DEF IInv

(* A session on a VT of its own opens; no group is made or lost.           *)
LEMMA OwnVtSessionOpensStep ==
  ASSUME IInv, NEW u \in Users, OwnVtSessionOpens(u)
  PROVE  IInv'
<1>1. /\ TypeOK /\ SocketInv /\ StreamInv /\ CacheInv /\ CallInv /\ VtsApart
      /\ RegistryExact /\ GroupInv /\ HeardInv /\ OwnerInv
  BY DEF IInv
<1>2. PICK v \in UserVts : Switched(v) /\ Registered(u, v, FALSE)
  BY DEF OwnVtSessionOpens
<1>3. /\ pc = "idle" /\ auths[u] = NoAuth /\ connected' = FALSE /\ heard' = NoVt
      /\ told' = "nothing" /\ xServer' \in {xServer, TRUE}
      /\ UNCHANGED <<running, grouped, destroying, late, leaked, stops,
                     closed, open, buffer, cachedVt, pc, login, stale>>
  BY DEF OwnVtSessionOpens, Unconnected, groups, call
<1>4. v \in Vts /\ v # GreeterVt /\ \A w \in Users : auths[w].vt # v
  BY DEF UserVts
<1>5. /\ active' \in Vts /\ switches' \in 0 .. MaxSwitches
      /\ wire' \in Seq(Unit) /\ Live' = Live /\ SocketInv' /\ StreamInv'
      /\ Live /\ Len(Stream') = 0 => active' = active /\ Len(Stream) = 0
  BY <1>1, <1>2, <1>3, <1>4, SwitchedStep
<1>6. login = NoLogin /\ login' = NoLogin
  BY <1>1, <1>3 DEF CallInv
<1>7. /\ auths' \in [Users -> [vt : Vts, treeland : BOOLEAN] \cup {NoAuth}]
      /\ registry' \subseteq [user : Users, vt : Vts]
      /\ \A w \in Users : w # u => auths'[w] = auths[w]
      /\ auths'[u] = [vt |-> v, treeland |-> FALSE]
      /\ VtsApart' /\ RegistryExact'
  BY <1>1, <1>2, <1>3, <1>4, <1>6, RegisteredFacts
<1>8. TypeOK'
  BY <1>1, <1>3, <1>5, <1>7 DEF TypeOK
<1>9. CacheInv' /\ CallInv'
  BY <1>1, <1>3, <1>5 DEF CacheInv, CallInv
<1>10. HeardInv' /\ OwnerInv'
  BY <1>3 DEF HeardInv, OwnerInv, Settled, ShownOn
<1>11. GroupLeaksKnown'
  <2> SUFFICES ASSUME NEW x \in grouped
               PROVE  \/ x \in destroying \/ x = login.vt \/ x \in leaked
                      \/ \E w \in Users : auths'[w] = [vt |-> x, treeland |-> TRUE]
    BY <1>3 DEF GroupLeaksKnown
  <2>1. ASSUME NEW w \in Users, auths[w] = [vt |-> x, treeland |-> TRUE]
        PROVE  w # u
    <3>1. auths[u].treeland = FALSE
      BY <1>1, <1>3, LoginFacts
    <3>2. auths[w].treeland = TRUE
      BY <2>1
    <3> QED BY <3>1, <3>2
  <2> QED BY <1>1, <1>7, <2>1 DEF GroupInv, GroupsFollowSessions, GroupLeaksKnown
<1>12. SessionsStayGrouped'
  <2> SUFFICES ASSUME stops = 0, NEW w \in Users, auths'[w].treeland
               PROVE  auths'[w].vt \in grouped \ destroying
    BY <1>3 DEF SessionsStayGrouped
  <2>1. w # u
    BY <1>7
  <2> QED BY <1>1, <1>7, <2>1 DEF GroupInv, GroupsFollowSessions, SessionsStayGrouped
<1>13. GroupInv'
  BY <1>1, <1>3, <1>11, <1>12 DEF GroupInv, GroupsFollowSessions
<1> QED BY <1>5, <1>7, <1>8, <1>9, <1>10, <1>13 DEF IInv

(* A session ends, and only its own group goes.                            *)
LEMMA SessionFinishedStep ==
  ASSUME IInv, NEW u \in Users, SessionFinished(u)
  PROVE  IInv'
<1>1. /\ TypeOK /\ SocketInv /\ StreamInv /\ CacheInv /\ CallInv /\ VtsApart
      /\ RegistryExact /\ GroupInv /\ HeardInv /\ OwnerInv
  BY DEF IInv
<1>2. /\ pc = "idle" /\ auths[u] # NoAuth
      /\ auths' = [auths EXCEPT ![u] = NoAuth]
      /\ registry' = {s \in registry : s.user # u}
      /\ destroying' = IF auths[u].treeland /\ running
                         THEN destroying \cup {auths[u].vt} ELSE destroying
      /\ UNCHANGED <<running, active, grouped, late, leaked, switches, stops,
                     wire, closed, open, buffer, cachedVt, pc, login, stale,
                     xServer, connected, told, heard>>
  BY DEF SessionFinished, Unregistered, socket, call, treeland
<1>3. login = NoLogin /\ login.vt \notin Vts
  BY <1>1, <1>2, LoginFacts DEF CallInv
<1>4. /\ auths' \in [Users -> [vt : Vts, treeland : BOOLEAN] \cup {NoAuth}]
      /\ \A w \in Users : w # u => auths'[w] = auths[w]
      /\ auths'[u] = NoAuth
  BY <1>1, <1>2 DEF TypeOK
<1>5. /\ NoVt \notin Vts /\ NoAuth.vt = NoVt /\ NoAuth.treeland = FALSE
      /\ \A w \in Users : auths[w] # NoAuth => auths[w].vt \in Vts
      /\ auths[u].treeland \in BOOLEAN /\ auths[u].vt \in Vts
  BY <1>1, <1>2, LoginFacts
<1>6. Stream' = Stream /\ Live' = Live /\ SocketInv' /\ StreamInv'
  BY <1>1, <1>2, SocketUnchanged
<1>7. destroying' \subseteq Vts
  BY <1>1, <1>2, <1>5 DEF TypeOK
<1>8. registry' \subseteq [user : Users, vt : Vts]
  BY <1>1, <1>2 DEF TypeOK
<1>9. TypeOK'
  BY <1>1, <1>2, <1>4, <1>7, <1>8 DEF TypeOK
<1>10. CacheInv' /\ CallInv' /\ HeardInv'
  BY <1>1, <1>2, <1>6 DEF CacheInv, CallInv, HeardInv
<1>11. VtsApart'
  <2>1. ASSUME NEW x \in Users, NEW w \in Users, auths'[x] # NoAuth,
               auths'[x].vt = auths'[w].vt
        PROVE  x = w
    BY <1>1, <1>4, <1>5, <2>1 DEF VtsApart
  <2>2. ASSUME NEW w \in Users
        PROVE  auths'[w].vt # GreeterVt
    BY <1>1, <1>4, <1>5 DEF VtsApart
  <2> QED BY <1>2, <1>3, <2>1, <2>2 DEF VtsApart
<1>12. RegistryExact'
  <2> SUFFICES ASSUME NEW w \in Users, NEW x \in Vts
               PROVE  [user |-> w, vt |-> x] \in registry' <=>
                        auths'[w] # NoAuth /\ auths'[w].vt = x
    BY DEF RegistryExact
  <2>1. [user |-> w, vt |-> x] \in registry' <=>
          [user |-> w, vt |-> x] \in registry /\ w # u
    BY <1>2
  <2>2. [user |-> w, vt |-> x] \in registry <=> auths[w] # NoAuth /\ auths[w].vt = x
    BY <1>1 DEF RegistryExact
  <2> QED BY <1>4, <2>1, <2>2
<1>13. OwnerInv'
  <2> SUFFICES ASSUME Settled'
               PROVE  /\ active = GreeterVt => told = "dde"
                      /\ \A w \in Users :
                           auths'[w] = [vt |-> active, treeland |-> TRUE] =>
                             told = ShownOn(active, w)
    BY <1>2, <1>3 DEF OwnerInv, ShownOn
  <2>1. Settled
    BY <1>2, <1>6 DEF Settled
  <2>2. auths'[u] # [vt |-> active, treeland |-> TRUE]
    BY <1>4, <1>5
  <2> QED BY <1>1, <1>4, <2>1, <2>2 DEF OwnerInv, ShownOn
<1>14. GroupLeaksKnown'
  <2> SUFFICES ASSUME NEW v \in grouped
               PROVE  \/ v \in destroying' \/ v \in leaked
                      \/ \E w \in Users : auths'[w] = [vt |-> v, treeland |-> TRUE]
    BY <1>2 DEF GroupLeaksKnown
  <2>1. running /\ v # login.vt
    BY <1>1, <1>3 DEF GroupInv, TypeOK
  <2>2. ASSUME auths[u] = [vt |-> v, treeland |-> TRUE]
        PROVE  v \in destroying'
    <3>1. auths[u].treeland = TRUE /\ auths[u].vt = v
      BY <2>2
    <3> QED BY <1>2, <2>1, <3>1
  <2>3. v \in destroying => v \in destroying'
    BY <1>2
  <2> QED BY <1>1, <1>4, <2>1, <2>2, <2>3
          DEF GroupInv, GroupsFollowSessions, GroupLeaksKnown
<1>15. SessionsStayGrouped'
  <2> SUFFICES ASSUME stops = 0, NEW w \in Users, auths'[w].treeland
               PROVE  auths'[w].vt \in grouped \ destroying'
    BY <1>2 DEF SessionsStayGrouped
  <2>1. w # u /\ auths'[w] = auths[w]
    BY <1>4, <1>5
  <2>2. auths[w].vt \in grouped \ destroying
    BY <1>1, <2>1 DEF GroupInv, GroupsFollowSessions, SessionsStayGrouped
  <2>3. auths[w].vt # auths[u].vt
    BY <1>1, <1>2, <2>1 DEF VtsApart
  <2> QED BY <1>2, <2>1, <2>2, <2>3
<1>16. ~running => grouped = {} /\ destroying' = {}
  BY <1>1, <1>2 DEF GroupInv
<1>17. stops = 0 => destroying' \subseteq grouped
  BY <1>1, <1>2 DEF GroupInv, GroupsFollowSessions, SessionsStayGrouped
<1>18. GroupInv'
  BY <1>2, <1>3, <1>14, <1>15, <1>16, <1>17 DEF GroupInv, GroupsFollowSessions
<1> QED BY <1>6, <1>9, <1>10, <1>11, <1>12, <1>13, <1>18 DEF IInv

(* dde-seatd groups a VT for nobody: one more that is known to leak, and   *)
(* that no session and no destroy request is for.                          *)
LEMMA GroupCreatedLateStep ==
  ASSUME IInv, GroupCreatedLate
  PROVE  IInv'
<1>1. PICK v \in SeatdFreeVts : /\ grouped' = grouped \cup {v}
                                /\ leaked' = leaked \cup {v}
  BY DEF GroupCreatedLate
<1>2. /\ running /\ late > 0 /\ late' = late - 1
      /\ UNCHANGED <<running, active, destroying, switches, stops, wire, closed,
                     open, buffer, cachedVt, pc, login, auths, registry, stale,
                     xServer, connected, told, heard>>
  BY DEF GroupCreatedLate, socket, call, sessions, treeland
<1>3. v \in Vts
  BY <1>1 DEF SeatdFreeVts
<1>4. Stream' = Stream /\ Live' = Live /\ SocketInv' /\ StreamInv'
  BY <1>2, SocketUnchanged DEF IInv
<1>5. TypeOK'
  <2>1. late' \in 0 .. MaxLate
    BY <1>2 DEF IInv, TypeOK
  <2> QED BY <1>1, <1>2, <1>3, <2>1 DEF IInv, TypeOK
<1>6. CacheInv' /\ CallInv' /\ VtsApart' /\ RegistryExact' /\ HeardInv'
  BY <1>2, <1>4 DEF IInv, CacheInv, CallInv, VtsApart, RegistryExact, HeardInv
<1>7. OwnerInv'
  BY <1>2, <1>4 DEF IInv, OwnerInv, Settled, ShownOn
<1>8. GroupInv'
  <2>1. GroupLeaksKnown'
    BY <1>1, <1>2 DEF IInv, GroupInv, GroupsFollowSessions, GroupLeaksKnown
  <2>2. SessionsStayGrouped'
    BY <1>1, <1>2 DEF IInv, GroupInv, GroupsFollowSessions, SessionsStayGrouped
  <2> QED BY <1>1, <1>2, <2>1, <2>2 DEF IInv, GroupInv, GroupsFollowSessions
<1> QED BY <1>4, <1>5, <1>6, <1>7, <1>8 DEF IInv

(* A login that got no answer leaves nothing behind but the request.       *)
LEMMA CreateGroupVtUnansweredStep ==
  ASSUME IInv, CreateGroupVtUnanswered
  PROVE  IInv'
<1>1. /\ late < MaxLate /\ late' = late + 1
      /\ UNCHANGED <<running, active, grouped, destroying, leaked, switches,
                     stops, wire, closed, open, buffer, cachedVt, pc, login,
                     auths, registry, stale, xServer, connected, told, heard>>
  BY DEF CreateGroupVtUnanswered, socket, call, sessions, treeland
<1>2. Stream' = Stream /\ Live' = Live /\ SocketInv' /\ StreamInv'
  BY <1>1, SocketUnchanged DEF IInv
<1>3. TypeOK'
  <2>1. late' \in 0 .. MaxLate
    BY <1>1 DEF IInv, TypeOK
  <2> QED BY <1>1, <2>1 DEF IInv, TypeOK
<1>4. CacheInv' /\ CallInv' /\ VtsApart' /\ RegistryExact' /\ HeardInv'
  BY <1>1, <1>2 DEF IInv, CacheInv, CallInv, VtsApart, RegistryExact, HeardInv
<1>5. OwnerInv'
  BY <1>1, <1>2 DEF IInv, OwnerInv, Settled, ShownOn
<1>6. GroupInv'
  BY <1>1 DEF IInv, GroupInv, GroupsFollowSessions, GroupLeaksKnown,
     SessionsStayGrouped
<1> QED BY <1>2, <1>3, <1>4, <1>5, <1>6 DEF IInv

(* The VT may be switched to some VT, or may not: what the event socket    *)
(* and the daemon's picture of it are then.                                *)
LEMMA MaybeSwitchedStep ==
  ASSUME TypeOK, SocketInv, StreamInv,
         (\E v \in Vts : Switched(v)) \/ UNCHANGED <<active, switches, wire>>,
         UNCHANGED <<running, closed, open, buffer>>
  PROVE  /\ active' \in Vts /\ switches' \in 0 .. MaxSwitches
         /\ wire' \in Seq(Unit) /\ Live' = Live /\ SocketInv' /\ StreamInv'
         /\ Live /\ Len(Stream') = 0 => active' = active /\ Len(Stream) = 0
<1>1. CASE \E v \in Vts : Switched(v)
  BY <1>1, SwitchedStep
<1>2. CASE UNCHANGED <<active, switches, wire>>
  <2>1. Stream' = Stream /\ Live' = Live /\ SocketInv' /\ StreamInv'
    BY <1>2, SocketUnchanged
  <2> QED BY <1>2, <2>1 DEF TypeOK
<1> QED BY <1>1, <1>2

(* The start of a session on a VT of its own fails: Treeland is gone all   *)
(* the same, and the VT may have changed.                                  *)
LEMMA OwnVtSessionFailsStep ==
  ASSUME IInv, OwnVtSessionFails
  PROVE  IInv'
<1>1. /\ TypeOK /\ SocketInv /\ StreamInv /\ CacheInv /\ CallInv /\ VtsApart
      /\ RegistryExact /\ GroupInv
  BY DEF IInv
<1>2. /\ connected' = FALSE /\ told' = "nothing" /\ heard' = NoVt
      /\ xServer' \in {xServer, TRUE}
      /\ UNCHANGED <<running, grouped, destroying, late, leaked, stops, closed,
                     open, buffer, cachedVt, pc, login, auths, registry, stale>>
  BY DEF OwnVtSessionFails, Unconnected, groups, call
<1>3. /\ active' \in Vts /\ switches' \in 0 .. MaxSwitches
      /\ wire' \in Seq(Unit) /\ Live' = Live /\ SocketInv' /\ StreamInv'
      /\ Live /\ Len(Stream') = 0 => active' = active /\ Len(Stream) = 0
  <2>1. (\E v \in Vts : Switched(v)) \/ UNCHANGED <<active, switches, wire>>
    BY DEF OwnVtSessionFails, UserVts
  <2> QED BY <1>1, <1>2, <2>1, MaybeSwitchedStep
<1>4. TypeOK'
  BY <1>1, <1>2, <1>3 DEF TypeOK
<1>5. CacheInv' /\ CallInv' /\ VtsApart' /\ RegistryExact'
  BY <1>1, <1>2, <1>3 DEF CacheInv, CallInv, VtsApart, RegistryExact
<1>6. HeardInv' /\ OwnerInv'
  BY <1>2 DEF HeardInv, OwnerInv, Settled
<1>7. GroupInv'
  BY <1>1, <1>2 DEF GroupInv, GroupsFollowSessions, GroupLeaksKnown,
     SessionsStayGrouped
<1> QED BY <1>3, <1>4, <1>5, <1>6, <1>7 DEF IInv

(* The display goes and leaves the groups of its Treeland sessions, which  *)
(* are known to leak; of the sessions nothing else is left.                *)
LEMMA DisplayReplacedStep ==
  ASSUME IInv, DisplayReplaced
  PROVE  IInv'
<1>1. /\ TypeOK /\ SocketInv /\ StreamInv /\ CacheInv /\ CallInv /\ VtsApart
      /\ RegistryExact /\ GroupInv /\ HeardInv /\ OwnerInv
  BY DEF IInv
<1>2. /\ pc = "idle" /\ xServer' = FALSE /\ registry' = {} /\ stale' = StaleEntries
      /\ auths' = [u \in Users |-> NoAuth]
      /\ leaked' = leaked \cup {v \in grouped :
                       \E u \in Users : auths[u] = [vt |-> v, treeland |-> TRUE]}
      /\ UNCHANGED <<running, grouped, destroying, late, stops, closed, open,
                     buffer, cachedVt, pc, login, connected, told, heard>>
  BY DEF DisplayReplaced, call, treeland
<1>3. /\ active' \in Vts /\ switches' \in 0 .. MaxSwitches
      /\ wire' \in Seq(Unit) /\ Live' = Live /\ SocketInv' /\ StreamInv'
      /\ Live /\ Len(Stream') = 0 => active' = active /\ Len(Stream) = 0
  <2>1. (\E v \in Vts : Switched(v)) \/ UNCHANGED <<active, switches, wire>>
    BY DEF DisplayReplaced
  <2> QED BY <1>1, <1>2, <2>1, MaybeSwitchedStep
<1>4. stale' \in [Vts -> Users \cup {"dde"}]
  <2> SUFFICES ASSUME NEW v \in Vts
               PROVE  (IF stale[v] # "dde" \/ \A u \in Users : auths[u].vt # v
                         THEN stale[v] ELSE CHOOSE u \in Users : auths[u].vt = v)
                        \in Users \cup {"dde"}
    BY <1>2 DEF StaleEntries
  <2>1. stale[v] \in Users \cup {"dde"}
    BY <1>1 DEF TypeOK
  <2>2. (\E u \in Users : auths[u].vt = v) =>
          (CHOOSE u \in Users : auths[u].vt = v) \in Users
    OBVIOUS
  <2> QED BY <2>1, <2>2
<1>5. TypeOK'
  <2>1. auths' \in [Users -> [vt : Vts, treeland : BOOLEAN] \cup {NoAuth}]
    BY <1>2
  <2>2. leaked' \subseteq Vts /\ xServer' \in BOOLEAN
    BY <1>1, <1>2 DEF TypeOK
  <2>3. registry' \subseteq [user : Users, vt : Vts]
    BY <1>2
  <2> QED BY <1>1, <1>2, <1>3, <1>4, <2>1, <2>2, <2>3 DEF TypeOK
<1>6. \A u \in Users :
        auths'[u] = NoAuth /\ auths'[u].vt = NoVt /\ auths'[u].treeland = FALSE
  BY <1>2 DEF NoAuth
<1>7. login = NoLogin /\ login' = NoLogin
  BY <1>1, <1>2 DEF CallInv
<1>8. CacheInv' /\ CallInv' /\ HeardInv'
  BY <1>1, <1>2, <1>3 DEF CacheInv, CallInv, HeardInv
<1>9. VtsApart' /\ RegistryExact'
  BY <1>2, <1>6, <1>7 DEF VtsApart, RegistryExact
<1>10. OwnerInv'
  <2>1. Settled' => Settled /\ active' = active
    BY <1>2, <1>3 DEF Settled
  <2>2. \A u \in Users : auths'[u] # [vt |-> active', treeland |-> TRUE]
    BY <1>6
  <2> QED BY <1>1, <1>2, <1>7, <2>1, <2>2 DEF OwnerInv
<1>11. GroupLeaksKnown'
  BY <1>1, <1>2 DEF GroupInv, GroupsFollowSessions, GroupLeaksKnown
<1>12. SessionsStayGrouped'
  BY <1>6 DEF SessionsStayGrouped
<1>13. GroupInv'
  BY <1>1, <1>2, <1>7, <1>11, <1>12 DEF GroupInv, GroupsFollowSessions
<1> QED BY <1>3, <1>5, <1>8, <1>9, <1>10, <1>13 DEF IInv

(* Treeland comes or goes: what the last one heard does not count.         *)
LEMMA TreelandStep ==
  ASSUME IInv, TreelandConnects \/ TreelandLost
  PROVE  IInv'
<1>1. /\ heard' = NoVt /\ connected' \in BOOLEAN /\ told' \in {told, "nothing"}
      /\ UNCHANGED <<running, active, grouped, destroying, late, leaked,
                     switches, stops, wire, closed, open, buffer, cachedVt,
                     pc, login, auths, registry, stale, xServer>>
  BY DEF TreelandConnects, TreelandLost, Unconnected, seatd, groups, socket, call, sessions
<1>2. Stream' = Stream /\ Live' = Live /\ SocketInv' /\ StreamInv'
  BY <1>1, SocketUnchanged DEF IInv
<1>3. TypeOK'
  BY <1>1 DEF IInv, TypeOK
<1>4. CacheInv' /\ CallInv' /\ VtsApart' /\ RegistryExact'
  BY <1>1, <1>2 DEF IInv, CacheInv, CallInv, VtsApart, RegistryExact
<1>5. HeardInv' /\ OwnerInv'
  BY <1>1 DEF HeardInv, OwnerInv, Settled, ShownOn
<1>6. GroupInv'
  BY <1>1 DEF IInv, GroupInv, GroupsFollowSessions, GroupLeaksKnown, SessionsStayGrouped
<1> QED BY <1>2, <1>3, <1>4, <1>5, <1>6 DEF IInv

-----------------------------------------------------------------------------
(* The invariant holds at first.                                           *)
LEMMA InitInv == Init => IInv
<1> SUFFICES ASSUME Init PROVE IInv
  OBVIOUS
<1>1. <<>> \in Seq(Unit) /\ Len(<<>>) = 0 /\ <<>> \o <<>> = <<>>
  OBVIOUS
<1>2. /\ running \in BOOLEAN /\ active \in Vts
      /\ grouped = {} /\ destroying = {} /\ late = 0 /\ leaked = {}
      /\ switches = 0 /\ stops = 0
      /\ wire = <<>> /\ closed = FALSE /\ open = FALSE /\ buffer = <<>>
      /\ cachedVt = NoVt /\ pc = "connect" /\ login = NoLogin
      /\ auths = [u \in Users |-> NoAuth] /\ registry = {}
      /\ stale = [v \in Vts |-> "dde"] /\ xServer = FALSE
      /\ connected = FALSE /\ told = "nothing" /\ heard = NoVt
  BY DEF Init
<1>3. Stream = <<>> /\ ~Live
  BY <1>1, <1>2 DEF Stream, Live
<1>4. TypeOK
  <2>1. auths \in [Users -> [vt : Vts, treeland : BOOLEAN] \cup {NoAuth}]
    BY <1>2
  <2>2. switches \in 0 .. MaxSwitches /\ stops \in 0 .. MaxStops /\ late \in 0 .. MaxLate
    BY <1>2
  <2>3. wire \in Seq(Unit) /\ buffer \in Seq(Unit)
    BY <1>1, <1>2
  <2>4. login \in [user : Users, vt : Vts] \cup {NoLogin}
    BY <1>2
  <2> QED BY <1>2, <2>1, <2>2, <2>3, <2>4 DEF TypeOK
<1>5. SocketInv /\ StreamInv /\ CacheInv /\ CallInv
  BY <1>1, <1>2, <1>3 DEF SocketInv, StreamInv, CacheInv, CallInv
<1>6. \A u \in Users : auths[u] = NoAuth /\ auths[u].vt = NoVt /\ auths[u].treeland = FALSE
  BY <1>2 DEF NoAuth
<1>7. VtsApart /\ RegistryExact /\ HeardInv /\ OwnerInv
  BY <1>2, <1>6 DEF VtsApart, RegistryExact, HeardInv, OwnerInv, Settled, ShownOn
<1>8. GroupInv
  BY <1>2, <1>6 DEF GroupInv, GroupsFollowSessions, GroupLeaksKnown, SessionsStayGrouped
<1> QED BY <1>4, <1>5, <1>7, <1>8 DEF IInv

(* Every step keeps the invariant.                                         *)
LEMMA NextInv == IInv /\ [Next]_vars => IInv'
<1> SUFFICES ASSUME IInv, [Next]_vars PROVE IInv'
  OBVIOUS
<1>1. ASSUME NEW v \in Vts, SwitchVt(v) \/ GroupDestroyed(v) PROVE IInv'
  BY <1>1, SwitchVtStep, GroupDestroyedStep
<1>2. ASSUME NEW u \in Users,
             CreateGroupVt(u) \/ OwnVtSessionOpens(u) \/ SessionFinished(u)
      PROVE  IInv'
  BY <1>2, CreateGroupVtStep, OwnVtSessionOpensStep, SessionFinishedStep
<1>3. CASE SeatdStops \/ SeatdStarts \/ GroupCreatedLate
  BY <1>3, SeatdStopsStep, SeatdStartsStep, GroupCreatedLateStep
<1>4. CASE HandleEventSocket \/ EventSocketCloses
  BY <1>4, HandleEventSocketStep, EventSocketClosesStep
<1>5. CASE AlreadyConnected \/ EventSocketConnects \/ QueryActiveVt
  BY <1>5, AlreadyConnectedStep, EventSocketConnectsStep, QueryActiveVtStep
<1>6. CASE ConnectFails \/ QueryFails
  BY <1>6, GivenUpStep
<1>7. CASE TreelandSessionOpens \/ TreelandSessionFails
  BY <1>7, TreelandSessionOpensStep, TreelandSessionFailsStep
<1>8. CASE TreelandConnects \/ TreelandLost
  BY <1>8, TreelandStep
<1>9. CASE CreateGroupVtUnanswered \/ OwnVtSessionFails \/ DisplayReplaced
  BY <1>9, CreateGroupVtUnansweredStep, OwnVtSessionFailsStep, DisplayReplacedStep
<1>10. CASE UNCHANGED vars
  <2>1. UNCHANGED <<running, active, grouped, destroying, late, leaked,
                    switches, stops, wire, closed, open, buffer, cachedVt, pc,
                    login, auths, registry, stale, xServer, connected, told,
                    heard>>
    BY <1>10 DEF vars, seatd, groups, socket, call, sessions, treeland
  <2>2. Stream' = Stream /\ Live' = Live /\ SocketInv' /\ StreamInv'
    BY <2>1, SocketUnchanged DEF IInv
  <2>3. TypeOK'
    BY <2>1 DEF IInv, TypeOK
  <2>4. CacheInv' /\ CallInv' /\ VtsApart' /\ RegistryExact' /\ HeardInv' /\ OwnerInv'
    BY <2>1, <2>2 DEF IInv, CacheInv, CallInv, VtsApart, RegistryExact, HeardInv,
       OwnerInv, Settled, ShownOn
  <2>5. GroupInv'
    BY <2>1 DEF IInv, GroupInv, GroupsFollowSessions, GroupLeaksKnown, SessionsStayGrouped
  <2> QED BY <2>2, <2>3, <2>4, <2>5 DEF IInv
<1> QED BY <1>1, <1>2, <1>3, <1>4, <1>5, <1>6, <1>7, <1>8, <1>9, <1>10
        DEF Next

-----------------------------------------------------------------------------
(* The inductive invariant holds in every reachable state.                 *)
THEOREM Invariance == Spec => []IInv
BY InitInv, NextInv, PTL DEF Spec

(* Every variable keeps its type: whatever pieces of events it reads, the  *)
(* daemon takes no VT number from anything but a payload                   *)
(* (DdeSeatdControl::handleEventSocket).                                   *)
THEOREM TypeCorrect == Spec => []TypeOK
<1>1. IInv => TypeOK
  BY DEF IInv
<1> QED BY <1>1, Invariance, PTL

(* The daemon makes of the event socket what dde-seatd wrote to it, and    *)
(* m_activeVt is right whenever there is nothing left to read.             *)
THEOREM ActiveVtAlwaysFollowed == Spec => []ActiveVtFollowed
<1>1. IInv => ActiveVtFollowed
  <2> SUFFICES ASSUME IInv PROVE ActiveVtFollowed
    OBVIOUS
  <2>1. wire \in Seq(Unit) /\ buffer \in Seq(Unit)
    BY DEF IInv, TypeOK
  <2>2. Stream \in Seq(Unit)
    BY <2>1, StreamFacts
  <2>3. StreamInStep
    <3>1. \A i \in DOMAIN Stream : (Stream[i] = Header) <=> (i % 2 = 1)
      BY <2>2 DEF IInv, StreamInv
    <3> QED BY <3>1 DEF StreamInStep, Stream
  <2>4. CachedVtExact
    <3> SUFFICES ASSUME pc = "idle", open, ~closed, wire = <<>>
                 PROVE  cachedVt = active
      BY DEF CachedVtExact
    <3>1. Live
      BY DEF Live
    <3>2. Len(Stream) = 0
      <4>1. Len(Stream) = Len(buffer) + 0 /\ Len(buffer) \in Nat
        BY <2>1, StreamFacts
      <4>2. Len(Stream) % 2 = 0 /\ Len(buffer) <= 1
        BY <3>1 DEF IInv, StreamInv, SocketInv
      <4> QED BY <4>1, <4>2
    <3> QED BY <3>1, <3>2 DEF IInv, CacheInv
  <2> QED BY <2>3, <2>4 DEF ActiveVtFollowed
<1> QED BY <1>1, Invariance, PTL

(* A Treeland that heard of the last VT change shows what belongs on the   *)
(* active VT, or the user whose entry a replaced display left for it       *)
(* (SeatManager::handleVtChanged, findUserByVt).                           *)
THEOREM TreelandAlwaysShowsOwner == Spec => []TreelandShowsOwner
<1>1. IInv => TreelandShowsOwner
  <2> SUFFICES ASSUME IInv, pc = "idle", open, ~closed, wire = <<>>, connected,
                      heard # NoVt
               PROVE  /\ heard = active
                      /\ active = GreeterVt => told = "dde"
                      /\ \A u \in Users :
                           auths[u] = [vt |-> active, treeland |-> TRUE] =>
                             told = ShownOn(active, u)
    BY DEF TreelandShowsOwner, ShownOn
  <2>1. Live
    BY DEF Live
  <2>2. Len(Stream) = 0
    <3>1. wire \in Seq(Unit) /\ buffer \in Seq(Unit)
      BY DEF IInv, TypeOK
    <3>2. Len(Stream) = Len(buffer) + 0 /\ Len(buffer) \in Nat
      BY <3>1, StreamFacts
    <3>3. Len(Stream) % 2 = 0 /\ Len(buffer) <= 1
      BY <2>1 DEF IInv, StreamInv, SocketInv
    <3> QED BY <3>2, <3>3
  <2>3. heard = active
    BY <2>1, <2>2 DEF IInv, CacheInv, HeardInv
  <2> QED BY <2>1, <2>2, <2>3 DEF IInv, OwnerInv, Settled
<1> QED BY <1>1, Invariance, PTL

(* A VT that is grouped with Treeland is of a session, of a login or of a  *)
(* destroy request, or was left behind by an answer that came too late or  *)
(* by a display that was replaced, the only two ways to leak one; and the  *)
(* VT of a Treeland session stays grouped while dde-seatd runs on          *)
(* (createGroupVt, destroyGroupVt and the error paths of                   *)
(* Display::startUserSession).                                             *)
THEOREM GroupsAlwaysFollowSessions == Spec => []GroupsFollowSessions
<1>1. IInv => GroupsFollowSessions
  BY DEF IInv, GroupInv
<1> QED BY <1>1, Invariance, PTL
=============================================================================
