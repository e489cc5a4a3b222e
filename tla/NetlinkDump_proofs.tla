-------------------------- MODULE NetlinkDump_proofs --------------------------
(***************************************************************************)
(* Proofs about NetlinkDump: its type invariant, that the caller's walk    *)
(* over an answer ends inside the array (Terminated) and meets only        *)
(* records of its own request in the kernel's order (OwnRecords), and that *)
(* every step is a step of Dump or changes nothing of it.                  *)
(***************************************************************************)
EXTENDS NetlinkDump, Integers, FiniteSetTheorems, TLAPS

\* The messages the kernel sends, and the dumps it runs.
Messages == [seq : Nat, type : {"data", "done", "noop", "error"}, rec : Nat,
             form : {"good", "cut", "short"}, intr : BOOLEAN]
Dumps    == [seq : Nat, next : Nat, last : Nat, intr : BOOLEAN]
Slots    == [rec : Nat, seq : Nat, at : Nat]

\* A datagram is about one request.  It has consecutive records of which only
\* the first may be damaged, and whatever else it has comes last.
Datagram(d) ==
  /\ d \in Seq(Messages) /\ Len(d) > 0
  /\ \A i \in 1 .. Len(d) :
       /\ d[i].seq = d[1].seq /\ d[i].intr = d[1].intr
       /\ d[i].type # "data" => i = Len(d)
       /\ d[i].type = "data" => d[i].rec = d[1].rec + i - 1
       /\ i > 1 => d[i].form = "good" /\ d[i].type \in {"data", "done"}

Own(d) == d[1].seq = sequence_number

\* The number of its records, the first one, and the first one after them, in a
\* dump of n records.  A datagram without records stands where its dump stands.
Size(d) == IF d[Len(d)].type = "data" THEN Len(d) ELSE Len(d) - 1
From(d, n) == IF d[1].type = "data" THEN d[1].rec
              ELSE IF d[1].type = "noop" THEN 1 ELSE n + 1
Upto(d, n) == From(d, n) + Size(d)

Stored == 1 .. currentMsg

\* What the socket and the array can hold.
ShapeInv ==
  /\ queue \in Seq(Seq(Messages))
  /\ \A k \in 1 .. Len(queue) : Datagram(queue[k]) /\ queue[k][1].seq =< sequence_number
  /\ running # None =>
       /\ running \in Dumps /\ running.seq =< sequence_number
       /\ running.next \in 1 .. running.last + 1 /\ running.last =< MaxRecs
  /\ recs \in Seq(Slots) /\ (answer # None => answer \in Seq(Slots))

\* The records of the dump asked for arrive in order and after those stored.
FlowInv ==
  pc = "recv" /\ want # None =>
    /\ running # None =>
         /\ running.seq = sequence_number /\ running.last = want
         /\ totalmsg < running.next
         /\ \A p \in Stored : recs[p].rec < running.next
    /\ \A k \in 1 .. Len(queue) : Own(queue[k]) =>
         /\ queue[k][1].type # "error"
         /\ From(queue[k], want) > 0 /\ Upto(queue[k], want) =< want + 1
         /\ running # None => Upto(queue[k], want) =< running.next
         /\ totalmsg < From(queue[k], want)
         /\ \A p \in Stored : recs[p].rec < From(queue[k], want)
         /\ \A l \in k + 1 .. Len(queue) :
              Own(queue[l]) /\ Upto(queue[k], want) =< From(queue[l], want)

\* The array has records of this dump in order, then the null record.
StoreInv ==
  pc = "recv" \/ answer # None =>
    /\ currentMsg =< Len(recs)
    /\ \A p \in Stored :
         /\ want # None /\ recs[p].rec \in p .. want
         /\ recs[p].seq = sequence_number
         /\ "moved" \notin trouble => recs[p].at = moves
         /\ \A q \in Stored : p < q => recs[p].rec < recs[q].rec
    /\ info => want # None /\ currentMsg < Len(recs) /\ recs[currentMsg + 1] = Null

AnswerInv == answer # None => pc = "idle" /\ answer = recs /\ info

\* A refused request finds nothing on the socket that is its own but the error.
RefusedInv ==
  pc = "recv" /\ want = None =>
    /\ "lost" \in trouble /\ totalmsg = 0 /\ ~info
    /\ running # None => running.seq # sequence_number
    /\ \A k \in 1 .. Len(queue) : Own(queue[k]) => queue[k][1].type = "error"

\* When nothing was lost the records follow on each other without a gap, from
\* the array through the queue to the running dump.
WholeInv ==
  pc = "recv" /\ "lost" \notin trouble =>
    /\ totalmsg = currentMsg /\ info = (totalmsg > 0)
    /\ \A p \in Stored : recs[p].rec = p
    /\ \A k \in 1 .. Len(queue) :
         /\ Own(queue[k]) /\ ~queue[k][1].intr /\ queue[k][1].form = "good"
         /\ Len(queue[k]) > 1 => Size(queue[k]) = Len(queue[k])
         /\ From(queue[k], want) = IF k = 1 THEN currentMsg + 1 ELSE Upto(queue[k - 1], want)
    /\ IF running = None
       THEN Len(queue) > 0 /\ queue[Len(queue)][1].type = "done"
       ELSE /\ ~running.intr
            /\ running.next = IF queue = << >> THEN currentMsg + 1
                              ELSE Upto(queue[Len(queue)], want)

IInv == /\ TypeOK /\ ShapeInv /\ FlowInv /\ StoreInv /\ AnswerInv /\ RefusedInv
        /\ WholeInv

-----------------------------------------------------------------------------
(***************************************************************************)
(* Places and their numbers.                                               *)
(***************************************************************************)

\* The n-th number of an interval.
LEMMA NthOfInterval ==
  ASSUME NEW a \in Int, NEW b \in Int, NEW n \in Nat, n > 0, a + n - 1 =< b
  PROVE  Nth(a .. b, n) = a + n - 1
<1>1. ASSUME NEW i \in a .. b
      PROVE  Cardinality({j \in a .. b : j =< i}) = i - a + 1
  <2>1. {j \in a .. b : j =< i} = a .. i
    OBVIOUS
  <2>2. Cardinality(a .. i) = IF a > i THEN 0 ELSE i - a + 1
    BY FS_Interval
  <2>3. i \in Int /\ ~(a > i)
    OBVIOUS
  <2> QED BY <2>1, <2>2, <2>3
<1>2. a + n - 1 \in a .. b
  OBVIOUS
<1>3. \A i \in a .. b : Cardinality({j \in a .. b : j =< i}) = n <=> i = a + n - 1
  BY <1>1
<1> QED BY <1>2, <1>3 DEF Nth

\* The least number of a set.
LEMMA MinIs ==
  ASSUME NEW I \in SUBSET Int, NEW m \in I, \A i \in I : m =< i
  PROVE  Min(I) = m
<1>1. \A x \in I : (\A y \in I : x =< y) => x = m
  OBVIOUS
<1> QED BY <1>1 DEF Min

\* A function on the first n numbers is a sequence.
LEMMA FcnIsSeq ==
  ASSUME NEW S, NEW n \in Nat, NEW f \in [1 .. n -> S]
  PROVE  f \in Seq(S) /\ Len(f) = n
OBVIOUS

-----------------------------------------------------------------------------
(***************************************************************************)
(* What EnumMsg makes of a datagram.                                       *)
(***************************************************************************)

\* One of another request: nothing, and the loop ends.
LEMMA ForeignDatagram ==
  ASSUME NEW d, Datagram(d), ~Own(d), sequence_number \in Nat, NEW refused
  PROVE  Walked(d, refused) = {} /\ EnumMsg(d, refused) = FALSE
<1>1. \A i \in 1 .. Len(d) : ~Ours(d[i]) /\ ~Stops(d[i], refused)
  BY DEF Datagram, Own, Ours, Stops
<1>2. DOMAIN d = 1 .. Len(d) /\ Len(d) \in 1 .. Len(d)
  BY DEF Datagram
<1>3. Walked(d, refused) = {}
  BY <1>1, <1>2 DEF Walked
<1>4. Stop(d, refused) = 0
  <2>1. {i \in 1 .. Len(d) : Stops(d[i], refused)} = {}
    BY <1>1
  <2> QED BY <2>1 DEF Stop, SelectInSeq
<1>5. EnumMsg(d, refused) = Ours(d[Len(d)])
  BY <1>4 DEF EnumMsg, Last
<1> QED BY <1>1, <1>2, <1>3, <1>5

\* One whose first message ends the walk.
LEMMA StoppedDatagram ==
  ASSUME NEW d, Datagram(d), NEW refused, Stops(d[1], refused)
  PROVE  /\ Walked(d, refused) = {}
         /\ EnumMsg(d, refused) = (d[1].type = "noop" /\ ~d[1].intr)
         /\ Stop(d, refused) = 1
<1>1. 1 \in 1 .. Len(d) /\ DOMAIN d = 1 .. Len(d)
  BY DEF Datagram
<1>2. Walked(d, refused) = {}
  BY <1>1 DEF Walked
<1>3. Stop(d, refused) = 1
  <2> DEFINE I == {i \in 1 .. Len(d) : Stops(d[i], refused)}
  <2>1. I \in SUBSET Int /\ 1 \in I /\ \A i \in I : 1 =< i
    BY <1>1
  <2>2. Min(I) = 1
    <3> HIDE DEF I
    <3> QED BY <2>1, MinIs
  <2> QED BY <2>1, <2>2 DEF Stop, SelectInSeq
<1> QED BY <1>2, <1>3 DEF EnumMsg

\* One whose records are looked at.
LEMMA WalkedDatagram ==
  ASSUME NEW d, Datagram(d), Own(d), sequence_number \in Nat,
         NEW refused, "good" \notin refused, ~Stops(d[1], refused)
  PROVE  /\ d[1].type = "data" /\ ~d[1].intr /\ Size(d) \in Nat \ {0}
         /\ Walked(d, refused) = 1 .. Size(d)
         /\ EnumMsg(d, refused) = (d[Len(d)].type = "data")
         /\ Stop(d, refused) =
              IF Size(d) = Len(d) THEN 0 ELSE Len(d)
<1>1. Len(d) \in Nat /\ Len(d) > 0
  BY DEF Datagram
<1>11. DOMAIN d = 1 .. Len(d)
  BY DEF Datagram
<1>2. \A i \in 1 .. Len(d) : Ours(d[i])
  BY DEF Datagram, Own, Ours
<1>3. d[1].type = "data" /\ ~d[1].intr
  BY <1>1, <1>2 DEF Stops
<1>31. \A i \in 1 .. Len(d) :
         /\ d[i].intr = d[1].intr
         /\ d[i].type # "data" => i = Len(d)
         /\ i > 1 => d[i].form = "good" /\ d[i].type \in {"data", "done"}
  BY DEF Datagram
<1>32. d[1].form \notin refused
  BY <1>1, <1>2 DEF Stops
<1>4. ASSUME NEW i \in 1 .. Len(d)
      PROVE  Stops(d[i], refused) <=> d[i].type # "data"
  <2>0. Ours(d[i])
    BY <1>2
  <2>9. d[i].intr = d[1].intr
    BY <1>31
  <2>1. ~d[i].intr
    BY <2>9, <1>3
  <2>2. i = 1 \/ i > 1
    OBVIOUS
  <2>3. d[i].form \notin refused
    BY <1>31, <1>32, <2>2
  <2> QED BY <2>0, <2>1, <2>3 DEF Stops
<1>5. ASSUME NEW i \in 1 .. Len(d) - 1
      PROVE  d[i].type = "data"
  <2>1. i \in 1 .. Len(d) /\ i # Len(d)
    BY <1>1
  <2> QED BY <1>31, <2>1
<1>6. Size(d) \in Nat \ {0}
  BY <1>1, <1>3 DEF Size
<1>7. CASE d[Len(d)].type = "data"
  <2>1. \A i \in 1 .. Len(d) : ~Stops(d[i], refused)
    BY <1>1, <1>4, <1>5, <1>7
  <2>2. Walked(d, refused) = 1 .. Len(d)
    BY <1>1, <1>11, <1>2, <2>1 DEF Walked
  <2>3. {i \in 1 .. Len(d) : Stops(d[i], refused)} = {}
    BY <2>1
  <2>4. Stop(d, refused) = 0
    BY <2>3 DEF Stop, SelectInSeq
  <2>5. EnumMsg(d, refused) = Ours(d[Len(d)])
    BY <2>4 DEF EnumMsg, Last
  <2>6. Size(d) = Len(d) /\ Ours(d[Len(d)])
    BY <1>1, <1>2, <1>7 DEF Size
  <2> QED BY <1>3, <1>6, <1>7, <2>2, <2>4, <2>5, <2>6
<1>8. CASE d[Len(d)].type # "data"
  <2> DEFINE I == {i \in 1 .. Len(d) : Stops(d[i], refused)}
  <2>1. Len(d) > 1 /\ d[Len(d)].type = "done"
    <3>1. Len(d) # 1
      BY <1>3, <1>8
    <3>2. Len(d) > 1 /\ Len(d) \in 1 .. Len(d)
      BY <1>1, <3>1, SMTT(30)
    <3> QED BY <1>31, <1>8, <3>2
  <2>2. I = {Len(d)}
    BY <1>1, <1>4, <1>5, <1>8
  <2>3. Walked(d, refused) = 1 .. Len(d) - 1
    <3>1. \A i \in 1 .. Len(d) : (\A j \in 1 .. i : ~Stops(d[j], refused)) <=> i \in 1 .. Len(d) - 1
      BY <1>1, <1>4, <1>5, <1>8, SMTT(30)
    <3> QED BY <1>1, <1>11, <1>2, <3>1 DEF Walked
  <2>4. Min(I) = Len(d)
    <3>1. I \in SUBSET Int /\ Len(d) \in I /\ \A i \in I : Len(d) =< i
      BY <1>1, <2>2
    <3> HIDE DEF I
    <3> QED BY <3>1, MinIs
  <2>5. Stop(d, refused) = Len(d)
    BY <2>2, <2>4, Zenon DEF Stop, SelectInSeq
  <2>6. EnumMsg(d, refused) = FALSE
    BY <1>1, <2>1, <2>5 DEF EnumMsg
  <2>7. Size(d) = Len(d) - 1 /\ Size(d) # Len(d)
    BY <1>1, <1>8 DEF Size
  <2> QED BY <1>3, <1>6, <1>8, <2>3, <2>5, <2>6, <2>7
<1> QED BY <1>7, <1>8

\* What is kept of a datagram that is stored: all of it unless the first record
\* is damaged, nothing when it is too short.
Skipped(d) == IF d[1].form = "good" THEN 0 ELSE 1

LEMMA StoredDatagram ==
  ASSUME NEW d, Datagram(d), Own(d), sequence_number \in Nat,
         ~Stops(d[1], {}), d[Len(d)].type = "data"
  PROVE  /\ Cardinality(Walked(d, {})) = Len(d) /\ Len(d) \in Nat \ {0}
         /\ EnumMsg(d, {}) = TRUE
         /\ d[1].form = "short" => /\ Walked(d, Refused) = {} /\ Kept(d) = {}
                                   /\ Spoilt(d) /\ EnumMsg(d, Refused) = FALSE
         /\ d[1].form # "short" => /\ Walked(d, Refused) = 1 .. Len(d)
                                   /\ Kept(d) = Skipped(d) + 1 .. Len(d)
                                   /\ Spoilt(d) = FALSE /\ EnumMsg(d, Refused) = TRUE
<1>1. Len(d) \in Nat /\ Len(d) > 0
  BY DEF Datagram
<1>2. /\ d[1].type = "data" /\ ~d[1].intr
      /\ Walked(d, {}) = 1 .. Len(d) /\ EnumMsg(d, {}) = TRUE
  <2>1. "good" \notin {}
    OBVIOUS
  <2> QED BY <2>1, WalkedDatagram DEF Size
<1>3. Cardinality(1 .. Len(d)) = Len(d)
  BY <1>1, FS_Interval
<1>4. Ours(d[1])
  BY DEF Own, Ours
<1>5. CASE d[1].form = "short"
  <2>1. Stops(d[1], Refused)
    BY <1>4, <1>5 DEF Stops, Refused
  <2>2. /\ Walked(d, Refused) = {}
        /\ EnumMsg(d, Refused) = FALSE
        /\ Stop(d, Refused) = 1
    BY <1>2, <2>1, StoppedDatagram
  <2>3. Spoilt(d)
    BY <1>2, <2>2 DEF Spoilt
  <2>4. Kept(d) = {}
    BY <2>2 DEF Kept
  <2> QED BY <1>1, <1>2, <1>3, <1>5, <2>2, <2>3, <2>4
<1>6. CASE d[1].form # "short"
  <2>1. ~Stops(d[1], Refused) /\ "good" \notin Refused
    BY <1>2, <1>6 DEF Stops, Refused
  <2>2. /\ Walked(d, Refused) = 1 .. Len(d)
        /\ EnumMsg(d, Refused) = TRUE
        /\ Stop(d, Refused) = 0
    BY <2>1, WalkedDatagram DEF Size
  <2>3. Spoilt(d) = FALSE
    BY <2>2 DEF Spoilt
  <2>4. Kept(d) = Skipped(d) + 1 .. Len(d)
    <3>1. \A i \in 1 .. Len(d) : i > 1 => d[i].form = "good"
      BY DEF Datagram
    <3>2. ASSUME NEW i \in 1 .. Len(d)
          PROVE  d[i].form = "good" <=> i \in Skipped(d) + 1 .. Len(d)
      <4>1. CASE i = 1
        BY <4>1 DEF Skipped
      <4>2. CASE i > 1
        BY <1>1, <3>1, <4>2 DEF Skipped
      <4> QED BY <4>1, <4>2
    <3>3. Skipped(d) + 1 .. Len(d) \subseteq 1 .. Len(d)
      BY <1>1 DEF Skipped
    <3> QED BY <2>2, <3>2, <3>3 DEF Kept
  <2> QED BY <1>1, <1>2, <1>3, <1>6, <2>2, <2>3, <2>4
<1> QED BY <1>5, <1>6

\* The number of records that are kept, and the array with them.
LEMMA AppendedIs ==
  ASSUME NEW d, Datagram(d), Own(d), sequence_number \in Nat,
         ~Stops(d[1], {}), d[Len(d)].type = "data",
         NEW total \in Nat, currentMsg \in Nat, currentMsg + Len(d) =< total,
         recs \in Seq(Slots), currentMsg =< Len(recs), moves' \in Nat
  PROVE  LET n == Cardinality(Kept(d))
             a == Appended(d, total)
         IN  /\ n = IF d[1].form = "short" THEN 0 ELSE Len(d) - Skipped(d)
             /\ n \in Nat /\ n =< Len(d)
             /\ a \in Seq(Slots) /\ Len(a) = total + 1
             /\ \A p \in 1 .. currentMsg : a[p] = recs[p]
             /\ \A i \in 1 .. n :
                  a[currentMsg + i] = Slot(d[i + Skipped(d)].rec, sequence_number, moves')
             /\ d[1].form # "short" => a[currentMsg + n + 1] = Null
<1> DEFINE n    == Cardinality(Kept(d))
           a    == Appended(d, total)
           room == Room(total)
           R(m) == Slot(m.rec, m.seq, moves')
<1>1. /\ Len(d) \in Nat \ {0}
      /\ d[1].form = "short" => /\ Walked(d, Refused) = {} /\ Kept(d) = {} /\ Spoilt(d)
      /\ d[1].form # "short" => /\ Walked(d, Refused) = 1 .. Len(d)
                                /\ Kept(d) = Skipped(d) + 1 .. Len(d)
                                /\ Spoilt(d) = FALSE
  BY StoredDatagram
<1>2. Skipped(d) \in {0, 1}
  BY DEF Skipped
<1>3. n = IF d[1].form = "short" THEN 0 ELSE Len(d) - Skipped(d)
  <2>1. CASE d[1].form = "short"
    BY <1>1, <2>1, FS_EmptySet
  <2>2. CASE d[1].form # "short"
    <3> DEFINE b == Skipped(d) + 1
    <3>1. b \in Int /\ Len(d) \in Int /\ b =< Len(d) + 1
      BY <1>1, <1>2
    <3>2. Cardinality(b .. Len(d)) = IF b > Len(d) THEN 0 ELSE Len(d) - b + 1
      <4> HIDE DEF b
      <4> QED BY <3>1, FS_Interval
    <3>3. Cardinality(Skipped(d) + 1 .. Len(d)) = Len(d) - Skipped(d)
      BY <1>1, <1>2, <3>1, <3>2, SMTT(30)
    <3> QED BY <1>1, <2>2, <3>3
  <2> QED BY <2>1, <2>2
<1>4. n \in Nat /\ n =< Len(d)
  BY <1>1, <1>2, <1>3, SMTT(30)
<1>5. /\ room \in Seq(Slots) /\ Len(room) = total + 1
      /\ DOMAIN room = 1 .. total + 1
      /\ \A p \in 1 .. currentMsg : room[p] = recs[p]
  <2>1. room = [i \in 1 .. total + 1 |-> IF i > Len(recs) THEN Junk ELSE recs[i]]
    BY <1>1 DEF Room, Resized
  <2>2. Junk \in Slots
    BY DEF Junk, Slot, Slots
  <2>3. \A i \in 1 .. total + 1 : (IF i > Len(recs) THEN Junk ELSE recs[i]) \in Slots
    BY <2>2
  <2>4. room \in [1 .. total + 1 -> Slots] /\ total + 1 \in Nat
    BY <2>1, <2>3
  <2>5. room \in Seq(Slots) /\ Len(room) = total + 1
    <3> HIDE DEF room
    <3> QED BY <2>4, FcnIsSeq
  <2> QED BY <1>1, <2>1, <2>5
<1>6. a = [i \in DOMAIN room |->
             CASE i \in currentMsg + 1 .. currentMsg + n
                    -> R(d[Nth(Kept(d), i - currentMsg)])
               [] i = currentMsg + n + 1 -> IF Spoilt(d) THEN Junk ELSE Null
               [] OTHER -> room[i]]
  <2>1. ~(Walked(d, Refused) = {} /\ ~Spoilt(d))
    BY <1>1
  <2> QED BY <2>1 DEF Appended
<1>61. ASSUME NEW i \in 1 .. total + 1, i \in currentMsg + 1 .. currentMsg + n
       PROVE  a[i] = R(d[Nth(Kept(d), i - currentMsg)])
  <2>1. i # currentMsg + n + 1
    BY <1>4, <1>61, SMTT(30)
  <2> HIDE DEF n, a, room, R
  <2> QED BY <1>5, <1>6, <1>61, <2>1
<1> HIDE DEF n, a, room, R
<1>7. \A i \in 1 .. n : /\ Nth(Kept(d), i) = i + Skipped(d)
                        /\ i + Skipped(d) \in 1 .. Len(d)
                        /\ d[i + Skipped(d)] \in Messages
                        /\ d[i + Skipped(d)].seq = sequence_number
  <2> SUFFICES ASSUME NEW i \in 1 .. n
               PROVE  /\ Nth(Kept(d), i) = i + Skipped(d)
                      /\ i + Skipped(d) \in 1 .. Len(d)
                      /\ d[i + Skipped(d)] \in Messages
                      /\ d[i + Skipped(d)].seq = sequence_number
    OBVIOUS
  <2>1. Kept(d) = Skipped(d) + 1 .. Len(d) /\ n = Len(d) - Skipped(d)
    BY <1>1, <1>3, SMTT(30)
  <2>2. i + Skipped(d) \in 1 .. Len(d) /\ i \in Nat /\ i > 0
    BY <1>1, <1>2, <2>1, SMTT(30)
  <2>3. Nth(Skipped(d) + 1 .. Len(d), i) = Skipped(d) + 1 + i - 1
    <3> DEFINE b == Skipped(d) + 1
               l == Len(d)
    <3>1. b \in Int /\ l \in Int /\ i \in Nat /\ i > 0 /\ b + i - 1 =< l
      BY <1>1, <1>2, <2>2, SMTT(30)
    <3> HIDE DEF b, l
    <3>2. Nth(b .. l, i) = b + i - 1
      BY <3>1, NthOfInterval
    <3> QED BY <3>2 DEF b, l
  <2>4. Nth(Kept(d), i) = i + Skipped(d)
    <3>1. Skipped(d) + 1 + i - 1 = i + Skipped(d)
      BY <1>2, <2>2, SMTT(30)
    <3> QED BY <2>1, <2>3, <3>1
  <2>5. \A k \in 1 .. Len(d) : d[k] \in Messages /\ d[k].seq = sequence_number
    <3>1. d \in Seq(Messages) /\ d[1].seq = sequence_number
          /\ \A k \in 1 .. Len(d) : d[k].seq = d[1].seq
      BY DEF Datagram, Own
    <3> QED BY <3>1
  <2> QED BY <2>2, <2>4, <2>5
<1>8. ASSUME NEW p \in 1 .. currentMsg
      PROVE  a[p] = recs[p]
  <2>1. p \notin currentMsg + 1 .. currentMsg + n /\ p # currentMsg + n + 1
    BY <1>4
  <2>2. p \in 1 .. total + 1
    BY <1>1
  <2>3. a[p] = room[p]
    BY <1>5, <1>6, <2>1, <2>2
  <2> QED BY <1>5, <2>3
<1>9. ASSUME NEW i \in 1 .. n
      PROVE  a[currentMsg + i] = Slot(d[i + Skipped(d)].rec, sequence_number, moves')
  <2>1. currentMsg + i \in 1 .. total + 1 /\ currentMsg + i \in currentMsg + 1 .. currentMsg + n
    BY <1>1, <1>4, SMTT(30)
  <2>2. (currentMsg + i) - currentMsg = i
    OBVIOUS
  <2>3. a[currentMsg + i] = R(d[Nth(Kept(d), i)])
    BY <1>61, <2>1, <2>2
  <2> QED BY <1>7, <2>3 DEF R
<1>10. d[1].form # "short" => a[currentMsg + n + 1] = Null
  <2>1. /\ currentMsg + n + 1 \in 1 .. total + 1
        /\ currentMsg + n + 1 \notin currentMsg + 1 .. currentMsg + n
    BY <1>1, <1>4
  <2> QED BY <1>1, <1>5, <1>6, <2>1
<1>11. a \in Seq(Slots) /\ Len(a) = total + 1
  <2>1. ASSUME NEW i \in 1 .. total + 1
        PROVE  a[i] \in Slots
    <3>1. CASE i \in currentMsg + 1 .. currentMsg + n
      <4>1. i - currentMsg \in 1 .. n
        BY <1>4, <3>1
      <4>2. a[i] = R(d[Nth(Kept(d), i - currentMsg)])
        BY <1>61, <3>1
      <4>3. moves' \in Nat /\ d[i - currentMsg + Skipped(d)] \in Messages
        BY <1>7, <4>1
      <4> QED BY <1>7, <4>1, <4>2, <4>3 DEF R, Slot, Slots, Messages
    <3>2. CASE i = currentMsg + n + 1
      <4>1. i \notin currentMsg + 1 .. currentMsg + n
        BY <1>4, <3>2
      <4> QED BY <1>5, <1>6, <3>2, <4>1 DEF Junk, Null, Slot, Slots
    <3>3. CASE i \notin currentMsg + 1 .. currentMsg + n /\ i # currentMsg + n + 1
      <4>1. a[i] = room[i]
        BY <1>5, <1>6, <3>3
      <4> QED BY <1>5, <4>1
    <3> QED BY <3>1, <3>2, <3>3
  <2>2. DOMAIN a = 1 .. total + 1 /\ a = [i \in 1 .. total + 1 |-> a[i]]
    BY <1>5, <1>6
  <2>3. a \in [1 .. total + 1 -> Slots] /\ total + 1 \in Nat
    <3> HIDE DEF a
    <3> QED BY <2>1, <2>2, SMTT(30)
  <2> HIDE DEF a
  <2> QED BY <2>3, FcnIsSeq
<1> QED BY <1>3, <1>4, <1>8, <1>9, <1>10, <1>11 DEF n, a

-----------------------------------------------------------------------------
(***************************************************************************)
(* What the kernel sends.                                                  *)
(***************************************************************************)

\* The next n records of a dump.
Records(seq, next, n, form, intr) ==
  [i \in 1 .. n |->
     Message(seq, "data", next + i - 1, IF i = 1 THEN form ELSE "good", intr)]

HasRecords(d, seq, next, n, form, intr) ==
  /\ Datagram(d) /\ Size(d) = n /\ Len(d) = n
  /\ d[1] = Message(seq, "data", next, form, intr)

LEMMA DataDatagram ==
  ASSUME NEW seq \in Nat, NEW next \in Nat \ {0}, NEW n \in Nat \ {0},
         NEW form \in {"good", "cut", "short"}, NEW intr \in BOOLEAN
  PROVE  HasRecords(Records(seq, next, n, form, intr), seq, next, n, form, intr)
<1> DEFINE d == Records(seq, next, n, form, intr)
<1>1. n \in Nat /\ n > 0
  OBVIOUS
<1>2. ASSUME NEW i \in 1 .. n
      PROVE  d[i] = Message(seq, "data", next + i - 1, IF i = 1 THEN form ELSE "good", intr)
  BY DEF Records
<1>9. d = [i \in 1 .. n |-> d[i]]
  BY DEF Records
<1> HIDE DEF d
<1>3. ASSUME NEW i \in 1 .. n
      PROVE  d[i] \in Messages
  <2>1. next + i - 1 \in Nat
    OBVIOUS
  <2>2. (IF i = 1 THEN form ELSE "good") \in {"good", "cut", "short"}
    OBVIOUS
  <2>3. Message(seq, "data", next + i - 1, IF i = 1 THEN form ELSE "good", intr) \in Messages
    BY <2>1, <2>2 DEF Message, Messages
  <2> QED BY <1>2, <2>3
<1>4. d \in [1 .. n -> Messages]
  BY <1>3, <1>9
<1>5. d \in Seq(Messages) /\ Len(d) = n
  BY <1>1, <1>4, FcnIsSeq
<1>6. 1 \in 1 .. n /\ n \in 1 .. n
  BY <1>1
<1>7. d[1] = Message(seq, "data", next, form, intr)
  BY <1>2, <1>6
<1>8. Datagram(d)
  <2>1. ASSUME NEW i \in 1 .. Len(d)
        PROVE  /\ d[i].seq = d[1].seq /\ d[i].intr = d[1].intr
               /\ d[i].type # "data" => i = Len(d)
               /\ d[i].type = "data" => d[i].rec = d[1].rec + i - 1
               /\ i > 1 => d[i].form = "good" /\ d[i].type \in {"data", "done"}
    BY <1>2, <1>5, <1>7 DEF Message
  <2> QED BY <1>1, <1>5, <2>1 DEF Datagram
<1>10. Size(d) = n
  BY <1>2, <1>5, <1>6 DEF Size, Message
<1> QED BY <1>5, <1>7, <1>8, <1>10 DEF d, HasRecords

LEMMA EndedDatagram ==
  ASSUME NEW e, Datagram(e), e[Len(e)].type = "data",
         NEW d, d = Append(e, Done(e[1].seq, e[1].intr))
  PROVE  /\ Datagram(d) /\ Size(d) = Size(e) /\ d[1] = e[1]
         /\ Len(d) > 1 /\ Size(d) # Len(d)
<1>1. e \in Seq(Messages) /\ Len(e) \in Nat /\ Len(e) > 0
  BY DEF Datagram
<1>2. e[1] \in Messages
  BY <1>1
<1>3. Done(e[1].seq, e[1].intr) \in Messages
  BY <1>2 DEF Messages, Done, Message
<1>4. /\ d \in Seq(Messages) /\ Len(d) = Len(e) + 1
      /\ \A i \in 1 .. Len(e) : d[i] = e[i]
      /\ d[Len(d)] = Done(e[1].seq, e[1].intr)
  BY <1>1, <1>3
<1>5. d[1] = e[1]
  BY <1>1, <1>4
<1>6. d[Len(d)].type = "done" /\ d[Len(d)].seq = d[1].seq /\ d[Len(d)].intr = d[1].intr
      /\ d[Len(d)].form = "good"
  BY <1>4, <1>5 DEF Done, Message
<1>7. ASSUME NEW i \in 1 .. Len(d)
      PROVE  /\ d[i].seq = d[1].seq /\ d[i].intr = d[1].intr
             /\ d[i].type # "data" => i = Len(d)
             /\ d[i].type = "data" => d[i].rec = d[1].rec + i - 1
             /\ i > 1 => d[i].form = "good" /\ d[i].type \in {"data", "done"}
  <2>1. CASE i = Len(d)
    BY <1>6, <2>1
  <2>2. CASE i # Len(d)
    <3>1. i \in 1 .. Len(e) /\ d[i] = e[i]
      BY <1>1, <1>4, <2>2
    <3>2. d[i].type = "data"
      <4>1. CASE i = Len(e)
        BY <3>1, <4>1
      <4>2. CASE i # Len(e)
        BY <3>1, <4>2 DEF Datagram
      <4> QED BY <4>1, <4>2
    <3>3. /\ e[i].seq = e[1].seq /\ e[i].intr = e[1].intr
          /\ e[i].type = "data" => e[i].rec = e[1].rec + i - 1
          /\ i > 1 => e[i].form = "good"
      BY <3>1 DEF Datagram
    <3> QED BY <1>5, <3>1, <3>2, <3>3
  <2> QED BY <2>1, <2>2
<1>8. Datagram(d)
  BY <1>1, <1>4, <1>7 DEF Datagram
<1>9. Size(d) = Size(e) /\ Size(d) # Len(d)
  BY <1>1, <1>4, <1>6 DEF Size
<1> QED BY <1>1, <1>4, <1>5, <1>8, <1>9

\* A datagram of one message that is no record.
LEMMA SingleDatagram ==
  ASSUME NEW m \in Messages, m.type # "data"
  PROVE  /\ Datagram(<< m >>) /\ Size(<< m >>) = 0
         /\ Len(<< m >>) = 1 /\ << m >>[1] = m
BY DEF Datagram, Size

\* One step of a running dump: the datagram d has the next records, and unless
\* something is lost it has nothing else.
Sends(d) ==
  /\ queue' = Append(queue, d) /\ Datagram(d)
  /\ d[1].seq = running.seq /\ d[1].type \in {"data", "done"}
  /\ d[1].type = "data" => d[1].rec = running.next
  /\ d[1].type = "done" => running.next = running.last + 1
  /\ Size(d) \in Nat /\ running.next + Size(d) =< running.last + 1
  /\ \/ running' = None
     \/ running' = [running EXCEPT !.next = running.next + Size(d), !.intr = d[1].intr]
  /\ trouble' \in {trouble, trouble \cup {"lost"}}
  /\ "lost" \notin trouble' =>
       /\ ~d[1].intr /\ d[1].form = "good"
       /\ Len(d) > 1 => Size(d) = Len(d)
       /\ running' = None => d[1].type = "done"
       /\ running' # None => d[1].type = "data"

LEMMA Sent ==
  ASSUME ShapeInv, KernelSends
  PROVE  running # None /\ \E d : Sends(d)
<1> DEFINE r == running
           Data(to, form, intr) == Records(r.seq, r.next, to + 1 - r.next, form, intr)
<1>1. r # None /\ r \in Dumps /\ r.next \in 1 .. r.last + 1
  BY Zenon DEF ShapeInv, KernelSends
<1>2. r.seq \in Nat /\ r.next \in Nat /\ r.last \in Nat /\ r.intr \in BOOLEAN
  BY <1>1 DEF Dumps
<1>3. r.next > 0 /\ r.next =< r.last + 1
  BY <1>1, <1>2
<1>4. PICK intr \in IF "interrupted" \in Faults THEN {r.intr, TRUE} ELSE {r.intr} :
        \/ /\ r.next > r.last
           /\ queue' = Append(queue, << Done(r.seq, intr) >>)
           /\ running' = None
           /\ Trouble("lost", intr)
        \/ \E to \in r.next .. r.last, form \in Forms :
             \/ /\ queue' = Append(queue, Data(to, form, intr))
                /\ running' = [r EXCEPT !.next = to + 1, !.intr = intr]
                /\ Trouble("lost", intr \/ form # "good")
             \/ /\ to = r.last
                /\ queue' = Append(queue, Append(Data(to, form, intr), Done(r.seq, intr)))
                /\ running' = None
                /\ Trouble("lost", TRUE)
  BY ZenonT(30) DEF KernelSends, Records
<1>5. intr \in BOOLEAN
  <2>1. intr \in {r.intr, TRUE}
    BY <1>4, Zenon
  <2> QED BY <1>2, <2>1
<1>6. ASSUME r.next > r.last,
             queue' = Append(queue, << Done(r.seq, intr) >>),
             running' = None,
             Trouble("lost", intr)
      PROVE  \E d : Sends(d)
  <2> DEFINE m == Done(r.seq, intr)
  <2>1. m \in Messages /\ m.type = "done" /\ m.seq = r.seq /\ m.intr = intr /\ m.form = "good"
    BY <1>2, <1>5 DEF Done, Message, Messages
  <2>2. queue' = Append(queue, << m >>)
    BY <1>6
  <2> HIDE DEF m
  <2>3. /\ Datagram(<< m >>) /\ Size(<< m >>) = 0
        /\ Len(<< m >>) = 1 /\ << m >>[1] = m
    BY <2>1, SingleDatagram
  <2>4. r.next = r.last + 1 /\ r.next + 0 =< r.last + 1
    BY <1>2, <1>3, <1>6, SMTT(30)
  <2>5. /\ trouble' \in {trouble, trouble \cup {"lost"}}
        /\ "lost" \notin trouble' => ~intr
    BY <1>6 DEF Trouble
  <2>6. Sends(<< m >>)
    BY <1>6, <2>1, <2>2, <2>3, <2>4, <2>5 DEF Sends
  <2> QED BY <2>6
<1>7. ASSUME NEW to \in r.next .. r.last, NEW form \in Forms
      PROVE  LET e == Data(to, form, intr)
             IN  /\ Datagram(e) /\ Size(e) = Len(e) /\ Size(e) \in Nat \ {0}
                 /\ r.next + Size(e) = to + 1 /\ to =< r.last
                 /\ e[1].seq = r.seq /\ e[1].type = "data" /\ e[1].rec = r.next
                 /\ e[1].form = form /\ e[1].intr = intr
                 /\ e[Len(e)].type = "data"
  <2> DEFINE e == Data(to, form, intr)
             n == to + 1 - r.next
  <2>1. /\ to \in Nat /\ r.next =< to /\ to =< r.last
        /\ form \in {"good", "cut", "short"} /\ r.next \in Nat \ {0}
        /\ n \in Nat \ {0} /\ r.next + n = to + 1
    BY <1>2, <1>3, NetlinkDumpAssumption
  <2>2. e = Records(r.seq, r.next, n, form, intr)
    OBVIOUS
  <2> HIDE DEF e, n
  <2>3. /\ Datagram(e) /\ Size(e) = n /\ Len(e) = n
        /\ e[1] = Message(r.seq, "data", r.next, form, intr)
    <3>1. /\ r.seq \in Nat /\ r.next \in Nat \ {0} /\ n \in Nat \ {0}
          /\ form \in {"good", "cut", "short"} /\ intr \in BOOLEAN
      BY <1>2, <1>5, <2>1
    <3>2. HasRecords(Records(r.seq, r.next, n, form, intr), r.seq, r.next, n, form, intr)
      BY <3>1, DataDatagram
    <3> QED BY <2>2, <3>2 DEF HasRecords
  <2>4. e[Len(e)].type = "data"
    <3>1. Len(e) # Len(e) - 1
      BY <2>1, <2>3
    <3> QED BY <2>3, <3>1 DEF Size
  <2> QED BY <2>1, <2>3, <2>4, SMTT(30) DEF Message, e
<1> HIDE DEF Data
<1>8. ASSUME NEW to \in r.next .. r.last, NEW form \in Forms,
             queue' = Append(queue, Data(to, form, intr)),
             running' = [r EXCEPT !.next = to + 1, !.intr = intr],
             Trouble("lost", intr \/ form # "good")
      PROVE  \E d : Sends(d)
  <2> DEFINE e == Data(to, form, intr)
  <2>1. /\ Datagram(e) /\ Size(e) = Len(e) /\ Size(e) \in Nat \ {0}
        /\ r.next + Size(e) = to + 1 /\ to =< r.last
        /\ e[1].seq = r.seq /\ e[1].type = "data" /\ e[1].rec = r.next
        /\ e[1].form = form /\ e[1].intr = intr
    BY <1>7
  <2>2. queue' = Append(queue, e)
    BY <1>8
  <2> HIDE DEF e
  <2>3. /\ trouble' \in {trouble, trouble \cup {"lost"}}
        /\ "lost" \notin trouble' => ~intr /\ form = "good"
    BY <1>8 DEF Trouble
  <2>4. r.next + Size(e) =< r.last + 1
    BY <1>2, <2>1
  <2>5. running' = [running EXCEPT !.next = running.next + Size(e), !.intr = e[1].intr]
    BY <1>8, <2>1
  <2>6. running' # None
    <3>1. running.next + Size(e) \in Nat /\ e[1].intr \in BOOLEAN
      BY <1>2, <1>5, <2>1
    <3>2. running' = [seq |-> r.seq, next |-> running.next + Size(e), last |-> r.last,
                      intr |-> e[1].intr]
      BY <1>1, <2>5 DEF Dumps
    <3>3. running' \in Dumps
      BY <1>2, <3>1, <3>2 DEF Dumps
    <3> QED BY <3>3, NetlinkDumpAssumption DEF Dumps
  <2>7. Sends(e)
    BY <2>1, <2>2, <2>3, <2>4, <2>5, <2>6 DEF Sends
  <2> QED BY <2>7
<1>9. ASSUME NEW to \in r.next .. r.last, NEW form \in Forms, to = r.last,
             queue' = Append(queue, Append(Data(to, form, intr), Done(r.seq, intr))),
             running' = None, Trouble("lost", TRUE)
      PROVE  \E d : Sends(d)
  <2> DEFINE e == Data(to, form, intr)
             d == Append(e, Done(e[1].seq, e[1].intr))
  <2>1. /\ Datagram(e) /\ e[Len(e)].type = "data"
        /\ Size(e) \in Nat \ {0} /\ r.next + Size(e) = to + 1
        /\ e[1].seq = r.seq /\ e[1].type = "data" /\ e[1].rec = r.next
        /\ e[1].intr = intr
    BY <1>7
  <2>2. queue' = Append(queue, d)
    <3>1. queue' = Append(queue, Append(e, Done(r.seq, intr)))
      BY <1>9
    <3> HIDE DEF e
    <3> QED BY <2>1, <3>1
  <2> HIDE DEF e
  <2>3. Datagram(d) /\ Size(d) = Size(e) /\ d[1] = e[1]
    BY <2>1, EndedDatagram
  <2>4. trouble' = trouble \cup {"lost"}
    BY <1>9 DEF Trouble
  <2>5. r.next + Size(e) =< r.last + 1
    BY <1>2, <1>9, <2>1
  <2> HIDE DEF d
  <2>6. Sends(d)
    BY <1>9, <2>1, <2>2, <2>3, <2>4, <2>5 DEF Sends
  <2> QED BY <2>6
<1> QED BY <1>1, <1>4, <1>6, <1>8, <1>9, Zenon

-----------------------------------------------------------------------------
(***************************************************************************)
(* The steps of the kernel.                                                *)
(***************************************************************************)

LEMMA SizeType ==
  ASSUME NEW d, Datagram(d)
  PROVE  Len(d) \in Nat /\ Len(d) > 0 /\ Size(d) \in Nat /\ d[1] \in Messages
BY DEF Datagram, Size

LEMMA AppendIs ==
  ASSUME NEW S, NEW q \in Seq(S), NEW d \in S
  PROVE  /\ Append(q, d) \in Seq(S) /\ Len(Append(q, d)) = Len(q) + 1
         /\ \A k \in 1 .. Len(q) : Append(q, d)[k] = q[k]
         /\ Append(q, d)[Len(q) + 1] = d
OBVIOUS

\* What a step that adds the datagram d to the queue leaves alone.
Adds(d) ==
  /\ UNCHANGED << sequence_number, want, pc, answer, buffer, store >>
  /\ running # None
  /\ queue' \in Seq(Seq(Messages)) /\ Len(queue') = Len(queue) + 1
  /\ \A k \in 1 .. Len(queue) : queue'[k] = queue[k]
  /\ queue'[Len(queue) + 1] = d
  /\ Datagram(d) /\ d[1].seq = running.seq

LEMMA KernelAdds ==
  ASSUME ShapeInv, NEW d, Datagram(d), d[1].seq = running.seq, running # None,
         queue' = Append(queue, d),
         UNCHANGED << sequence_number, want, pc, answer, buffer, store >>
  PROVE  Adds(d)
<1>1. queue \in Seq(Seq(Messages)) /\ d \in Seq(Messages)
  BY DEF ShapeInv, Datagram
<1> QED BY <1>1, AppendIs DEF Adds

\* What a step of the kernel's dump does beside that.
Carries(d) ==
  /\ running' # None =>
       /\ running' \in Dumps /\ running'.seq = running.seq /\ running'.last = running.last
       /\ running'.next = running.next + Size(d)
  /\ trouble \subseteq trouble' /\ trouble' \subseteq trouble \cup {"lost"}
  /\ running.next + Size(d) =< running.last + 1
  /\ From(d, running.last) = running.next /\ d[1].type # "error"
  /\ "lost" \notin trouble' =>
       /\ ~d[1].intr /\ d[1].form = "good"
       /\ Len(d) > 1 => Size(d) = Len(d)
       /\ running' = None => d[1].type = "done"
       /\ running' # None => running'.intr \in {running.intr, FALSE}

LEMMA SendsCarries ==
  ASSUME TypeOK, ShapeInv, KernelSends
  PROVE  \E d : Adds(d) /\ Carries(d)
<1>1. running # None
  BY Sent
<1>2. PICK d : Sends(d)
  BY Sent
<1>3. /\ Datagram(d) /\ d[1].seq = running.seq /\ queue' = Append(queue, d)
      /\ d[1].type \in {"data", "done"}
      /\ d[1].type = "data" => d[1].rec = running.next
      /\ d[1].type = "done" => running.next = running.last + 1
      /\ Size(d) \in Nat
  BY <1>2 DEF Sends
<1>4. UNCHANGED << sequence_number, want, pc, answer, buffer, store >>
  BY Zenon DEF KernelSends
<1>5. Adds(d)
  BY <1>1, <1>3, <1>4, KernelAdds
<1>6. running \in Dumps /\ running.next \in Nat /\ running.last \in Nat
  BY <1>1 DEF ShapeInv, Dumps
<1>7. From(d, running.last) = running.next /\ d[1].type # "error"
  BY <1>3 DEF From
<1>8. ASSUME running' # None
      PROVE  /\ running' \in Dumps /\ running'.seq = running.seq
             /\ running'.last = running.last
             /\ running'.next = running.next + Size(d) /\ running'.intr = d[1].intr
  <2>1. d[1].intr \in BOOLEAN
    BY <1>3, SizeType DEF Messages
  <2>2. running' = [running EXCEPT !.next = running.next + Size(d), !.intr = d[1].intr]
    BY <1>2, <1>8 DEF Sends
  <2>3. running.next + Size(d) \in Nat
    BY <1>3, <1>6
  <2>4. running' = [seq |-> running.seq, next |-> running.next + Size(d),
                    last |-> running.last, intr |-> d[1].intr]
    BY <1>6, <2>2 DEF Dumps
  <2> QED BY <1>6, <2>1, <2>3, <2>4 DEF Dumps
<1>9. d[1].intr \in BOOLEAN
  BY <1>3, SizeType DEF Messages
<1>10. /\ trouble \subseteq trouble' /\ trouble' \subseteq trouble \cup {"lost"}
       /\ running.next + Size(d) =< running.last + 1
  BY <1>2 DEF Sends
<1>11. "lost" \notin trouble' =>
         /\ ~d[1].intr /\ d[1].form = "good"
         /\ Len(d) > 1 => Size(d) = Len(d)
         /\ running' = None => d[1].type = "done"
  BY <1>2 DEF Sends
<1>12. "lost" \notin trouble' /\ running' # None => running'.intr \in {running.intr, FALSE}
  BY <1>8, <1>9, <1>11
<1>13. Carries(d)
  BY <1>7, <1>8, <1>10, <1>11, <1>12 DEF Carries
<1> QED BY <1>5, <1>13

LEMMA NoopCarries ==
  ASSUME TypeOK, ShapeInv, KernelSendsNoop
  PROVE  \E d : Adds(d) /\ Carries(d)
<1> DEFINE m == Message(running.seq, "noop", 0, "good", FALSE)
<1>1. /\ running # None /\ running \in Dumps /\ running.seq \in Nat
      /\ running.next \in Nat /\ running.last \in Nat /\ running.next =< running.last + 1
  BY DEF KernelSendsNoop, ShapeInv, Dumps
<1>2. /\ m \in Messages /\ m.type = "noop" /\ m.seq = running.seq
      /\ m.form = "good" /\ m.intr = FALSE
  BY <1>1 DEF Message, Messages
<1>3. /\ queue = << >> /\ queue' = << << m >> >> /\ running.next = 1
      /\ running' = running /\ trouble' = trouble
      /\ UNCHANGED << sequence_number, want, pc, answer, buffer, store >>
  BY DEF KernelSendsNoop, buffer, store
<1> DEFINE d == << m >>
<1> HIDE DEF m
<1>4. Datagram(d) /\ Size(d) = 0 /\ Len(d) = 1 /\ d[1] = m
  BY <1>2, SingleDatagram
<1>5. queue' = Append(queue, d)
  BY <1>3
<1> HIDE DEF d
<1>6. Adds(d)
  BY <1>1, <1>2, <1>3, <1>4, <1>5, KernelAdds
<1>7. From(d, running.last) = running.next /\ d[1].type # "error"
  BY <1>2, <1>3, <1>4 DEF From
<1>8. running.next + Size(d) =< running.last + 1 /\ running.next + Size(d) = running.next
  BY <1>1, <1>4
<1>9. ~d[1].intr /\ d[1].form = "good" /\ ~(Len(d) > 1)
  BY <1>2, <1>4
<1>10. Carries(d)
  BY <1>1, <1>3, <1>7, <1>8, <1>9 DEF Carries
<1> QED BY <1>6, <1>10

LEMMA QueueFacts ==
  ASSUME ShapeInv
  PROVE  /\ Len(queue) \in Nat
         /\ \A k \in 1 .. Len(queue) :
              /\ Datagram(queue[k]) /\ queue[k][1] \in Messages /\ Size(queue[k]) \in Nat
              /\ queue[k][1].seq \in Nat /\ queue[k][1].rec \in Nat
              /\ queue[k][1].seq =< sequence_number
         /\ running # None => /\ running.seq \in Nat /\ running.next \in Nat
                              /\ running.last \in Nat /\ running.intr \in BOOLEAN
                              /\ running.seq =< sequence_number
                              /\ running.next > 0 /\ running.next =< running.last + 1
<1>1. Len(queue) \in Nat
  BY DEF ShapeInv
<1>2. ASSUME NEW k \in 1 .. Len(queue)
      PROVE  /\ Datagram(queue[k]) /\ queue[k][1] \in Messages /\ Size(queue[k]) \in Nat
             /\ queue[k][1].seq \in Nat /\ queue[k][1].rec \in Nat
             /\ queue[k][1].seq =< sequence_number
  <2>1. Datagram(queue[k]) /\ queue[k][1].seq =< sequence_number
    BY DEF ShapeInv
  <2> QED BY <2>1, SizeType DEF Messages
<1>3. ASSUME running # None
      PROVE  /\ running.seq \in Nat /\ running.next \in Nat
             /\ running.last \in Nat /\ running.intr \in BOOLEAN
             /\ running.seq =< sequence_number
             /\ running.next > 0 /\ running.next =< running.last + 1
  BY <1>3 DEF ShapeInv, Dumps
<1> QED BY <1>1, <1>2, <1>3

LEMMA KernelShape ==
  ASSUME TypeOK, ShapeInv, NEW d, Adds(d), Carries(d)
  PROVE  TypeOK' /\ ShapeInv'
<1>1. TypeOK'
  <2>1. UNCHANGED << sequence_number, want, pc, rcvbufsize, moves, offset, totalmsg,
                     currentMsg, info >>
    BY DEF Adds, buffer, store
  <2>2. trouble' \subseteq {"lost", "moved"}
    BY DEF Carries, TypeOK
  <2> QED BY <2>1, <2>2 DEF TypeOK
<1>2. ASSUME NEW k \in 1 .. Len(queue')
      PROVE  Datagram(queue'[k]) /\ queue'[k][1].seq =< sequence_number'
  <2>1. sequence_number' = sequence_number /\ running.seq =< sequence_number
    BY QueueFacts DEF Adds
  <2>2. CASE k \in 1 .. Len(queue)
    BY <2>1, <2>2, QueueFacts DEF Adds
  <2>3. CASE k = Len(queue) + 1
    BY <2>1, <2>3 DEF Adds
  <2>4. k \in 1 .. Len(queue) \/ k = Len(queue) + 1
    BY QueueFacts DEF Adds
  <2> QED BY <2>2, <2>3, <2>4
<1>3. ASSUME running' # None
      PROVE  /\ running' \in Dumps /\ running'.seq =< sequence_number'
             /\ running'.next \in 1 .. running'.last + 1 /\ running'.last =< MaxRecs
  <2>1. /\ sequence_number' = sequence_number /\ running # None
        /\ running'.seq = running.seq /\ running'.last = running.last
        /\ running'.next = running.next + Size(d) /\ running' \in Dumps
        /\ running.next + Size(d) =< running.last + 1 /\ Datagram(d)
    BY <1>3 DEF Adds, Carries
  <2>2. Size(d) \in Nat
    BY <2>1, SizeType
  <2>3. running.next + Size(d) \in 1 .. running.last + 1
    BY <2>1, <2>2, QueueFacts
  <2> QED BY <2>1, <2>3 DEF ShapeInv
<1>4. recs' \in Seq(Slots) /\ (answer' # None => answer' \in Seq(Slots))
  BY DEF ShapeInv, Adds, store
<1> QED BY <1>1, <1>2, <1>3, <1>4 DEF ShapeInv, Adds

LEMMA KernelFlow ==
  ASSUME TypeOK, ShapeInv, FlowInv, StoreInv, NEW d, Adds(d), Carries(d)
  PROVE  FlowInv'
<1> SUFFICES ASSUME pc' = "recv", want' # None
             PROVE  /\ running' # None =>
                         /\ running'.seq = sequence_number /\ running'.last = want
                         /\ totalmsg < running'.next
                         /\ \A p \in Stored : recs[p].rec < running'.next
                    /\ \A k \in 1 .. Len(queue') : queue'[k][1].seq = sequence_number =>
                         /\ queue'[k][1].type # "error"
                         /\ From(queue'[k], want) > 0 /\ Upto(queue'[k], want) =< want + 1
                         /\ running' # None => Upto(queue'[k], want) =< running'.next
                         /\ totalmsg < From(queue'[k], want)
                         /\ \A p \in Stored : recs[p].rec < From(queue'[k], want)
                         /\ \A l \in k + 1 .. Len(queue') :
                              /\ queue'[l][1].seq = sequence_number
                              /\ Upto(queue'[k], want) =< From(queue'[l], want)
  BY DEF FlowInv, Adds, store, Stored, Own
<1>1. pc = "recv" /\ want # None /\ want \in Nat
  BY DEF Adds, TypeOK
<1>2. /\ running # None /\ running.seq = sequence_number /\ running.last = want
      /\ totalmsg < running.next /\ running.next \in Nat /\ running.next > 0
      /\ \A p \in Stored : recs[p].rec < running.next
  BY <1>1, QueueFacts DEF FlowInv, Adds
<1>3. /\ totalmsg \in Nat /\ currentMsg \in Nat /\ Size(d) \in Nat
      /\ \A p \in Stored : p \in Nat
  BY SizeType DEF TypeOK, Adds, Stored
<1>4. /\ d[1].seq = sequence_number /\ d[1].type # "error"
      /\ From(d, want) = running.next /\ Upto(d, want) = running.next + Size(d)
      /\ running.next + Size(d) =< want + 1
  BY <1>2 DEF Adds, Carries, Upto
<1>5. running' # None => /\ running'.seq = sequence_number /\ running'.last = want
                         /\ running'.next = running.next + Size(d)
  BY <1>2 DEF Carries
<1>6. \A p \in Stored : recs[p].rec \in Int
  <2>1. \A p \in Stored : recs[p].rec \in p .. want
    BY <1>1 DEF StoreInv
  <2> QED BY <1>1, <1>3, <2>1
<1>7. /\ totalmsg < running.next + Size(d)
      /\ \A p \in Stored : recs[p].rec < running.next + Size(d)
      /\ running.next =< running.next + Size(d)
  BY <1>2, <1>3, <1>6
<1>8. /\ Len(queue) \in Nat /\ Len(queue') = Len(queue) + 1
      /\ \A k \in 1 .. Len(queue) : queue'[k] = queue[k]
      /\ queue'[Len(queue) + 1] = d
  BY QueueFacts DEF Adds
<1>9. ASSUME NEW k \in 1 .. Len(queue), queue[k][1].seq = sequence_number
      PROVE  /\ queue[k][1].type # "error"
             /\ From(queue[k], want) > 0 /\ Upto(queue[k], want) =< want + 1
             /\ Upto(queue[k], want) =< running.next
             /\ totalmsg < From(queue[k], want)
             /\ \A p \in Stored : recs[p].rec < From(queue[k], want)
             /\ \A l \in k + 1 .. Len(queue) :
                  /\ queue[l][1].seq = sequence_number
                  /\ Upto(queue[k], want) =< From(queue[l], want)
  BY <1>1, <1>2, <1>9 DEF FlowInv, Own
<1>10. ASSUME NEW k \in 1 .. Len(queue)
       PROVE  From(queue[k], want) \in Int /\ Upto(queue[k], want) \in Int
  <2>1. queue[k][1].rec \in Nat /\ Size(queue[k]) \in Nat
    BY QueueFacts
  <2> QED BY <1>1, <2>1 DEF From, Upto
<1>11. ASSUME NEW k \in 1 .. Len(queue'), queue'[k][1].seq = sequence_number
       PROVE  /\ queue'[k][1].type # "error"
              /\ From(queue'[k], want) > 0 /\ Upto(queue'[k], want) =< want + 1
              /\ running' # None => Upto(queue'[k], want) =< running'.next
              /\ totalmsg < From(queue'[k], want)
              /\ \A p \in Stored : recs[p].rec < From(queue'[k], want)
              /\ \A l \in k + 1 .. Len(queue') :
                   /\ queue'[l][1].seq = sequence_number
                   /\ Upto(queue'[k], want) =< From(queue'[l], want)
  <2>1. CASE k \in 1 .. Len(queue)
    <3>1. queue'[k] = queue[k] /\ queue[k][1].seq = sequence_number
      BY <1>8, <1>11, <2>1
    <3>2. running' # None => Upto(queue[k], want) =< running'.next
      <4>1. Upto(queue[k], want) =< running.next /\ Upto(queue[k], want) \in Int
        BY <1>9, <1>10, <2>1, <3>1
      <4>2. running.next \in Nat /\ Size(d) \in Nat
        BY <1>2, <1>3
      <4>3. Upto(queue[k], want) =< running.next + Size(d)
        BY <4>1, <4>2
      <4> QED BY <1>5, <4>3
    <3>3. ASSUME NEW l \in k + 1 .. Len(queue')
          PROVE  /\ queue'[l][1].seq = sequence_number
                 /\ Upto(queue[k], want) =< From(queue'[l], want)
      <4>1. CASE l \in k + 1 .. Len(queue)
        <5>1. l \in 1 .. Len(queue)
          BY <1>8, <4>1
        <5> QED BY <1>8, <1>9, <2>1, <3>1, <4>1, <5>1
      <4>2. CASE l = Len(queue) + 1
        BY <1>4, <1>8, <1>9, <2>1, <3>1, <4>2
      <4> QED BY <1>8, <4>1, <4>2
    <3> QED BY <1>9, <2>1, <3>1, <3>2, <3>3
  <2>2. CASE k = Len(queue) + 1
    <3>1. queue'[k] = d
      BY <1>8, <2>2
    <3>2. k + 1 .. Len(queue') = {}
      BY <1>8, <2>2
    <3>3. running' # None => Upto(d, want) =< running'.next
      BY <1>2, <1>3, <1>4, <1>5
    <3> QED BY <1>2, <1>4, <3>1, <3>2, <3>3
  <2> QED BY <1>8, <2>1, <2>2
<1> QED BY <1>5, <1>7, <1>11

LEMMA KernelStore ==
  ASSUME TypeOK, StoreInv, AnswerInv, NEW d, Adds(d), Carries(d)
  PROVE  StoreInv' /\ AnswerInv'
<1>1. UNCHANGED << sequence_number, want, pc, answer, moves, currentMsg, recs, info >>
  BY DEF Adds, store, buffer
<1>2. trouble \subseteq trouble'
  BY DEF Carries
<1>3. StoreInv'
  BY <1>1, <1>2 DEF StoreInv, Stored
<1>4. AnswerInv'
  BY <1>1 DEF AnswerInv
<1> QED BY <1>3, <1>4

LEMMA KernelRefused ==
  ASSUME TypeOK, ShapeInv, RefusedInv, NEW d, Adds(d), Carries(d)
  PROVE  RefusedInv'
<1> SUFFICES ASSUME pc' = "recv", want' = None
             PROVE  /\ "lost" \in trouble' /\ totalmsg = 0 /\ ~info
                    /\ running' # None => running'.seq # sequence_number
                    /\ \A k \in 1 .. Len(queue') :
                         queue'[k][1].seq = sequence_number => queue'[k][1].type = "error"
  BY DEF RefusedInv, Adds, store, Own
<1>1. /\ "lost" \in trouble /\ totalmsg = 0 /\ ~info
      /\ running.seq # sequence_number
      /\ \A k \in 1 .. Len(queue) :
           queue[k][1].seq = sequence_number => queue[k][1].type = "error"
  BY DEF RefusedInv, Adds, Own
<1>2. ASSUME NEW k \in 1 .. Len(queue'), queue'[k][1].seq = sequence_number
      PROVE  queue'[k][1].type = "error"
  <2>1. k # Len(queue) + 1
    BY <1>1, <1>2 DEF Adds
  <2>2. k \in 1 .. Len(queue)
    BY <2>1, QueueFacts DEF Adds
  <2> QED BY <1>1, <1>2, <2>2 DEF Adds
<1>3. "lost" \in trouble' /\ (running' # None => running'.seq # sequence_number)
  BY <1>1 DEF Carries
<1> QED BY <1>1, <1>2, <1>3

LEMMA KernelWhole ==
  ASSUME TypeOK, ShapeInv, FlowInv, RefusedInv, WholeInv, NEW d, Adds(d), Carries(d)
  PROVE  WholeInv'
<1> SUFFICES ASSUME pc' = "recv", "lost" \notin trouble'
             PROVE  /\ totalmsg = currentMsg /\ info = (totalmsg > 0)
                    /\ \A p \in Stored : recs[p].rec = p
                    /\ \A k \in 1 .. Len(queue') :
                         /\ queue'[k][1].seq = sequence_number
                         /\ ~queue'[k][1].intr /\ queue'[k][1].form = "good"
                         /\ Len(queue'[k]) > 1 => Size(queue'[k]) = Len(queue'[k])
                         /\ From(queue'[k], want) =
                              IF k = 1 THEN currentMsg + 1 ELSE Upto(queue'[k - 1], want)
                    /\ IF running' = None
                       THEN Len(queue') > 0 /\ queue'[Len(queue')][1].type = "done"
                       ELSE /\ ~running'.intr
                            /\ running'.next = IF queue' = << >> THEN currentMsg + 1
                                               ELSE Upto(queue'[Len(queue')], want)
  BY DEF WholeInv, Adds, store, Stored, Own
<1>1. pc = "recv" /\ "lost" \notin trouble
  BY DEF Adds, Carries
<1>2. want # None /\ running # None /\ running.seq = sequence_number /\ running.last = want
  BY <1>1 DEF RefusedInv, FlowInv, Adds
<1>3. /\ totalmsg = currentMsg /\ info = (totalmsg > 0)
      /\ \A p \in Stored : recs[p].rec = p
      /\ \A k \in 1 .. Len(queue) :
           /\ queue[k][1].seq = sequence_number
           /\ ~queue[k][1].intr /\ queue[k][1].form = "good"
           /\ Len(queue[k]) > 1 => Size(queue[k]) = Len(queue[k])
           /\ From(queue[k], want) = IF k = 1 THEN currentMsg + 1 ELSE Upto(queue[k - 1], want)
      /\ ~running.intr
      /\ running.next = IF queue = << >> THEN currentMsg + 1 ELSE Upto(queue[Len(queue)], want)
  BY <1>1, <1>2 DEF WholeInv, Own
<1>4. /\ Len(queue) \in Nat /\ Len(queue') = Len(queue) + 1
      /\ \A k \in 1 .. Len(queue) : queue'[k] = queue[k]
      /\ queue'[Len(queue) + 1] = d
      /\ queue = << >> <=> Len(queue) = 0
  BY SMTT(30) DEF Adds, ShapeInv
<1>5. /\ d[1].seq = sequence_number /\ ~d[1].intr /\ d[1].form = "good"
      /\ Len(d) > 1 => Size(d) = Len(d)
      /\ running' = None => d[1].type = "done"
      /\ From(d, want) = running.next /\ Upto(d, want) = running.next + Size(d)
      /\ running' # None => ~running'.intr /\ running'.next = running.next + Size(d)
  BY <1>2, <1>3 DEF Adds, Carries, Upto
<1>6. ASSUME NEW k \in 1 .. Len(queue')
      PROVE  /\ queue'[k][1].seq = sequence_number
             /\ ~queue'[k][1].intr /\ queue'[k][1].form = "good"
             /\ Len(queue'[k]) > 1 => Size(queue'[k]) = Len(queue'[k])
             /\ From(queue'[k], want) =
                  IF k = 1 THEN currentMsg + 1 ELSE Upto(queue'[k - 1], want)
  <2>1. CASE k \in 1 .. Len(queue)
    <3>1. queue'[k] = queue[k]
      BY <1>4, <2>1
    <3>2. k # 1 => queue'[k - 1] = queue[k - 1]
      <4>1. k # 1 => k - 1 \in 1 .. Len(queue)
        BY <1>4, <2>1
      <4> QED BY <1>4, <4>1
    <3> QED BY <1>3, <2>1, <3>1, <3>2
  <2>2. CASE k = Len(queue) + 1
    <3>1. queue'[k] = d
      BY <1>4, <2>2
    <3>2. From(d, want) = IF k = 1 THEN currentMsg + 1 ELSE Upto(queue'[k - 1], want)
      <4>1. CASE k = 1
        BY <1>3, <1>4, <1>5, <2>2, <4>1
      <4>2. CASE k # 1
        <5>1. k - 1 = Len(queue) /\ Len(queue) \in 1 .. Len(queue)
          BY <1>4, <2>2, <4>2
        <5> QED BY <1>3, <1>4, <1>5, <4>2, <5>1
      <4> QED BY <4>1, <4>2
    <3> QED BY <1>5, <3>1, <3>2
  <2> QED BY <1>4, <2>1, <2>2
<1>7. Len(queue') > 0 /\ queue' # << >> /\ queue'[Len(queue')] = d
  BY <1>4
<1> QED BY <1>3, <1>5, <1>6, <1>7

\* Whatever the kernel sends is one more datagram.
LEMMA KernelStep ==
  ASSUME IInv, KernelSends \/ KernelSendsNoop
  PROVE  IInv'
<1>1. PICK d : Adds(d) /\ Carries(d)
  BY SendsCarries, NoopCarries DEF IInv
<1>2. TypeOK' /\ ShapeInv'
  BY <1>1, KernelShape DEF IInv
<1>3. FlowInv'
  BY <1>1, KernelFlow DEF IInv
<1>4. StoreInv' /\ AnswerInv'
  BY <1>1, KernelStore DEF IInv
<1>5. RefusedInv'
  BY <1>1, KernelRefused DEF IInv
<1>6. WholeInv'
  BY <1>1, KernelWhole DEF IInv
<1> QED BY <1>2, <1>3, <1>4, <1>5, <1>6 DEF IInv

-----------------------------------------------------------------------------
(***************************************************************************)
(* The steps of a request.                                                 *)
(***************************************************************************)

\* Nothing on the socket is about a request that has not been made.
LEMMA RequestShape ==
  ASSUME IInv, Request
  PROVE  TypeOK' /\ ShapeInv'
<1>1. /\ sequence_number' = sequence_number + 1 /\ sequence_number < Requests
      /\ sequence_number \in Nat /\ pc' = "recv" /\ answer' = None
      /\ UNCHANGED << rcvbufsize, moves >>
      /\ totalmsg' = 0 /\ currentMsg' = 0 /\ offset' = 0 /\ info' = FALSE
      /\ recs' = Resized(<< >>, Len(recs))
  BY DEF IInv, TypeOK, Request, Reset
<1>2. TypeOK'
  <2>1. want' \in (0 .. MaxRecs) \cup {None}
    BY DEF Request
  <2>2. trouble' \subseteq {"lost", "moved"}
    BY DEF Request
  <2>3. rcvbufsize' \in Nat /\ moves' \in Nat
    BY <1>1 DEF IInv, TypeOK
  <2>4. sequence_number' \in 0 .. Requests
    BY <1>1, NetlinkDumpAssumption
  <2>5. offset' \in 0 .. rcvbufsize' /\ totalmsg' \in Nat /\ currentMsg' \in 0 .. totalmsg'
    BY <1>1, <2>3
  <2> QED BY <1>1, <2>1, <2>2, <2>3, <2>4, <2>5 DEF TypeOK
<1>3. recs' \in Seq(Slots)
  <2>1. Len(recs) \in Nat
    BY DEF IInv, ShapeInv
  <2>2. recs' = [i \in 1 .. Len(recs) |-> Junk]
    BY <1>1, <2>1 DEF Resized
  <2>3. Junk \in Slots
    BY DEF Junk, Slot, Slots
  <2>4. recs' \in [1 .. Len(recs) -> Slots]
    BY <2>2, <2>3
  <2> QED BY <2>1, <2>4, FcnIsSeq
<1>4. ASSUME running = None
      PROVE  /\ queue' = queue
             /\ running' \in Dumps /\ running'.seq =< sequence_number'
             /\ running'.next \in 1 .. running'.last + 1 /\ running'.last =< MaxRecs
  <2>1. PICK n \in 0 .. MaxRecs :
          running' = [seq |-> sequence_number', next |-> 1, last |-> n, intr |-> FALSE]
    BY <1>4 DEF Request
  <2>2. n \in Nat /\ n =< MaxRecs /\ sequence_number' \in Nat
    BY <1>1
  <2>3. /\ running'.seq = sequence_number' /\ running'.next = 1 /\ running'.last = n
        /\ running' \in Dumps
    BY <2>1, <2>2 DEF Dumps
  <2>4. queue' = queue
    BY <1>4 DEF Request
  <2>5. 1 \in 1 .. n + 1
    BY <2>2
  <2> QED BY <2>2, <2>3, <2>4, <2>5
<1>5. ASSUME running # None
      PROVE  /\ running' = running
             /\ queue' \in Seq(Seq(Messages)) /\ Len(queue') = Len(queue) + 1
             /\ \A k \in 1 .. Len(queue) : queue'[k] = queue[k]
             /\ Datagram(queue'[Len(queue) + 1])
             /\ queue'[Len(queue) + 1][1].seq = sequence_number'
  <2> DEFINE m == Message(sequence_number', "error", 0, "good", FALSE)
             d == << m >>
  <2>1. m \in Messages /\ m.type # "data" /\ m.seq = sequence_number'
    BY <1>1 DEF Message, Messages
  <2>2. queue' = Append(queue, d) /\ running' = running
    BY <1>5 DEF Request
  <2> HIDE DEF m
  <2>3. Datagram(d) /\ d[1] = m
    BY <2>1, SingleDatagram
  <2> HIDE DEF d
  <2>4. queue \in Seq(Seq(Messages)) /\ d \in Seq(Messages)
    BY <2>3 DEF IInv, ShapeInv, Datagram
  <2> QED BY <2>1, <2>2, <2>3, <2>4, AppendIs
<1>6. /\ queue' \in Seq(Seq(Messages))
      /\ \A k \in 1 .. Len(queue') :
           Datagram(queue'[k]) /\ queue'[k][1].seq =< sequence_number'
  <2>1. \A k \in 1 .. Len(queue) :
          Datagram(queue[k]) /\ queue[k][1].seq =< sequence_number'
    BY <1>1, QueueFacts DEF IInv
  <2>2. CASE running = None
    BY <1>4, <2>1, <2>2 DEF IInv, ShapeInv
  <2>3. CASE running # None
    <3>1. ASSUME NEW k \in 1 .. Len(queue')
          PROVE  Datagram(queue'[k]) /\ queue'[k][1].seq =< sequence_number'
      <4>1. k \in 1 .. Len(queue) \/ k = Len(queue) + 1
        BY <1>5, <2>3, QueueFacts, SMTT(30) DEF IInv
      <4>2. CASE k \in 1 .. Len(queue)
        BY <1>5, <2>1, <2>3, <4>2
      <4>3. CASE k = Len(queue) + 1
        <5>1. Datagram(queue'[k]) /\ queue'[k][1].seq = sequence_number'
          BY <1>5, <2>3, <4>3
        <5> QED BY <1>1, <5>1
      <4> QED BY <4>1, <4>2, <4>3
    <3> QED BY <1>5, <2>3, <3>1
  <2> QED BY <2>2, <2>3
<1>7. running' # None =>
        /\ running' \in Dumps /\ running'.seq =< sequence_number'
        /\ running'.next \in 1 .. running'.last + 1 /\ running'.last =< MaxRecs
  <2>1. CASE running = None
    BY <1>4, <2>1
  <2>2. CASE running # None
    <3>1. /\ running' = running /\ running \in Dumps /\ running.seq =< sequence_number
          /\ running.next \in 1 .. running.last + 1 /\ running.last =< MaxRecs
      BY <1>5, <2>2 DEF IInv, ShapeInv
    <3>2. running.seq =< sequence_number + 1
      BY <1>1, <3>1 DEF Dumps
    <3> QED BY <1>1, <3>1, <3>2
  <2> QED BY <2>1, <2>2
<1> QED BY <1>1, <1>2, <1>3, <1>6, <1>7 DEF ShapeInv

LEMMA RequestStep ==
  ASSUME IInv, Request
  PROVE  IInv'
<1>1. TypeOK' /\ ShapeInv'
  BY RequestShape
<1>2. /\ sequence_number' = sequence_number + 1 /\ sequence_number \in Nat
      /\ answer' = None /\ totalmsg' = 0 /\ currentMsg' = 0 /\ info' = FALSE
      /\ trouble' = IF running # None \/ queue # << >> THEN {"lost"} ELSE {}
  BY DEF IInv, TypeOK, Request, Reset
<1>3. Stored' = {}
  BY <1>2 DEF Stored
<1>4. \A k \in 1 .. Len(queue) : queue[k][1].seq # sequence_number'
  BY <1>2, QueueFacts DEF IInv
<1>5. running # None => running.seq # sequence_number'
  BY <1>2, QueueFacts DEF IInv
<1>6. StoreInv' /\ AnswerInv'
  <2>1. currentMsg' =< Len(recs')
    BY <1>1, <1>2 DEF ShapeInv
  <2> QED BY <1>2, <1>3, <2>1 DEF StoreInv, AnswerInv
<1>7. ASSUME running = None
      PROVE  /\ queue' = queue /\ want' # None /\ want' \in Nat
             /\ running' # None /\ running'.seq = sequence_number'
             /\ running'.last = want' /\ running'.next = 1 /\ ~running'.intr
  <2>1. PICK n \in 0 .. MaxRecs :
          /\ want' = n
          /\ running' = [seq |-> sequence_number', next |-> 1, last |-> n, intr |-> FALSE]
    BY <1>7 DEF Request
  <2>2. n \in Nat /\ running' \in Dumps
    BY <1>2, <2>1, NetlinkDumpAssumption DEF Dumps
  <2> QED BY <1>7, <2>1, <2>2, NetlinkDumpAssumption DEF Dumps, Request
<1>8. ASSUME running # None
      PROVE  /\ want' = None /\ "lost" \in trouble' /\ running' = running
             /\ queue' = Append(queue, << Message(sequence_number', "error", 0, "good", FALSE) >>)
  BY <1>2, <1>8 DEF Request
<1>9. FlowInv'
  <2>1. CASE running = None
    BY <1>2, <1>3, <1>4, <1>7, <2>1 DEF FlowInv, Own
  <2>2. CASE running # None
    BY <1>8, <2>2 DEF FlowInv
  <2> QED BY <2>1, <2>2
<1>10. RefusedInv'
  <2>1. CASE running = None
    BY <1>7, <2>1 DEF RefusedInv
  <2>2. CASE running # None
    <3>1. ASSUME NEW k \in 1 .. Len(queue'), queue'[k][1].seq = sequence_number'
          PROVE  queue'[k][1].type = "error"
      <4> DEFINE m == Message(sequence_number', "error", 0, "good", FALSE)
                 d == << m >>
      <4>1. m.type = "error" /\ m \in Messages
        BY <1>2 DEF Message, Messages
      <4>2. queue' = Append(queue, d)
        BY <1>8, <2>2
      <4> HIDE DEF m
      <4>3. d[1].type = "error" /\ d \in Seq(Messages)
        BY <4>1
      <4> HIDE DEF d
      <4>4. /\ Len(queue') = Len(queue) + 1 /\ Len(queue) \in Nat
            /\ \A l \in 1 .. Len(queue) : queue'[l] = queue[l]
            /\ queue'[Len(queue) + 1] = d
        BY <4>2, <4>3, AppendIs DEF IInv, ShapeInv
      <4>5. k \notin 1 .. Len(queue)
        BY <1>4, <3>1, <4>4
      <4>6. k = Len(queue) + 1
        BY <4>4, <4>5
      <4> QED BY <4>3, <4>4, <4>6
    <3> QED BY <1>2, <1>5, <1>8, <2>2, <3>1 DEF RefusedInv, Own
  <2> QED BY <2>1, <2>2
<1>11. WholeInv'
  <2> SUFFICES ASSUME "lost" \notin trouble'
               PROVE  WholeInv'
    BY DEF WholeInv
  <2>1. running = None /\ queue' = << >>
    BY <1>2, <1>7
  <2>2. Len(queue') = 0 /\ 1 .. Len(queue') = {}
    BY <2>1
  <2>3. /\ running' # None /\ ~running'.intr /\ running'.next = currentMsg' + 1
        /\ totalmsg' = currentMsg'
    BY <1>2, <1>7, <2>1
  <2>4. (0 > 0) = FALSE
    OBVIOUS
  <2>5. info' = (totalmsg' > 0)
    BY <1>2, <2>4
  <2> QED BY <1>3, <2>1, <2>2, <2>3, <2>5 DEF WholeInv
<1> QED BY <1>1, <1>6, <1>9, <1>10, <1>11 DEF IInv

LEMMA RequestFailsStep ==
  ASSUME IInv, RequestFails
  PROVE  IInv'
<1>1. /\ sequence_number' = sequence_number + 1 /\ sequence_number < Requests
      /\ sequence_number \in Nat /\ pc' = "idle" /\ answer' = None /\ want' = None
      /\ trouble' = {"lost"} /\ queue' = queue /\ running' = running /\ recs' = recs
      /\ UNCHANGED << rcvbufsize, moves, offset, totalmsg, currentMsg, info >>
  BY DEF IInv, TypeOK, RequestFails, Return, kernel, buffer, store
<1>2. TypeOK'
  <2>1. sequence_number' \in 0 .. Requests
    BY <1>1, NetlinkDumpAssumption
  <2> QED BY <1>1, <2>1 DEF IInv, TypeOK
<1>3. ShapeInv'
  <2>1. \A k \in 1 .. Len(queue) : queue[k][1].seq =< sequence_number + 1
    BY <1>1, QueueFacts DEF IInv
  <2>2. running # None => running.seq =< sequence_number + 1
    BY <1>1, QueueFacts DEF IInv
  <2> QED BY <1>1, <2>1, <2>2 DEF IInv, ShapeInv
<1>4. FlowInv' /\ StoreInv' /\ AnswerInv' /\ RefusedInv' /\ WholeInv'
  BY <1>1 DEF FlowInv, StoreInv, AnswerInv, RefusedInv, WholeInv
<1> QED BY <1>2, <1>3, <1>4 DEF IInv

\* GetInfo returns what it has.
LEMMA ReturnsStored ==
  ASSUME IInv, TypeOK', ShapeInv', pc = "recv", Return(info),
         UNCHANGED << sequence_number, want, currentMsg, recs, info >>,
         trouble \subseteq trouble', moves' = moves \/ "moved" \in trouble'
  PROVE  IInv'
<1>1. pc' = "idle" /\ answer' = (IF info THEN recs ELSE None)
  BY DEF Return
<1>2. StoreInv'
  BY <1>1 DEF IInv, StoreInv, Stored
<1>3. AnswerInv'
  BY <1>1 DEF AnswerInv
<1>4. FlowInv' /\ RefusedInv' /\ WholeInv'
  BY <1>1 DEF FlowInv, RefusedInv, WholeInv
<1> QED BY <1>2, <1>3, <1>4 DEF IInv

LEMMA ReceiveFailsStep ==
  ASSUME IInv, ReceiveFails
  PROVE  IInv'
<1>1. /\ pc = "recv" /\ Return(info) /\ trouble' = trouble \cup {"lost"}
      /\ queue' = queue /\ running' = running
      /\ UNCHANGED << sequence_number, want, rcvbufsize, moves, offset, totalmsg,
                      currentMsg, recs, info >>
  BY DEF ReceiveFails, kernel, buffer, store
<1>2. TypeOK'
  <2>1. pc' = "idle"
    BY <1>1 DEF Return
  <2>2. trouble' \subseteq {"lost", "moved"}
    BY <1>1 DEF IInv, TypeOK
  <2> QED BY <1>1, <2>1, <2>2 DEF IInv, TypeOK
<1>3. ShapeInv'
  BY <1>1 DEF IInv, ShapeInv, Return
<1> QED BY <1>1, <1>2, <1>3, ReturnsStored

-----------------------------------------------------------------------------
(***************************************************************************)
(* One turn of GetInfo's loop, by the kind of its datagram d.              *)
(***************************************************************************)

\* The buffer has room for d; if it had to be moved the history says so.
Takes(d) ==
  /\ pc = "recv" /\ Len(queue) > 0 /\ queue[1] = d /\ Datagram(d)
  /\ queue' = Tail(queue)
  /\ UNCHANGED << sequence_number, want, running >>
  /\ rcvbufsize' \in Nat /\ rcvbufsize =< rcvbufsize' /\ offset + Len(d) =< rcvbufsize'
  /\ moves' \in Nat
  /\ trouble \subseteq trouble' /\ trouble' \subseteq trouble \cup {"moved"}
  /\ moves' = moves \/ "moved" \in trouble'

\* The end of the dump, as GetInfo sees it.
Ends(d) ==
  /\ ~EnumMsg(d, {})
  /\ Return(info) /\ totalmsg' \in Nat /\ totalmsg =< totalmsg'
  /\ UNCHANGED << offset, currentMsg, recs, info >>

\* Nothing but a word of the kernel's before its first records.
Skips(d) ==
  /\ Own(d) /\ d[1].type = "noop" /\ want # None
  /\ UNCHANGED << pc, answer, offset, totalmsg, currentMsg, recs, info >>

\* Records; New(d) of them are stored.
New(d) == IF d[1].form = "short" THEN 0 ELSE Len(d) - Skipped(d)

Keeps(d) ==
  /\ Own(d) /\ d[1].type = "data" /\ Size(d) = Len(d) /\ want # None
  /\ UNCHANGED << pc, answer >>
  /\ offset' = offset + Len(d) /\ totalmsg' = totalmsg + Len(d)
  /\ info' = (d[1].form # "short")
  /\ New(d) \in Nat /\ New(d) + Skipped(d) =< Len(d) + 1 /\ New(d) =< Len(d)
  /\ New(d) > 0 => New(d) + Skipped(d) = Len(d)
  /\ currentMsg' = currentMsg + New(d)
  /\ recs' \in Seq(Slots) /\ Len(recs') = totalmsg' + 1
  /\ \A p \in Stored : recs'[p] = recs[p]
  /\ \A i \in 1 .. New(d) :
       recs'[currentMsg + i] = Slot(d[1].rec + Skipped(d) + i - 1, sequence_number, moves')
  /\ info' => recs'[currentMsg' + 1] = Null

LEMMA HeadTaken ==
  ASSUME IInv, Receive
  PROVE  Takes(Head(queue)) /\ Len(Head(queue)) \in Nat \ {0}
<1> DEFINE d == Head(queue)
<1>1. /\ pc = "recv" /\ queue # << >> /\ queue' = Tail(queue)
      /\ Tune(offset + Len(d)) /\ Trouble("moved", offset + Len(d) > rcvbufsize)
      /\ UNCHANGED << sequence_number, want, running >>
  BY DEF Receive
<1>2. Len(queue) > 0 /\ queue[1] = d
  BY <1>1 DEF IInv, ShapeInv
<1>3. Datagram(d) /\ Len(d) \in Nat /\ Len(d) > 0
  <2>1. 1 \in 1 .. Len(queue)
    BY <1>2, QueueFacts DEF IInv
  <2> HIDE DEF d
  <2>2. Datagram(d)
    BY <1>2, <2>1, QueueFacts DEF IInv
  <2> QED BY <2>2, SizeType
<1> HIDE DEF d
<1>4. /\ rcvbufsize \in Nat /\ moves \in Nat /\ offset \in Nat /\ offset =< rcvbufsize
      /\ trouble \subseteq {"lost", "moved"}
  BY DEF IInv, TypeOK
<1>5. /\ rcvbufsize' \in Nat /\ rcvbufsize =< rcvbufsize' /\ offset + Len(d) =< rcvbufsize'
      /\ moves' \in Nat
      /\ moves' = moves \/ offset + Len(d) > rcvbufsize
  <2>1. CASE offset + Len(d) > rcvbufsize
    BY <1>1, <1>3, <1>4, <2>1 DEF Tune
  <2>2. CASE ~(offset + Len(d) > rcvbufsize)
    BY <1>1, <1>3, <1>4, <2>2 DEF Tune
  <2> QED BY <2>1, <2>2
<1>6. /\ trouble \subseteq trouble' /\ trouble' \subseteq trouble \cup {"moved"}
      /\ offset + Len(d) > rcvbufsize => "moved" \in trouble'
  BY <1>1 DEF Trouble
<1>7. Takes(d)
  BY <1>1, <1>2, <1>3, <1>5, <1>6 DEF Takes
<1> QED BY <1>3, <1>7 DEF d

\* What is stored is what the walk kept.
LEMMA RecordsKept ==
  ASSUME IInv, NEW d, Takes(d), Own(d), ~Stops(d[1], {}), d[Len(d)].type = "data",
         totalmsg' = totalmsg + Cardinality(Walked(d, {})), EnumMsg(d, {}),
         currentMsg' = currentMsg + Cardinality(Kept(d)),
         recs' = Appended(d, totalmsg + Cardinality(Walked(d, {}))),
         info' = EnumMsg(d, Refused), offset' = offset + Len(d),
         UNCHANGED << pc, answer >>
  PROVE  Keeps(d)
<1>1. /\ sequence_number \in Nat /\ totalmsg \in Nat /\ currentMsg \in Nat
      /\ currentMsg =< totalmsg /\ Datagram(d) /\ pc = "recv" /\ moves' \in Nat
  BY DEF IInv, TypeOK, Takes
<1>2. /\ Cardinality(Walked(d, {})) = Len(d) /\ Len(d) \in Nat \ {0}
      /\ d[1].form = "short" => EnumMsg(d, Refused) = FALSE
      /\ d[1].form # "short" => EnumMsg(d, Refused) = TRUE
  BY <1>1, StoredDatagram
<1>3. Ours(d[1])
  BY DEF Own, Ours
<1>4. d[1].type = "data" /\ Size(d) = Len(d)
  BY <1>3 DEF Stops, Size
<1>5. want # None
  <2>1. 1 \in 1 .. Len(queue) /\ queue[1] = d
    BY QueueFacts DEF Takes, IInv
  <2> QED BY <1>1, <1>4, <2>1 DEF IInv, RefusedInv
<1>6. totalmsg' = totalmsg + Len(d) /\ recs' = Appended(d, totalmsg + Len(d))
  BY <1>2
<1>7. totalmsg + Len(d) \in Nat /\ currentMsg + Len(d) =< totalmsg + Len(d)
  BY <1>1, <1>2
<1>8. recs \in Seq(Slots) /\ currentMsg =< Len(recs)
  BY <1>1 DEF IInv, ShapeInv, StoreInv
<1>9. /\ Cardinality(Kept(d)) = IF d[1].form = "short" THEN 0 ELSE Len(d) - Skipped(d)
      /\ Cardinality(Kept(d)) \in Nat /\ Cardinality(Kept(d)) =< Len(d)
      /\ Appended(d, totalmsg + Len(d)) \in Seq(Slots)
      /\ Len(Appended(d, totalmsg + Len(d))) = totalmsg + Len(d) + 1
      /\ \A p \in 1 .. currentMsg : Appended(d, totalmsg + Len(d))[p] = recs[p]
      /\ \A i \in 1 .. Cardinality(Kept(d)) :
           Appended(d, totalmsg + Len(d))[currentMsg + i] =
             Slot(d[i + Skipped(d)].rec, sequence_number, moves')
      /\ d[1].form # "short" =>
           Appended(d, totalmsg + Len(d))[currentMsg + Cardinality(Kept(d)) + 1] = Null
  BY <1>1, <1>7, <1>8, AppendedIs
<1>10. Cardinality(Kept(d)) = New(d) /\ Skipped(d) \in {0, 1}
  BY <1>9 DEF New, Skipped
<1>11. /\ New(d) \in Nat /\ New(d) =< Len(d) /\ New(d) + Skipped(d) =< Len(d) + 1
       /\ New(d) > 0 => New(d) + Skipped(d) = Len(d)
  BY <1>2, <1>9, <1>10 DEF New
<1>12. ASSUME NEW i \in 1 .. New(d)
       PROVE  recs'[currentMsg + i] =
                Slot(d[1].rec + Skipped(d) + i - 1, sequence_number, moves')
  <2>1. i + Skipped(d) \in 1 .. Len(d) /\ i \in Int
    BY <1>2, <1>10, <1>11, SMTT(30)
  <2>2. d[1].rec \in Nat
    BY <1>1, SizeType DEF Messages
  <2>3. d[i + Skipped(d)].rec = d[1].rec + (i + Skipped(d)) - 1
    <3>1. d[i + Skipped(d)].type = "data"
      <4>1. CASE i + Skipped(d) = Len(d)
        BY <4>1
      <4>2. CASE i + Skipped(d) # Len(d)
        BY <1>1, <2>1, <4>2 DEF Datagram
      <4> QED BY <4>1, <4>2
    <3> QED BY <1>1, <2>1, <3>1 DEF Datagram
  <2>4. d[1].rec + (i + Skipped(d)) - 1 = d[1].rec + Skipped(d) + i - 1
    <3>1. \A a, b, c \in Int : a + (c + b) - 1 = a + b + c - 1
      OBVIOUS
    <3>2. d[1].rec \in Int /\ Skipped(d) \in Int /\ i \in Int
      BY <2>1, <2>2 DEF Skipped
    <3> QED BY <3>1, <3>2
  <2> QED BY <1>6, <1>9, <1>10, <2>3, <2>4
<1>13. info' = (d[1].form # "short")
  <2>1. CASE d[1].form = "short"
    <3>1. (d[1].form # "short") = FALSE
      BY <2>1
    <3> QED BY <1>2, <2>1, <3>1
  <2>2. CASE d[1].form # "short"
    <3>1. (d[1].form # "short") = TRUE
      BY <2>2
    <3> QED BY <1>2, <2>2, <3>1
  <2> QED BY <2>1, <2>2
<1>14. /\ currentMsg' = currentMsg + New(d)
       /\ recs' \in Seq(Slots) /\ Len(recs') = totalmsg' + 1
       /\ \A p \in Stored : recs'[p] = recs[p]
  BY <1>6, <1>9, <1>10 DEF Stored
<1>15. info' => recs'[currentMsg' + 1] = Null
  BY <1>6, <1>9, <1>10, <1>13, <1>14
<1> QED BY <1>4, <1>5, <1>6, <1>11, <1>12, <1>13, <1>14, <1>15 DEF Keeps

LEMMA Turn ==
  ASSUME IInv, Receive
  PROVE  \E d : Takes(d) /\ Len(d) \in Nat \ {0} /\ (Ends(d) \/ Skips(d) \/ Keeps(d))
<1> DEFINE d == Head(queue)
           w == Cardinality(Walked(d, {}))
<1>1. Takes(d) /\ Len(d) \in Nat \ {0}
  BY HeadTaken
<1>2. totalmsg' = totalmsg + w
  BY DEF Receive
<1>3. \/ /\ EnumMsg(d, {}) /\ totalmsg + w > 0
         /\ currentMsg' = currentMsg + Cardinality(Kept(d))
         /\ recs' = Appended(d, totalmsg + w)
         /\ info' = EnumMsg(d, Refused)
         /\ offset' = offset + Len(d)
         /\ UNCHANGED << pc, answer >>
      \/ /\ EnumMsg(d, {}) /\ totalmsg + w = 0
         /\ UNCHANGED << pc, answer, offset, currentMsg, recs, info >>
      \/ /\ ~EnumMsg(d, {})
         /\ Return(info)
         /\ UNCHANGED << offset, currentMsg, recs, info >>
  BY DEF Receive
<1>4. sequence_number \in Nat /\ totalmsg \in Nat /\ Datagram(d) /\ pc = "recv"
  BY <1>1 DEF IInv, TypeOK, Takes
<1>5. 1 \in 1 .. Len(queue) /\ queue[1] = d
  BY <1>1, QueueFacts DEF Takes, IInv
<1> HIDE DEF d
<1>6. CASE ~Own(d)
  <2>1. Walked(d, {}) = {} /\ EnumMsg(d, {}) = FALSE
    BY <1>4, <1>6, ForeignDatagram
  <2>2. totalmsg' = totalmsg
    BY <1>2, <1>4, <2>1, FS_EmptySet
  <2>3. Ends(d)
    BY <1>3, <1>4, <2>1, <2>2 DEF Ends
  <2> QED BY <1>1, <2>3
<1>7. CASE Own(d) /\ Stops(d[1], {})
  <2>1. Walked(d, {}) = {} /\ EnumMsg(d, {}) = (d[1].type = "noop" /\ ~d[1].intr)
    BY <1>4, <1>7, StoppedDatagram
  <2>2. w = 0 /\ totalmsg' = totalmsg
    BY <1>2, <1>4, <2>1, FS_EmptySet
  <2> HIDE DEF w
  <2>3. CASE ~EnumMsg(d, {})
    <3>1. Ends(d)
      BY <1>3, <1>4, <2>2, <2>3 DEF Ends
    <3> QED BY <1>1, <3>1
  <2>4. CASE EnumMsg(d, {})
    <3>1. d[1].type = "noop" /\ Own(queue[1]) /\ queue[1][1].type = "noop"
      BY <1>5, <1>7, <2>1, <2>4
    <3>2. want # None
      BY <1>4, <1>5, <3>1 DEF IInv, RefusedInv
    <3>3. totalmsg < From(queue[1], want)
      BY <1>4, <1>5, <3>1, <3>2 DEF IInv, FlowInv
    <3>4. From(queue[1], want) = 1
      BY <3>1 DEF From
    <3>5. totalmsg + w = 0
      BY <1>4, <2>2, <3>3, <3>4
    <3>6. UNCHANGED << pc, answer, offset, currentMsg, recs, info >>
      BY <1>3, <2>4, <3>5
    <3>7. Skips(d)
      BY <1>7, <2>2, <3>1, <3>2, <3>6 DEF Skips
    <3> QED BY <1>1, <3>7
  <2> QED BY <2>3, <2>4
<1>8. CASE Own(d) /\ ~Stops(d[1], {})
  <2>1. /\ Size(d) \in Nat \ {0} /\ Walked(d, {}) = 1 .. Size(d)
        /\ EnumMsg(d, {}) = (d[Len(d)].type = "data")
    <3>1. "good" \notin {}
      OBVIOUS
    <3> QED BY <1>4, <1>8, <3>1, WalkedDatagram
  <2>2. w = Size(d)
    <3>1. Size(d) \in Int /\ Size(d) > 0
      BY <2>1
    <3>2. Cardinality(1 .. Size(d)) = IF 1 > Size(d) THEN 0 ELSE Size(d) - 1 + 1
      BY <3>1, FS_Interval
    <3>3. Cardinality(1 .. Size(d)) = Size(d)
      BY <3>1, <3>2
    <3> QED BY <2>1, <3>3
  <2>3. CASE d[Len(d)].type # "data"
    <3>1. totalmsg' \in Nat /\ totalmsg =< totalmsg'
      BY <1>2, <1>4, <2>1, <2>2
    <3>2. /\ ~EnumMsg(d, {})
          /\ Return(info) /\ UNCHANGED << offset, currentMsg, recs, info >>
      BY <1>3, <2>1, <2>3
    <3>3. Ends(d)
      BY <3>1, <3>2 DEF Ends
    <3> QED BY <1>1, <3>3
  <2>4. CASE d[Len(d)].type = "data"
    <3>1. EnumMsg(d, {}) /\ totalmsg + w > 0 /\ ~(totalmsg + w = 0)
      <4>1. EnumMsg(d, {})
        BY <2>1, <2>4
      <4>2. w \in Nat /\ w > 0
        BY <2>1, <2>2
      <4> HIDE DEF w
      <4> QED BY <1>4, <4>1, <4>2
    <3>2. /\ currentMsg' = currentMsg + Cardinality(Kept(d))
          /\ recs' = Appended(d, totalmsg + w)
          /\ info' = EnumMsg(d, Refused)
          /\ offset' = offset + Len(d)
          /\ UNCHANGED << pc, answer >>
      BY <1>3, <3>1
    <3>3. Keeps(d)
      BY <1>1, <1>2, <1>8, <2>4, <3>1, <3>2, RecordsKept
    <3> QED BY <1>1, <3>3
  <2> QED BY <2>3, <2>4
<1> QED BY <1>6, <1>7, <1>8

\* What is left in the queue.
LEMMA QueueLeft ==
  ASSUME IInv, NEW d, Takes(d)
  PROVE  /\ queue' \in Seq(Seq(Messages)) /\ Len(queue') = Len(queue) - 1
         /\ Len(queue) \in Nat \ {0} /\ 1 \in 1 .. Len(queue)
         /\ \A k \in 1 .. Len(queue') :
              /\ k + 1 \in 1 .. Len(queue) /\ queue'[k] = queue[k + 1]
              /\ k \in Nat /\ k > 0
<1>1. /\ queue \in Seq(Seq(Messages)) /\ Len(queue) \in Nat /\ Len(queue) > 0
      /\ queue' = Tail(queue) /\ queue # << >>
  BY DEF IInv, ShapeInv, Takes
<1>2. /\ queue' \in Seq(Seq(Messages)) /\ Len(queue') = Len(queue) - 1
      /\ \A k \in 1 .. Len(queue') : queue'[k] = queue[k + 1]
  BY <1>1
<1> QED BY <1>1, <1>2

LEMMA TurnShape ==
  ASSUME IInv, NEW d, Takes(d), recs' \in Seq(Slots), answer' \in {answer, recs, None}
  PROVE  ShapeInv'
<1>1. \A k \in 1 .. Len(queue') : Datagram(queue'[k]) /\ queue'[k][1].seq =< sequence_number
  BY QueueLeft, QueueFacts DEF IInv
<1>2. answer' # None => answer' \in Seq(Slots)
  BY DEF IInv, ShapeInv
<1> QED BY <1>1, <1>2, QueueLeft DEF Takes, IInv, ShapeInv

LEMMA EndsStep ==
  ASSUME IInv, NEW d, Takes(d), Len(d) \in Nat, Ends(d)
  PROVE  IInv'
<1>1. /\ pc = "recv" /\ pc' = "idle" /\ answer' \in {answer, recs, None}
      /\ UNCHANGED << sequence_number, want, offset, currentMsg, recs, info >>
      /\ totalmsg' \in Nat /\ totalmsg =< totalmsg' /\ Return(info)
      /\ trouble \subseteq trouble' /\ (moves' = moves \/ "moved" \in trouble')
  BY DEF Takes, Ends, Return
<1>2. ShapeInv'
  <2>1. recs' \in Seq(Slots)
    BY <1>1 DEF IInv, ShapeInv
  <2> QED BY <1>1, <2>1, TurnShape
<1>3. TypeOK'
  <2>1. /\ rcvbufsize' \in Nat /\ moves' \in Nat /\ rcvbufsize =< rcvbufsize'
        /\ trouble' \subseteq {"lost", "moved"}
    BY DEF Takes, IInv, TypeOK
  <2>2. offset' \in 0 .. rcvbufsize' /\ currentMsg' \in 0 .. totalmsg'
    BY <1>1, <2>1 DEF IInv, TypeOK
  <2> QED BY <1>1, <2>1, <2>2 DEF IInv, TypeOK
<1> QED BY <1>1, <1>2, <1>3, ReturnsStored

\* The next datagram of the dump follows on d.
LEMMA Follows ==
  ASSUME IInv, NEW d, Takes(d), Own(d), want # None
  PROVE  /\ want \in Nat /\ From(d, want) \in Nat /\ Size(d) \in Nat
         /\ Upto(d, want) = From(d, want) + Size(d)
         /\ From(d, want) > 0 /\ Upto(d, want) =< want + 1
         /\ totalmsg < From(d, want)
         /\ \A p \in Stored : recs[p].rec < From(d, want)
         /\ running # None => running.next \in Nat /\ Upto(d, want) =< running.next
         /\ \A k \in 1 .. Len(queue') :
              /\ queue'[k][1].seq = sequence_number
              /\ From(queue'[k], want) \in Nat /\ Upto(queue'[k], want) \in Nat
              /\ Upto(d, want) =< From(queue'[k], want)
<1>1. want \in Nat /\ pc = "recv"
  BY DEF IInv, TypeOK, Takes
<1>2. ASSUME NEW e, Datagram(e)
      PROVE  From(e, want) \in Nat /\ Size(e) \in Nat /\ Upto(e, want) \in Nat
  <2>1. e[1].rec \in Nat /\ Size(e) \in Nat
    BY <1>2, SizeType DEF Messages
  <2> QED BY <1>1, <2>1 DEF From, Upto
<1>3. From(d, want) \in Nat /\ Size(d) \in Nat /\ Upto(d, want) = From(d, want) + Size(d)
  BY <1>2 DEF Takes, Upto
<1>4. 1 \in 1 .. Len(queue) /\ queue[1] = d /\ Own(queue[1])
  BY QueueLeft DEF Takes
<1>5. /\ From(d, want) > 0 /\ Upto(d, want) =< want + 1
      /\ totalmsg < From(d, want)
      /\ \A p \in Stored : recs[p].rec < From(d, want)
      /\ running # None => Upto(d, want) =< running.next
      /\ \A l \in 1 + 1 .. Len(queue) :
           Own(queue[l]) /\ Upto(d, want) =< From(queue[l], want)
  BY <1>1, <1>4 DEF IInv, FlowInv
<1>6. ASSUME NEW k \in 1 .. Len(queue')
      PROVE  /\ queue'[k][1].seq = sequence_number
             /\ From(queue'[k], want) \in Nat /\ Upto(queue'[k], want) \in Nat
             /\ Upto(d, want) =< From(queue'[k], want)
  <2>1. k + 1 \in 1 + 1 .. Len(queue) /\ k + 1 \in 1 .. Len(queue) /\ queue'[k] = queue[k + 1]
    BY QueueLeft, SMTT(30)
  <2>2. Datagram(queue[k + 1])
    BY <2>1, QueueFacts DEF IInv
  <2> QED BY <1>2, <1>5, <2>1, <2>2 DEF Own
<1>7. running # None => running.next \in Nat
  BY QueueFacts DEF IInv
<1> QED BY <1>1, <1>3, <1>5, <1>6, <1>7

\* The order of what is left, whatever of d has been counted and stored.
LEMMA TurnFlow ==
  ASSUME IInv, NEW d, Takes(d), Own(d), want # None,
         totalmsg' \in Nat, totalmsg' < Upto(d, want),
         running # None => totalmsg' < running.next,
         \A p \in 1 .. currentMsg' : recs'[p].rec \in Nat,
         \A p \in 1 .. currentMsg' : recs'[p].rec < Upto(d, want),
         running # None => \A p \in 1 .. currentMsg' : recs'[p].rec < running.next
  PROVE  FlowInv'
<1>1. want \in Nat /\ pc = "recv"
  BY DEF IInv, TypeOK, Takes
<1>2. UNCHANGED << sequence_number, want, running >>
  BY DEF Takes
<1>3. running # None => running.seq = sequence_number /\ running.last = want
  BY <1>1 DEF IInv, FlowInv
<1>4. Upto(d, want) \in Nat
  BY Follows
<1>5. ASSUME NEW k \in 1 .. Len(queue')
      PROVE  /\ queue'[k][1].type # "error"
             /\ From(queue'[k], want) > 0 /\ Upto(queue'[k], want) =< want + 1
             /\ running # None => Upto(queue'[k], want) =< running.next
             /\ totalmsg' < From(queue'[k], want)
             /\ \A p \in 1 .. currentMsg' : recs'[p].rec < From(queue'[k], want)
             /\ \A l \in k + 1 .. Len(queue') :
                  /\ queue'[l][1].seq = sequence_number
                  /\ Upto(queue'[k], want) =< From(queue'[l], want)
  <2>1. k + 1 \in 1 .. Len(queue) /\ queue'[k] = queue[k + 1] /\ k \in Nat
    BY QueueLeft
  <2>2. /\ queue'[k][1].seq = sequence_number
        /\ From(queue'[k], want) \in Nat /\ Upto(d, want) =< From(queue'[k], want)
    BY Follows
  <2>3. Own(queue[k + 1])
    BY <2>1, <2>2 DEF Own
  <2>4. /\ queue[k + 1][1].type # "error"
        /\ From(queue[k + 1], want) > 0 /\ Upto(queue[k + 1], want) =< want + 1
        /\ running # None => Upto(queue[k + 1], want) =< running.next
        /\ \A l \in (k + 1) + 1 .. Len(queue) :
             Own(queue[l]) /\ Upto(queue[k + 1], want) =< From(queue[l], want)
    BY <1>1, <2>1, <2>3 DEF IInv, FlowInv
  <2>5. totalmsg' < From(queue'[k], want)
    BY <1>4, <2>2
  <2>6. \A p \in 1 .. currentMsg' : recs'[p].rec < From(queue'[k], want)
    BY <1>4, <2>2
  <2>7. ASSUME NEW l \in k + 1 .. Len(queue')
        PROVE  /\ queue'[l][1].seq = sequence_number
               /\ Upto(queue'[k], want) =< From(queue'[l], want)
    <3>1. l \in 1 .. Len(queue')
      BY <2>1
    <3>2. queue'[l] = queue[l + 1] /\ l + 1 \in (k + 1) + 1 .. Len(queue)
      BY <2>1, <3>1, QueueLeft
    <3> QED BY <2>1, <2>4, <3>2 DEF Own
  <2> QED BY <2>1, <2>4, <2>5, <2>6, <2>7
<1> QED BY <1>2, <1>3, <1>5 DEF FlowInv, Own, Stored

\* Without loss what is left goes on where d ended.
LEMMA TurnWhole ==
  ASSUME IInv, NEW d, Takes(d), pc' = "recv", "lost" \notin trouble,
         d[1].type # "done", Upto(d, want) = currentMsg' + 1,
         totalmsg' = currentMsg', info' = (totalmsg' > 0),
         \A p \in 1 .. currentMsg' : recs'[p].rec = p
  PROVE  WholeInv'
<1>1. pc = "recv" /\ UNCHANGED << sequence_number, want, running >>
  BY DEF Takes
<1>2. /\ \A k \in 1 .. Len(queue) :
           /\ Own(queue[k]) /\ ~queue[k][1].intr /\ queue[k][1].form = "good"
           /\ Len(queue[k]) > 1 => Size(queue[k]) = Len(queue[k])
           /\ From(queue[k], want) =
                IF k = 1 THEN currentMsg + 1 ELSE Upto(queue[k - 1], want)
      /\ IF running = None
         THEN Len(queue) > 0 /\ queue[Len(queue)][1].type = "done"
         ELSE /\ ~running.intr
              /\ running.next = IF queue = << >> THEN currentMsg + 1
                                ELSE Upto(queue[Len(queue)], want)
  BY <1>1 DEF IInv, WholeInv
<1>3. queue[1] = d /\ queue # << >>
  BY QueueLeft DEF Takes
<1>4. ASSUME NEW k \in 1 .. Len(queue')
      PROVE  /\ queue'[k][1].seq = sequence_number
             /\ ~queue'[k][1].intr /\ queue'[k][1].form = "good"
             /\ Len(queue'[k]) > 1 => Size(queue'[k]) = Len(queue'[k])
             /\ From(queue'[k], want) =
                  IF k = 1 THEN currentMsg' + 1 ELSE Upto(queue'[k - 1], want)
  <2>1. /\ k + 1 \in 1 .. Len(queue) /\ queue'[k] = queue[k + 1] /\ k \in Nat /\ k > 0
        /\ k + 1 # 1 /\ (k + 1) - 1 = k
    BY QueueLeft
  <2>2. From(queue'[k], want) = Upto(queue[k], want)
    BY <1>2, <2>1
  <2>3. k = 1 => Upto(queue[k], want) = currentMsg' + 1
    BY <1>3
  <2>4. k # 1 => queue'[k - 1] = queue[k]
    <3>1. k # 1 => k - 1 \in 1 .. Len(queue') /\ (k - 1) + 1 = k
      BY <2>1
    <3> QED BY <3>1, QueueLeft
  <2> QED BY <1>2, <2>1, <2>2, <2>3, <2>4 DEF Own
<1>5. /\ queue' = << >> => Len(queue) = 1
      /\ queue' # << >> => /\ Len(queue') > 0
                           /\ queue'[Len(queue')] = queue[Len(queue)]
  <2>1. /\ Len(queue') = Len(queue) - 1 /\ queue' \in Seq(Seq(Messages))
        /\ Len(queue) \in Nat \ {0} /\ Len(queue') \in Nat
    BY QueueLeft
  <2>2. queue' # << >> => Len(queue') \in 1 .. Len(queue') /\ Len(queue') + 1 = Len(queue)
    BY <2>1
  <2> QED BY <2>1, <2>2, QueueLeft
<1>6. running = None => Len(queue') > 0 /\ queue'[Len(queue')][1].type = "done"
  BY <1>2, <1>3, <1>5
<1>7. running # None =>
        /\ ~running.intr
        /\ running.next = IF queue' = << >> THEN currentMsg' + 1
                          ELSE Upto(queue'[Len(queue')], want)
  BY <1>2, <1>3, <1>5
<1> QED BY <1>1, <1>4, <1>6, <1>7 DEF WholeInv, Own, Stored

LEMMA SkipsStep ==
  ASSUME IInv, NEW d, Takes(d), Len(d) \in Nat, Skips(d)
  PROVE  IInv'
<1>1. /\ pc = "recv" /\ want # None /\ Own(d) /\ d[1].type = "noop" /\ Datagram(d)
      /\ UNCHANGED << sequence_number, want, running, pc, answer, offset, totalmsg,
                      currentMsg, recs, info >>
      /\ trouble \subseteq trouble' /\ (moves' = moves \/ "moved" \in trouble')
  BY DEF Takes, Skips
<1>2. ShapeInv'
  <2>1. recs' \in Seq(Slots)
    BY <1>1 DEF IInv, ShapeInv
  <2> QED BY <1>1, <2>1, TurnShape
<1>3. TypeOK'
  <2>1. /\ rcvbufsize' \in Nat /\ moves' \in Nat /\ rcvbufsize =< rcvbufsize'
        /\ trouble' \subseteq {"lost", "moved"}
    BY DEF Takes, IInv, TypeOK
  <2>2. offset' \in 0 .. rcvbufsize'
    BY <1>1, <2>1 DEF IInv, TypeOK
  <2> QED BY <1>1, <2>1, <2>2 DEF IInv, TypeOK
<1>4. /\ totalmsg < From(d, want) /\ From(d, want) =< Upto(d, want)
      /\ totalmsg \in Nat /\ currentMsg \in Nat /\ currentMsg =< totalmsg
      /\ From(d, want) = 1 /\ Upto(d, want) \in Nat
  BY <1>1, Follows DEF IInv, TypeOK, From
<1>5. Stored = {} /\ Stored' = {} /\ totalmsg = 0 /\ currentMsg = 0
  BY <1>1, <1>4 DEF Stored
<1>6. FlowInv'
  <2>1. \A p \in 1 .. currentMsg' : FALSE
    BY <1>1, <1>5
  <2>2. totalmsg' \in Nat /\ totalmsg' < Upto(d, want)
    BY <1>1, <1>4
  <2>3. running # None => totalmsg' < running.next
    BY <1>1, <1>4, Follows
  <2> QED BY <1>1, <2>1, <2>2, <2>3, TurnFlow
<1>7. StoreInv'
  BY <1>1, <1>5 DEF IInv, StoreInv
<1>8. AnswerInv' /\ RefusedInv'
  BY <1>1 DEF IInv, AnswerInv, RefusedInv
<1>9. ASSUME "lost" \notin trouble'
      PROVE  WholeInv'
  <2>1. "lost" \notin trouble
    BY <1>1, <1>9
  <2>2. info = (totalmsg > 0)
    BY <1>1, <2>1 DEF IInv, WholeInv
  <2>3. Size(d) = 0
    <3>1. Len(d) \in Nat /\ Len(d) > 0
      BY <1>1, SizeType
    <3>2. Len(d) = 1
      <4>1. 1 \in 1 .. Len(d)
        BY <3>1
      <4> QED BY <1>1, <4>1 DEF Datagram
    <3> QED BY <1>1, <3>2 DEF Size
  <2>4. Upto(d, want) = currentMsg + 1
    BY <1>4, <1>5, <2>3 DEF Upto
  <2>5. \A p \in 1 .. currentMsg' : FALSE
    BY <1>1, <1>5
  <2> QED BY <1>1, <1>5, <2>1, <2>2, <2>4, <2>5, TurnWhole
<1>10. WholeInv'
  BY <1>9 DEF WholeInv
<1> QED BY <1>2, <1>3, <1>6, <1>7, <1>8, <1>10 DEF IInv

\* The records of d come behind those of the array.
LEMMA KeepsRecords ==
  ASSUME IInv, NEW d, Takes(d), Len(d) \in Nat, Keeps(d)
  PROVE  /\ currentMsg \in Nat /\ currentMsg' \in Nat /\ totalmsg' \in Nat
         /\ currentMsg' =< totalmsg' /\ totalmsg' < Upto(d, want)
         /\ \A p \in 1 .. currentMsg :
              /\ recs'[p] = recs[p] /\ recs[p].rec \in p .. want
              /\ recs[p].rec < From(d, want)
         /\ \A p \in currentMsg + 1 .. currentMsg' :
              /\ recs'[p] = Slot(From(d, want) + Skipped(d) + (p - currentMsg) - 1,
                                 sequence_number, moves')
              /\ recs'[p].rec = From(d, want) + Skipped(d) + (p - currentMsg) - 1
              /\ p =< recs'[p].rec /\ recs'[p].rec < Upto(d, want)
              /\ recs'[p].rec >= From(d, want) /\ recs'[p].rec \in Nat
<1>1. /\ pc = "recv" /\ want # None /\ Own(d) /\ d[1].type = "data" /\ Size(d) = Len(d)
      /\ New(d) \in Nat /\ New(d) =< Len(d)
      /\ New(d) > 0 => New(d) + Skipped(d) = Len(d)
      /\ currentMsg' = currentMsg + New(d) /\ totalmsg' = totalmsg + Len(d)
  BY DEF Keeps, Takes
<1>2. currentMsg \in Nat /\ totalmsg \in Nat /\ currentMsg =< totalmsg
  BY DEF IInv, TypeOK
<1>3. /\ want \in Nat /\ From(d, want) \in Nat /\ Upto(d, want) = From(d, want) + Len(d)
      /\ totalmsg < From(d, want)
      /\ \A p \in Stored : recs[p].rec < From(d, want)
  BY <1>1, Follows
<1>4. From(d, want) = d[1].rec
  BY <1>1 DEF From
<1>5. Skipped(d) \in Int /\ Skipped(d) >= 0
  BY DEF Skipped
<1>6. currentMsg' \in Nat /\ totalmsg' \in Nat /\ currentMsg' =< totalmsg'
      /\ totalmsg' < Upto(d, want)
  BY <1>1, <1>2, <1>3, SMTT(30)
<1>7. ASSUME NEW p \in 1 .. currentMsg
      PROVE  /\ recs'[p] = recs[p] /\ recs[p].rec \in p .. want
             /\ recs[p].rec < From(d, want)
  BY <1>1, <1>3 DEF Stored, Keeps, IInv, StoreInv
<1>8. ASSUME NEW p \in currentMsg + 1 .. currentMsg'
      PROVE  /\ recs'[p] = Slot(From(d, want) + Skipped(d) + (p - currentMsg) - 1,
                                sequence_number, moves')
             /\ recs'[p].rec = From(d, want) + Skipped(d) + (p - currentMsg) - 1
             /\ p =< recs'[p].rec /\ recs'[p].rec < Upto(d, want)
             /\ recs'[p].rec >= From(d, want) /\ recs'[p].rec \in Nat
  <2>1. PICK i \in 1 .. New(d) : p = currentMsg + i
    <3>1. p - currentMsg \in 1 .. New(d) /\ p = currentMsg + (p - currentMsg)
      BY <1>1, <1>2, SMTT(30)
    <3> QED BY <3>1
  <2>2. i \in Nat /\ i > 0 /\ i =< New(d) /\ p - currentMsg = i
    BY <1>1, <1>2, <2>1
  <2>3. recs'[p] = Slot(From(d, want) + Skipped(d) + i - 1, sequence_number, moves')
    BY <1>4, <2>1 DEF Keeps
  <2>4. recs'[p].rec = From(d, want) + Skipped(d) + i - 1
    BY <2>3 DEF Slot
  <2> DEFINE r == From(d, want) + Skipped(d) + i - 1
  <2>5. New(d) + Skipped(d) = Len(d)
    BY <1>1, <2>2
  <2>6. p =< r /\ r < Upto(d, want) /\ r >= From(d, want) /\ r \in Nat
    <3>1. From(d, want) \in Nat /\ From(d, want) > currentMsg
      BY <1>2, <1>3
    <3>2. Skipped(d) + i =< Len(d)
      BY <1>1, <1>5, <2>2, <2>5, SMTT(30)
    <3> QED BY <1>2, <1>3, <1>5, <2>1, <2>2, <3>1, <3>2, SMTT(30)
  <2> QED BY <2>2, <2>3, <2>4, <2>6
<1> QED BY <1>2, <1>6, <1>7, <1>8

LEMMA KeepsStore ==
  ASSUME IInv, NEW d, Takes(d), Len(d) \in Nat, Keeps(d)
  PROVE  StoreInv'
<1>1. /\ pc = "recv" /\ want # None /\ Own(d)
      /\ UNCHANGED << sequence_number, want >>
      /\ Len(recs') = totalmsg' + 1
      /\ info' => recs'[currentMsg' + 1] = Null
      /\ trouble \subseteq trouble' /\ (moves' = moves \/ "moved" \in trouble')
  BY DEF Keeps, Takes
<1>2. /\ currentMsg \in Nat /\ currentMsg' \in Nat /\ totalmsg' \in Nat
      /\ currentMsg' =< totalmsg'
  BY KeepsRecords
<1>3. currentMsg' < Len(recs') /\ currentMsg' =< Len(recs')
  <2>1. Len(recs') = totalmsg' + 1 /\ Len(recs') \in Nat
    BY <1>1 DEF Keeps
  <2>2. \A a, b, c \in Nat : a =< b /\ c = b + 1 => a < c /\ a =< c
    OBVIOUS
  <2> QED BY <1>2, <2>1, <2>2
<1>4. /\ want \in Nat /\ From(d, want) \in Nat /\ Upto(d, want) =< want + 1
      /\ Upto(d, want) \in Nat
  BY <1>1, Follows
<1>5. ASSUME NEW p \in 1 .. currentMsg'
      PROVE  /\ recs'[p].rec \in p .. want /\ recs'[p].seq = sequence_number
             /\ "moved" \notin trouble' => recs'[p].at = moves'
             /\ \A q \in 1 .. currentMsg' : p < q => recs'[p].rec < recs'[q].rec
  <2>1. CASE p \in 1 .. currentMsg
    <3>1. /\ recs'[p] = recs[p] /\ recs[p].rec \in p .. want
          /\ recs[p].rec < From(d, want)
      BY <2>1, KeepsRecords
    <3>2. /\ recs[p].seq = sequence_number
          /\ "moved" \notin trouble => recs[p].at = moves
          /\ \A q \in 1 .. currentMsg : p < q => recs[p].rec < recs[q].rec
      BY <1>1, <2>1 DEF IInv, StoreInv, Stored
    <3>3. ASSUME NEW q \in 1 .. currentMsg', p < q
          PROVE  recs'[p].rec < recs'[q].rec
      <4>1. CASE q \in 1 .. currentMsg
        BY <3>1, <3>2, <3>3, <4>1, KeepsRecords
      <4>2. CASE q \in currentMsg + 1 .. currentMsg'
        <5>1. recs'[q].rec >= From(d, want) /\ recs'[q].rec \in Nat
          BY <4>2, KeepsRecords
        <5>2. recs'[p].rec \in Int
          BY <1>4, <3>1
        <5>3. recs'[p].rec < From(d, want)
          BY <3>1
        <5> QED BY <1>4, <5>1, <5>2, <5>3, SMTT(30)
      <4> QED BY <1>2, <4>1, <4>2
    <3>4. "moved" \notin trouble' => recs'[p].at = moves'
      BY <1>1, <3>1, <3>2
    <3> QED BY <3>1, <3>2, <3>3, <3>4
  <2>2. CASE p \in currentMsg + 1 .. currentMsg'
    <3>1. /\ recs'[p] = Slot(From(d, want) + Skipped(d) + (p - currentMsg) - 1,
                             sequence_number, moves')
          /\ recs'[p].rec = From(d, want) + Skipped(d) + (p - currentMsg) - 1
          /\ p =< recs'[p].rec /\ recs'[p].rec < Upto(d, want)
          /\ recs'[p].rec \in Nat
      BY <2>2, KeepsRecords
    <3>2. recs'[p].rec \in p .. want
      BY <1>4, <3>1
    <3>3. recs'[p].seq = sequence_number /\ recs'[p].at = moves'
      BY <3>1 DEF Slot
    <3>4. ASSUME NEW q \in 1 .. currentMsg', p < q
          PROVE  recs'[p].rec < recs'[q].rec
      <4>1. q \in currentMsg + 1 .. currentMsg'
        BY <1>2, <2>2, <3>4
      <4>2. recs'[q].rec = From(d, want) + Skipped(d) + (q - currentMsg) - 1
        BY <4>1, KeepsRecords
      <4>3. Skipped(d) \in Int
        BY DEF Skipped
      <4> QED BY <1>2, <1>4, <3>1, <3>4, <4>2, <4>3, SMTT(30)
    <3> QED BY <3>2, <3>3, <3>4
  <2> QED BY <1>2, <2>1, <2>2
<1>6. want' # None /\ want' = want /\ sequence_number' = sequence_number
  BY <1>1
<1>7. info' => currentMsg' < Len(recs') /\ recs'[currentMsg' + 1] = Null
  BY <1>1, <1>3
<1> QED BY <1>3, <1>5, <1>6, <1>7 DEF StoreInv, Stored

LEMMA KeepsStep ==
  ASSUME IInv, NEW d, Takes(d), Len(d) \in Nat \ {0}, Keeps(d)
  PROVE  IInv'
<1>1. /\ pc = "recv" /\ want # None /\ Own(d) /\ d[1].type = "data" /\ Datagram(d)
      /\ Size(d) = Len(d) /\ queue[1] = d
      /\ UNCHANGED << sequence_number, want, running, pc, answer >>
      /\ totalmsg' = totalmsg + Len(d) /\ currentMsg' = currentMsg + New(d)
      /\ offset' = offset + Len(d) /\ offset + Len(d) =< rcvbufsize'
      /\ recs' \in Seq(Slots) /\ trouble \subseteq trouble'
  BY DEF Takes, Keeps
<1>2. /\ currentMsg \in Nat /\ currentMsg' \in Nat /\ totalmsg' \in Nat
      /\ currentMsg' =< totalmsg' /\ totalmsg' < Upto(d, want)
  BY KeepsRecords
<1>3. /\ want \in Nat /\ From(d, want) \in Nat /\ Upto(d, want) = From(d, want) + Len(d)
      /\ running # None => running.next \in Nat /\ Upto(d, want) =< running.next
  BY <1>1, Follows
<1>4. ShapeInv'
  BY <1>1, TurnShape
<1>5. TypeOK'
  <2>1. /\ rcvbufsize' \in Nat /\ moves' \in Nat
        /\ trouble' \subseteq {"lost", "moved"}
    BY DEF Takes, IInv, TypeOK
  <2>2. offset' \in 0 .. rcvbufsize'
    BY <1>1, <2>1 DEF IInv, TypeOK
  <2>3. info' \in BOOLEAN
    BY DEF Keeps
  <2>4. currentMsg' \in 0 .. totalmsg'
    BY <1>2
  <2> QED BY <1>1, <1>2, <2>1, <2>2, <2>3, <2>4 DEF IInv, TypeOK
<1>6. ASSUME NEW p \in 1 .. currentMsg'
      PROVE  recs'[p].rec \in Nat /\ recs'[p].rec < Upto(d, want)
  <2>1. CASE p \in 1 .. currentMsg
    <3>1. /\ recs'[p] = recs[p] /\ recs[p].rec \in p .. want /\ p \in Nat
          /\ recs[p].rec < From(d, want)
      BY <2>1, KeepsRecords
    <3>2. recs'[p].rec \in Nat /\ recs'[p].rec < From(d, want)
      BY <1>3, <3>1
    <3> QED BY <1>1, <1>3, <3>2, SMTT(30)
  <2>2. CASE p \in currentMsg + 1 .. currentMsg'
    BY <2>2, KeepsRecords
  <2> QED BY <1>2, <2>1, <2>2
<1>7. FlowInv'
  <2>1. Upto(d, want) \in Nat
    BY <1>1, <1>3
  <2>2. running # None => totalmsg' < running.next
    BY <1>2, <1>3, <2>1
  <2>3. running # None => \A p \in 1 .. currentMsg' : recs'[p].rec < running.next
    BY <1>3, <1>6, <2>1
  <2> QED BY <1>1, <1>2, <1>6, <2>2, <2>3, TurnFlow
<1>8. StoreInv'
  BY KeepsStore
<1>9. AnswerInv' /\ RefusedInv'
  BY <1>1 DEF IInv, AnswerInv, RefusedInv
<1>10. ASSUME "lost" \notin trouble'
       PROVE  WholeInv'
  <2>1. "lost" \notin trouble
    BY <1>1, <1>10
  <2>2. /\ totalmsg = currentMsg /\ d[1].form = "good"
        /\ From(d, want) = currentMsg + 1
        /\ \A p \in Stored : recs[p].rec = p
    <3>1. 1 \in 1 .. Len(queue)
      BY QueueLeft
    <3> QED BY <1>1, <2>1, <3>1 DEF IInv, WholeInv
  <2>3. New(d) = Len(d) /\ Skipped(d) = 0
    BY <1>1, <2>2 DEF New, Skipped
  <2>4. totalmsg' = currentMsg' /\ Upto(d, want) = currentMsg' + 1 /\ totalmsg' > 0
    BY <1>1, <1>2, <1>3, <2>2, <2>3
  <2>5. info' = (totalmsg' > 0)
    <3>1. info' = (d[1].form # "short") /\ d[1].form # "short"
      BY <2>2 DEF Keeps
    <3>2. info' = TRUE
      BY <3>1
    <3>3. (totalmsg' > 0) = TRUE
      BY <2>4
    <3> QED BY <3>2, <3>3
  <2>6. ASSUME NEW p \in 1 .. currentMsg'
        PROVE  recs'[p].rec = p
    <3>1. CASE p \in 1 .. currentMsg
      BY <2>2, <3>1, KeepsRecords DEF Stored
    <3>2. CASE p \in currentMsg + 1 .. currentMsg'
      <4>1. recs'[p].rec = From(d, want) + Skipped(d) + (p - currentMsg) - 1
        BY <3>2, KeepsRecords
      <4> QED BY <1>2, <2>2, <2>3, <4>1
    <3> QED BY <1>2, <3>1, <3>2
  <2> QED BY <1>1, <2>1, <2>4, <2>5, <2>6, TurnWhole
<1>11. WholeInv'
  BY <1>10 DEF WholeInv
<1> QED BY <1>4, <1>5, <1>7, <1>8, <1>9, <1>11 DEF IInv

LEMMA ReceiveStep ==
  ASSUME IInv, Receive
  PROVE  IInv'
<1>1. PICK d : Takes(d) /\ Len(d) \in Nat \ {0} /\ (Ends(d) \/ Skips(d) \/ Keeps(d))
  BY Turn
<1>2. CASE Ends(d)
  BY <1>1, <1>2, EndsStep
<1>3. CASE Skips(d)
  BY <1>1, <1>3, SkipsStep
<1>4. CASE Keeps(d)
  BY <1>1, <1>4, KeepsStep
<1> QED BY <1>1, <1>2, <1>3, <1>4

-----------------------------------------------------------------------------
(***************************************************************************)
(* The inductive invariant.                                                *)
(***************************************************************************)

LEMMA InitIInv == Init => IInv
<1> SUFFICES ASSUME Init
             PROVE  IInv
  OBVIOUS
<1>1. TypeOK
  <2>1. Requests \in Nat /\ BufferSize \in Nat
    BY NetlinkDumpAssumption
  <2>2. 0 \in 0 .. Requests /\ 0 \in 0 .. BufferSize /\ 0 \in 0 .. 0
    BY <2>1
  <2> QED BY <2>1, <2>2 DEF Init, TypeOK
<1>2. ShapeInv
  <2>1. queue = << >> /\ recs = << >> /\ running = None /\ answer = None
    BY DEF Init
  <2>2. queue \in Seq(Seq(Messages)) /\ recs \in Seq(Slots) /\ Len(queue) = 0
    BY <2>1
  <2> QED BY <2>1, <2>2 DEF ShapeInv
<1>3. FlowInv /\ StoreInv /\ AnswerInv /\ RefusedInv /\ WholeInv
  BY DEF Init, FlowInv, StoreInv, AnswerInv, RefusedInv, WholeInv
<1> QED BY <1>1, <1>2, <1>3 DEF IInv

LEMMA StutterIInv ==
  ASSUME IInv, UNCHANGED vars
  PROVE  IInv'
<1>1. UNCHANGED << sequence_number, want, running, queue, pc, rcvbufsize, moves, offset,
                   totalmsg, currentMsg, recs, info, answer, trouble >>
  BY DEF vars, kernel, buffer, store
<1>2. TypeOK' /\ ShapeInv'
  BY <1>1 DEF IInv, TypeOK, ShapeInv
<1>3. FlowInv' /\ RefusedInv'
  BY <1>1 DEF IInv, FlowInv, RefusedInv, Own, Stored
<1>4. StoreInv' /\ AnswerInv'
  BY <1>1 DEF IInv, StoreInv, AnswerInv, Stored
<1>5. WholeInv'
  BY <1>1 DEF IInv, WholeInv, Own, Stored
<1> QED BY <1>2, <1>3, <1>4, <1>5 DEF IInv

\* The records asked for pass, each once and in order, from the running dump
\* through the socket's queue into the array.
THEOREM Inductive == Spec => []IInv
<1>1. Init => IInv
  BY InitIInv
<1>2. IInv /\ [Next]_vars => IInv'
  BY KernelStep, RequestStep, RequestFailsStep, ReceiveStep, ReceiveFailsStep, StutterIInv
     DEF Next, Client
<1> QED BY <1>1, <1>2, PTL DEF Spec

\* The counts and sizes of the buffer and the array keep their types; what is
\* stored never exceeds what is counted, and what is in use of the buffer is in it.
THEOREM TypeCorrect == Spec => []TypeOK
<1>1. IInv => TypeOK
  BY DEF IInv
<1> QED BY <1>1, Inductive, PTL

\* A caller that reads an array up to its null record stays in it, for every
\* size the buffer and the array had before.
THEOREM AnswersTerminated == Spec => []Terminated
<1>1. IInv => Terminated
  <2> SUFFICES ASSUME IInv, Answered
               PROVE  \E i \in DOMAIN answer : answer[i] = Null
    BY DEF Terminated
  <2>1. answer # None /\ answer = recs /\ info
    BY DEF IInv, AnswerInv, Answered
  <2>2. currentMsg < Len(recs) /\ recs[currentMsg + 1] = Null
    BY <2>1 DEF IInv, StoreInv
  <2>3. DOMAIN recs = 1 .. Len(recs) /\ Len(recs) \in Nat
    BY DEF IInv, ShapeInv
  <2>4. currentMsg + 1 \in DOMAIN recs
    BY <2>2, <2>3 DEF IInv, TypeOK
  <2> QED BY <2>1, <2>2, <2>4
<1> QED BY <1>1, Inductive, PTL

-----------------------------------------------------------------------------
(***************************************************************************)
(* What a caller reads.                                                    *)
(***************************************************************************)

\* The walk over an array whose first null record is behind n others.
LEMMA ReadIs ==
  ASSUME NEW a \in Seq(Slots), NEW n \in Nat, n < Len(a), a[n + 1] = Null,
         \A p \in 1 .. n : a[p].rec # 0
  PROVE  Read(a) \in Seq(Slots) /\ Len(Read(a)) = n /\ \A p \in 1 .. n : Read(a)[p] = a[p]
<1> DEFINE I == {i \in 1 .. Len(a) : a[i] = Null}
<1>1. Null.rec = 0
  BY DEF Null, Slot
<1>2. Len(a) \in Nat /\ n + 1 \in 1 .. Len(a)
  OBVIOUS
<1>3. \A i \in I : n + 1 =< i
  BY <1>1, <1>2
<1>4. I \in SUBSET Int /\ n + 1 \in I
  BY <1>2
<1>5. Min(I) = n + 1
  <2> HIDE DEF I
  <2> QED BY <1>3, <1>4, MinIs
<1>6. Read(a) = SubSeq(a, 1, IF I = {} THEN 0 - 1 ELSE Min(I) - 1)
  BY <1>4 DEF Read, SelectInSeq
<1>7. Read(a) = SubSeq(a, 1, n)
  <2>1. I # {} /\ Min(I) - 1 = n
    BY <1>4, <1>5
  <2> HIDE DEF I
  <2> QED BY <1>6, <2>1
<1> QED BY <1>2, <1>7

\* An answer is the stored records.
LEMMA AnswerRead ==
  ASSUME IInv, answer # None
  PROVE  /\ want \in Nat /\ currentMsg \in Nat /\ info /\ answer = recs
         /\ Read(answer) \in Seq(Slots) /\ Len(Read(answer)) = currentMsg
         /\ \A p \in 1 .. currentMsg : Read(answer)[p] = recs[p]
<1>1. answer = recs /\ info /\ recs \in Seq(Slots) /\ currentMsg \in Nat
  BY DEF IInv, AnswerInv, ShapeInv, TypeOK
<1>2. /\ want # None /\ currentMsg < Len(recs) /\ recs[currentMsg + 1] = Null
      /\ \A p \in 1 .. currentMsg : recs[p].rec \in p .. want
  BY <1>1 DEF IInv, StoreInv, Stored
<1>3. want \in Nat
  BY <1>2 DEF IInv, TypeOK
<1>4. \A p \in 1 .. currentMsg : recs[p].rec # 0
  BY <1>1, <1>2, <1>3
<1> QED BY <1>1, <1>2, <1>3, <1>4, ReadIs

\* The records a caller reads are those of its own request, in the kernel's
\* order and none twice, whatever else arrived on the socket.
THEOREM AnswersOwnRecords == Spec => []OwnRecords
<1>1. IInv => OwnRecords
  <2> SUFFICES ASSUME IInv, Answered, NEW i \in DOMAIN Read(answer)
               PROVE  /\ Read(answer)[i].seq = sequence_number
                      /\ Read(answer)[i].rec \in 1 .. want
                      /\ i > 1 => Read(answer)[i - 1].rec < Read(answer)[i].rec
    BY DEF OwnRecords
  <2>1. answer # None
    BY DEF Answered
  <2>2. /\ want \in Nat /\ currentMsg \in Nat
        /\ Read(answer) \in Seq(Slots) /\ Len(Read(answer)) = currentMsg
        /\ \A p \in 1 .. currentMsg : Read(answer)[p] = recs[p]
    BY <2>1, AnswerRead
  <2>3. i \in 1 .. currentMsg /\ i \in Nat
    BY <2>2
  <2>4. \A p \in 1 .. currentMsg :
          /\ recs[p].rec \in p .. want /\ recs[p].seq = sequence_number
          /\ \A q \in 1 .. currentMsg : p < q => recs[p].rec < recs[q].rec
    BY <2>1 DEF IInv, StoreInv, Stored
  <2>5. i > 1 => i - 1 \in 1 .. currentMsg /\ i - 1 < i
    <3>1. \A c \in Nat : \A j \in 1 .. c : j > 1 => j - 1 \in 1 .. c /\ j - 1 < j
      OBVIOUS
    <3> QED BY <2>2, <2>3, <3>1
  <2>6. recs[i].rec \in 1 .. want
    BY <2>2, <2>3, <2>4
  <2> QED BY <2>2, <2>3, <2>4, <2>5, <2>6
<1> QED BY <1>1, Inductive, PTL

-----------------------------------------------------------------------------
(***************************************************************************)
(* The steps of the abstract service.                                      *)
(***************************************************************************)

Asked == IF pc = "idle" THEN None ELSE IF want = None THEN 0 ELSE want

Shown == IF answer = None THEN None
         ELSE [i \in DOMAIN Read(answer) |->
                 IF Read(answer)[i].at = moves THEN Read(answer)[i].rec ELSE 0]

\* A dump that lost nothing ends when all its records are stored.
LEMMA EndsWhole ==
  ASSUME IInv, NEW d, Takes(d), Len(d) \in Nat \ {0}, ~EnumMsg(d, {}),
         "lost" \notin trouble
  PROVE  want \in Nat /\ currentMsg = want
<1>1. pc = "recv" /\ Datagram(d) /\ sequence_number \in Nat /\ currentMsg \in Nat
  BY DEF Takes, IInv, TypeOK
<1>2. want # None /\ want \in Nat
  BY <1>1 DEF IInv, RefusedInv, TypeOK
<1>3. 1 \in 1 .. Len(queue) /\ queue[1] = d
  BY QueueLeft DEF Takes
<1>4. /\ Own(d) /\ ~d[1].intr /\ (Len(d) > 1 => Size(d) = Len(d))
      /\ From(d, want) = currentMsg + 1
  BY <1>1, <1>3 DEF IInv, WholeInv
<1>5. d[1].type # "error"
  BY <1>1, <1>2, <1>3, <1>4 DEF IInv, FlowInv
<1>6. d[1].type \in {"data", "done", "noop", "error"}
  BY <1>1, SizeType DEF Messages
<1>7. Stops(d[1], {})
  <2> SUFFICES ASSUME ~Stops(d[1], {})
               PROVE  FALSE
    OBVIOUS
  <2>1. "good" \notin {}
    OBVIOUS
  <2>2. d[1].type = "data" /\ d[Len(d)].type # "data"
    BY <1>1, <1>4, <2>1, WalkedDatagram
  <2>3. Size(d) # Len(d)
    BY <2>2 DEF Size
  <2>4. ~(Len(d) > 1)
    BY <1>4, <2>3
  <2>5. \A n \in Nat \ {0} : ~(n > 1) => n = 1
    OBVIOUS
  <2>6. Len(d) = 1
    BY <2>4, <2>5
  <2> QED BY <2>2, <2>6
<1>8. ~(d[1].type = "noop" /\ ~d[1].intr)
  BY <1>1, <1>7, StoppedDatagram
<1>9. d[1].type = "done"
  BY <1>4, <1>5, <1>6, <1>7, <1>8 DEF Stops
<1>10. From(d, want) = want + 1
  BY <1>9 DEF From
<1> QED BY <1>1, <1>2, <1>4, <1>10

\* What GetInfo returns is an answer of the service.
LEMMA ReturnReplies ==
  ASSUME IInv, IInv', pc = "recv", Return(info),
         UNCHANGED << sequence_number, want, currentMsg, recs, info >>,
         trouble \subseteq trouble',
         "lost" \notin trouble' => want \in Nat /\ currentMsg = want
  PROVE  Shown' \in Service!Answers(Asked, trouble')
<1>1. /\ pc' = "idle" /\ answer' = (IF info THEN recs ELSE None) /\ answer = None
      /\ trouble' \subseteq {"lost", "moved"}
  BY DEF Return, IInv, AnswerInv, TypeOK
<1>2. currentMsg \in Nat /\ (want # None => want \in Nat)
  BY DEF IInv, TypeOK
<1>3. None \notin Nat
  BY NetlinkDumpAssumption
<1>4. Asked = IF want = None THEN 0 ELSE want
  BY DEF Asked
<1>5. "lost" \notin trouble' => info = (currentMsg > 0)
  BY DEF IInv, WholeInv
<1>6. CASE ~info
  <2>1. Shown' = None
    BY <1>1, <1>6 DEF Shown
  <2>2. "lost" \notin trouble' => Asked = 0
    <3> SUFFICES ASSUME "lost" \notin trouble'
                 PROVE  Asked = 0
      OBVIOUS
    <3>1. want \in Nat /\ want # None /\ currentMsg = want
      BY <1>3
    <3>2. ~(currentMsg > 0)
      BY <1>5, <1>6
    <3>3. want = 0
      BY <3>1, <3>2
    <3> QED BY <1>4, <3>3
  <2>3. trouble' = {} => Service!Answers(Asked, trouble') = {None}
    BY <2>2 DEF Service!Answers, Service!Whole
  <2>4. trouble' # {} => None \in Service!Answers(Asked, trouble')
    BY <2>2 DEF Service!Answers
  <2> QED BY <2>1, <2>3, <2>4
<1>7. CASE info
  <2>1. answer' # None /\ answer' = recs
    BY <1>1, <1>7, NetlinkDumpAssumption DEF IInv, ShapeInv, Slots
  <2>2. /\ recs \in Seq(Slots) /\ want \in Nat /\ want # None
        /\ currentMsg < Len(recs) /\ recs[currentMsg + 1] = Null
        /\ \A p \in 1 .. currentMsg :
             /\ recs[p].rec \in p .. want
             /\ "moved" \notin trouble' => recs[p].at = moves'
             /\ \A q \in 1 .. currentMsg : p < q => recs[p].rec < recs[q].rec
    <3>1. /\ recs' = recs /\ currentMsg' = currentMsg /\ want' = want /\ info'
          /\ recs \in Seq(Slots)
      BY <1>7 DEF IInv, ShapeInv
    <3>2. StoreInv'
      BY DEF IInv
    <3>3. /\ want # None /\ currentMsg < Len(recs) /\ recs[currentMsg + 1] = Null
          /\ \A p \in 1 .. currentMsg :
               /\ recs[p].rec \in p .. want
               /\ "moved" \notin trouble' => recs[p].at = moves'
               /\ \A q \in 1 .. currentMsg : p < q => recs[p].rec < recs[q].rec
      BY <2>1, <3>1, <3>2 DEF StoreInv, Stored
    <3> QED BY <1>2, <3>1, <3>3
  <2>3. \A p \in 1 .. currentMsg : /\ p \in Nat /\ p > 0 /\ recs[p].rec \in Nat
                                   /\ recs[p].rec # 0
                                   /\ p =< recs[p].rec /\ recs[p].rec =< want
    BY <1>2, <2>2
  <2>4. /\ Read(recs) \in Seq(Slots) /\ Len(Read(recs)) = currentMsg
        /\ \A p \in 1 .. currentMsg : Read(recs)[p] = recs[p]
    BY <1>2, <2>2, <2>3, ReadIs
  <2> DEFINE a == [i \in 1 .. currentMsg |-> IF recs[i].at = moves' THEN recs[i].rec ELSE 0]
  <2>5. Shown' = a
    <3>1. DOMAIN Read(recs) = 1 .. currentMsg
      BY <2>4
    <3> QED BY <2>1, <2>4, <3>1 DEF Shown
  <2>6. /\ a \in [1 .. currentMsg -> 0 .. want]
        /\ DOMAIN a = 1 .. currentMsg
        /\ \A i \in 1 .. currentMsg :
             a[i] = IF recs[i].at = moves' THEN recs[i].rec ELSE 0
    <3>1. \A i \in 1 .. currentMsg :
            (IF recs[i].at = moves' THEN recs[i].rec ELSE 0) \in 0 .. want
      BY <2>2, <2>3
    <3> QED BY <3>1
  <2>7. a \in Seq(0 .. want) /\ Len(a) = currentMsg
    <3> HIDE DEF a
    <3> QED BY <1>2, <2>6, FcnIsSeq
  <2> HIDE DEF a
  <2>8. currentMsg =< want /\ Asked = want
    <3>1. CASE currentMsg = 0
      BY <1>4, <2>2, <3>1
    <3>2. CASE currentMsg # 0
      <4>1. currentMsg \in 1 .. currentMsg
        BY <1>2, <3>2
      <4>2. /\ recs[currentMsg].rec \in Nat
            /\ currentMsg =< recs[currentMsg].rec /\ recs[currentMsg].rec =< want
        BY <2>3, <4>1
      <4>3. want \in Nat
        BY <2>2
      <4>4. currentMsg =< want
        BY <1>2, <4>2, <4>3
      <4> QED BY <1>4, <2>2, <4>4
    <3> QED BY <3>1, <3>2
  <2>9. Service!Rising(a)
    BY <2>2, <2>6 DEF Service!Rising
  <2>10. a \in Service!SeqOf(0 .. want, want)
    <3>1. currentMsg \in 0 .. want
      BY <1>2, <2>2, <2>8
    <3> QED BY <2>6, <3>1 DEF Service!SeqOf
  <2>11. "moved" \notin trouble' => \A i \in 1 .. currentMsg : a[i] = recs[i].rec /\ a[i] # 0
    BY <2>2, <2>3, <2>6
  <2>12. "moved" \notin trouble' => 0 \notin Service!ToSet(a)
    BY <2>6, <2>11 DEF Service!ToSet
  <2>13. CASE trouble' = {}
    <3>1. currentMsg = want /\ want # 0
      <4>1. currentMsg > 0 /\ currentMsg = want
        BY <1>5, <1>7, <2>13
      <4> QED BY <2>2, <4>1
    <3>2. \A p \in 1 .. currentMsg : recs[p].rec = p
      BY <2>13 DEF IInv, WholeInv, Stored
    <3>3. a = [i \in 1 .. want |-> i]
      BY <2>6, <2>11, <2>13, <3>1, <3>2
    <3>4. a = Service!Whole(want)
      BY <3>1, <3>3 DEF Service!Whole
    <3> QED BY <2>5, <2>8, <2>13, <3>4 DEF Service!Answers
  <2>14. CASE trouble' # {}
    <3>1. "lost" \notin trouble' => Len(a) = want
      BY <2>7
    <3> QED BY <2>5, <2>8, <2>9, <2>10, <2>12, <2>14, <3>1 DEF Service!Answers
  <2> QED BY <2>13, <2>14
<1> QED BY <1>6, <1>7

LEMMA KernelDisturbs ==
  ASSUME IInv, KernelSends \/ KernelSendsNoop
  PROVE  Service!Next
<1>1. PICK d : Adds(d) /\ Carries(d)
  BY SendsCarries, NoopCarries DEF IInv
<1>2. /\ UNCHANGED << want, pc, answer, moves >>
      /\ trouble \subseteq trouble' /\ trouble' \in SUBSET {"lost", "moved"}
  BY <1>1 DEF Adds, Carries, buffer, IInv, TypeOK
<1>3. Asked' = Asked /\ Shown' = Shown
  BY <1>2 DEF Asked, Shown
<1> QED BY <1>2, <1>3 DEF Service!Next, Service!Disturb, Asked, Shown

LEMMA RequestAsks ==
  ASSUME IInv, Request
  PROVE  Service!Next
<1>1. /\ pc = "idle" /\ pc' = "recv" /\ answer' = None /\ trouble' \in {{}, {"lost"}}
      /\ want' \in 0 .. MaxRecs \/ want' = None
  BY DEF Request
<1>2. Asked = None /\ Asked' \in 0 .. MaxRecs /\ Shown' = None
  <2>1. Asked = None
    BY <1>1 DEF Asked
  <2>2. Shown' = None
    BY <1>1 DEF Shown
  <2>3. Asked' = IF want' = None THEN 0 ELSE want'
    BY <1>1 DEF Asked
  <2>4. 0 \in 0 .. MaxRecs
    BY NetlinkDumpAssumption
  <2> QED BY <1>1, <2>1, <2>2, <2>3, <2>4
<1> QED BY <1>1, <1>2 DEF Service!Next, Service!Ask, Asked, Shown

LEMMA FailureRefuses ==
  ASSUME IInv, RequestFails
  PROVE  Service!Next
<1>1. pc = "idle" /\ pc' = "idle" /\ answer' = None /\ trouble' = {"lost"}
  BY DEF RequestFails, Return
<1>2. Asked = None /\ Asked' = None /\ Shown' = None
  BY <1>1 DEF Asked, Shown
<1> QED BY <1>1, <1>2 DEF Service!Next, Service!Refuse, Asked, Shown

LEMMA ReturnIsReply ==
  ASSUME IInv, IInv', pc = "recv", Return(info),
         UNCHANGED << sequence_number, want, currentMsg, recs, info >>,
         trouble \subseteq trouble',
         "lost" \notin trouble' => want \in Nat /\ currentMsg = want
  PROVE  Service!Next
<1>1. Shown' \in Service!Answers(Asked, trouble')
  BY ReturnReplies
<1>2. pc' = "idle" /\ (want # None => want \in Nat) /\ trouble' \in SUBSET {"lost", "moved"}
  BY DEF Return, IInv, TypeOK
<1>3. Asked' = None /\ Asked # None
  <2>1. Asked' = None
    BY <1>2 DEF Asked
  <2>2. Asked = IF want = None THEN 0 ELSE want
    BY DEF Asked
  <2>3. 0 # None
    BY NetlinkDumpAssumption
  <2> QED BY <2>1, <2>2, <2>3
<1> QED BY <1>1, <1>2, <1>3 DEF Service!Next, Service!Reply, Asked, Shown

LEMMA ReceiveReplies ==
  ASSUME IInv, IInv', Receive
  PROVE  Service!Next
<1>1. PICK d : Takes(d) /\ Len(d) \in Nat \ {0} /\ (Ends(d) \/ Skips(d) \/ Keeps(d))
  BY Turn
<1>2. /\ pc = "recv" /\ UNCHANGED << sequence_number, want >> /\ trouble \subseteq trouble'
      /\ trouble' \in SUBSET {"lost", "moved"} /\ answer = None
  BY <1>1 DEF Takes, IInv, TypeOK, AnswerInv
<1>3. CASE Ends(d)
  <2>1. "lost" \notin trouble' => want \in Nat /\ currentMsg = want
    BY <1>1, <1>2, <1>3, EndsWhole DEF Ends
  <2>2. Return(info) /\ UNCHANGED << currentMsg, recs, info >>
    BY <1>3 DEF Ends
  <2> QED BY <1>2, <2>1, <2>2, ReturnIsReply
<1>4. CASE Skips(d) \/ Keeps(d)
  <2>1. pc' = pc /\ answer' = None
    BY <1>2, <1>4 DEF Skips, Keeps
  <2>2. Asked' = Asked /\ Shown' = Shown
    BY <1>2, <2>1 DEF Asked, Shown
  <2> QED BY <1>2, <2>2 DEF Service!Next, Service!Disturb, Asked, Shown
<1> QED BY <1>1, <1>3, <1>4

LEMMA FailureReplies ==
  ASSUME IInv, IInv', ReceiveFails
  PROVE  Service!Next
<1>1. /\ pc = "recv" /\ Return(info) /\ trouble' = trouble \cup {"lost"}
      /\ UNCHANGED << sequence_number, want, currentMsg, recs, info >>
  BY DEF ReceiveFails, store
<1> QED BY <1>1, ReturnIsReply

\* Every request is answered with the kernel's records, in order and all of
\* them, unless messages were lost or the buffer moved under them: each step of
\* the socket is one of the service or changes nothing of it.
THEOREM StepsImplement == Spec => Service!Init /\ [][Service!Next]_(Service!vars)
<1>1. Init => Service!Init
  BY DEF Init, Service!Init
<1>2. IInv /\ IInv' /\ [Next]_vars => [Service!Next]_(Service!vars)
  <2> SUFFICES ASSUME IInv, IInv', [Next]_vars
               PROVE  Service!Next \/ UNCHANGED Service!vars
    OBVIOUS
  <2>1. CASE Next
    BY <2>1, KernelDisturbs, RequestAsks, FailureRefuses, ReceiveReplies, FailureReplies
       DEF Next, Client
  <2>2. CASE UNCHANGED vars
    <3>1. UNCHANGED << want, pc, answer, moves, trouble >>
      BY <2>2 DEF vars, buffer
    <3>2. Asked' = Asked /\ Shown' = Shown
      BY <3>1 DEF Asked, Shown
    <3> QED BY <3>1, <3>2 DEF Service!vars, Asked, Shown
  <2> QED BY <2>1, <2>2
<1> QED BY <1>1, <1>2, Inductive, PTL DEF Spec

=============================================================================
