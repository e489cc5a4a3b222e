----------------------------- MODULE NetlinkDump -----------------------------
(***************************************************************************)
(* common/netlink.c: one NETLINK_ROUTE socket and the dump requests made   *)
(* on it one after the other (GetInfo and what it calls), with the kernel  *)
(* on the other side.                                                      *)
(*                                                                         *)
(* All datagrams of a dump are gathered in one buffer; a record is a       *)
(* pointer into it.  Each datagram is walked twice by EnumMsg, first to    *)
(* count its messages, then to append their records to an array that is    *)
(* reallocated for the new count.  EnumMsg answers FALSE when it met the   *)
(* end of the dump, and GetInfo stops at the first FALSE.                  *)
(***************************************************************************)
EXTENDS Naturals, Sequences, FiniteSets, SequencesExt

CONSTANTS
  Requests,   \* bound: dumps requested on the socket
  MaxRecs,    \* bound: records the kernel has for one of them
  BufferSize, \* NETLINK_RECV_BUFFER_SIZE, in messages
  Forms,      \* forms of messages the kernel sends, see ProcessMsg
  Faults,     \* what may go wrong, see the actions
  None        \* a null pointer

ASSUME NetlinkDumpAssumption ==
  /\ Requests \in Nat /\ MaxRecs \in Nat /\ BufferSize \in Nat \ {0}
  /\ Forms \subseteq {"good", "cut", "short"} /\ "good" \in Forms
  /\ Faults \subseteq {"interrupted", "done_with_data", "send", "recv", "noop"}
  /\ None \notin Nat \cup Seq(Nat) \cup Seq([rec : Nat, seq : Nat, at : Nat])
  /\ None \notin [seq : Nat, next : Nat, last : Nat, intr : BOOLEAN]

VARIABLES
  sequence_number, \* of the last request
  want,            \* records the kernel has for it, None: refused or not sent
  running,         \* the kernel's dump in progress, None: no dump
  queue,           \* datagrams in the socket's receive queue
  pc,              \* "idle", or "recv" inside GetInfo
  rcvbufsize,      \* room in the buffer
  moves,           \* times realloc has moved the buffer
  offset,          \* part of the buffer that is in use
  totalmsg,        \* messages counted
  currentMsg,      \* records stored
  recs,            \* the array of records
  info,            \* GetInfo has an array to return
  answer,          \* what the last GetInfo returned, until the next one
  trouble          \* history: what went wrong since the last request, see Dump

kernel == << running, queue >>
buffer == << rcvbufsize, moves, offset >>
store  == << totalmsg, currentMsg, recs, info >>
vars   == << sequence_number, want, pc, answer, kernel, buffer, store, trouble >>

\* Slots of the array: not written for this request, the terminating null
\* record, or a record and the place of the buffer it points into.
Slot(rec, seq, at) == [rec |-> rec, seq |-> seq, at |-> at]
Junk == Slot(0, 0, 0)
Null == Slot(0, 0, 1)

-----------------------------------------------------------------------------
(***************************************************************************)
(* The kernel.                                                             *)
(***************************************************************************)

Message(seq, type, rec, form, intr) ==
  [seq |-> seq, type |-> type, rec |-> rec, form |-> form, intr |-> intr]

Trouble(kind, cond) == trouble' = IF cond THEN trouble \cup {kind} ELSE trouble

Done(seq, intr) == Message(seq, "done", 0, "good", intr)

\* A datagram with the next records of the running dump, or with its end.  The
\* dump may have been interrupted by a change of what is dumped; all messages
\* built after that say so.  Newer kernels put the end with the last records.
KernelSends ==
  LET r == running
  IN  /\ running # None
      /\ \E intr \in IF "interrupted" \in Faults THEN {r.intr, TRUE} ELSE {r.intr} :
           \/ /\ r.next > r.last
              /\ queue' = Append(queue, << Done(r.seq, intr) >>)
              /\ running' = None
              /\ Trouble("lost", intr)
           \/ \E to \in r.next .. r.last, form \in Forms :
                LET data == [i \in 1 .. to + 1 - r.next |->
                               Message(r.seq, "data", r.next + i - 1,
                                       IF i = 1 THEN form ELSE "good", intr)]
                IN  \/ /\ queue' = Append(queue, data)
                       /\ running' = [r EXCEPT !.next = to + 1, !.intr = intr]
                       /\ Trouble("lost", intr \/ form # "good")
                    \/ /\ to = r.last /\ "done_with_data" \in Faults
                       /\ queue' = Append(queue, Append(data, Done(r.seq, intr)))
                       /\ running' = None
                       /\ Trouble("lost", TRUE)
  /\ UNCHANGED << sequence_number, want, pc, answer, buffer, store >>

\* A datagram that says nothing, before the first records.
KernelSendsNoop ==
  /\ running # None /\ "noop" \in Faults
  /\ queue = << >> /\ running.next = 1
  /\ queue' = << << Message(running.seq, "noop", 0, "good", FALSE) >> >>
  /\ UNCHANGED << sequence_number, want, pc, answer, running, buffer, store, trouble >>

-----------------------------------------------------------------------------
(***************************************************************************)
(* EnumMsg.                                                                *)
(***************************************************************************)

\* Slip: the sequence number of a message is not compared.  Each Slip_ operator
\* is a plausible mistake some property must notice; no action uses one.
Slip_Ours(m) == TRUE

Ours(m) == m.seq = sequence_number

\* The loop ends at a message of ours that is no data or says the dump was
\* interrupted, or where the callback refuses the data.
Stops(m, refused) == Ours(m) /\ (m.intr \/ m.type # "data" \/ m.form \in refused)

\* The messages of a datagram, by their places, that the callback is called for
\* and accepts.
Walked(d, refused) ==
  {i \in DOMAIN d : Ours(d[i]) /\ \A j \in 1 .. i : ~Stops(d[j], refused)}

\* Where the walk stops, 0 when it goes through to the end.
Stop(d, refused) == SelectInSeq(d, LAMBDA m : Stops(m, refused))

\* Slip: the end of the dump is taken for more to come.
Slip_EnumMsg(d, refused) ==
  LET stop == Stop(d, refused)
  IN  IF stop = 0 THEN Ours(Last(d))
      ELSE d[stop].type \in {"noop", "done"} /\ ~d[stop].intr

EnumMsg(d, refused) ==
  LET stop == Stop(d, refused)
  IN  IF stop = 0 THEN Ours(Last(d))
      ELSE d[stop].type = "noop" /\ ~d[stop].intr

\* ProcessMsg refuses a message shorter than its header; one whose attributes
\* do not add up (FillAttr) is processed but not kept.
Refused == {"short"}

Kept(d) == {i \in Walked(d, Refused) : d[i].form = "good"}

\* The n-th number of the set I.
Nth(I, n) == CHOOSE i \in I : Cardinality({j \in I : j =< i}) = n

Resized(a, n) == [i \in 1 .. n |-> IF i > Len(a) THEN Junk ELSE a[i]]

\* Slip: no room for the null record.
Slip_Room(total) == IF total > currentMsg THEN Resized(recs, total) ELSE recs

\* realloc in ProcessRouteMsgs and its like: all messages counted, and the null
\* record.
Room(total) == IF total > currentMsg THEN Resized(recs, total + 1) ELSE recs

\* ProcessMsg has begun a record before it refuses the message.
Spoilt(d) ==
  LET stop == Stop(d, Refused)
  IN  stop # 0 /\ d[stop].type = "data" /\ ~d[stop].intr

\* The array after the second walk, whose records are stored one after the
\* other; what is written beyond its room is lost.
Appended(d, total) ==
  LET room   == Room(total)
      kept   == Kept(d)
      stored == currentMsg + Cardinality(kept)
      Record(m) == Slot(m.rec, m.seq, moves')
  IN  IF Walked(d, Refused) = {} /\ ~Spoilt(d) THEN room
      ELSE [i \in DOMAIN room |->
              CASE i \in currentMsg + 1 .. stored -> Record(d[Nth(kept, i - currentMsg)])
                [] i = stored + 1 -> IF Spoilt(d) THEN Junk ELSE Null
                [] OTHER -> room[i]]

-----------------------------------------------------------------------------
(***************************************************************************)
(* GetInfo.                                                                *)
(***************************************************************************)

\* The caller gets the array, which it reads up to the null record.
Return(found) == answer' = (IF found THEN recs ELSE None) /\ pc' = "idle"

\* Slip: the count of stored records goes on from the last dump.
Slip_ResetCount ==
  /\ totalmsg' = 0 /\ currentMsg' = currentMsg /\ offset' = 0
  /\ info' = FALSE
  /\ recs' = Resized(<< >>, Len(recs))

\* The start of GetInfo; what the array still holds means nothing any more.
Reset ==
  /\ totalmsg' = 0 /\ currentMsg' = 0 /\ offset' = 0
  /\ info' = FALSE
  /\ recs' = Resized(<< >>, Len(recs))

\* A request, refused with an error message while a dump is still running.  It
\* is built in the buffer, so that the records of the last answer are lost.
Request ==
  /\ pc = "idle" /\ sequence_number < Requests
  /\ sequence_number' = sequence_number + 1
  /\ Reset
  /\ pc' = "recv"
  /\ IF running = None
     THEN \E n \in 0 .. MaxRecs :
            /\ want' = n
            /\ running' = [seq |-> sequence_number', next |-> 1, last |-> n,
                           intr |-> FALSE]
            /\ UNCHANGED queue
     ELSE /\ want' = None
          /\ queue' = Append(queue, << Message(sequence_number', "error", 0,
                                               "good", FALSE) >>)
          /\ UNCHANGED running
  /\ answer' = None
  /\ trouble' = IF running # None \/ queue # << >> THEN {"lost"} ELSE {}
  /\ UNCHANGED << rcvbufsize, moves >>

\* send() failed.
RequestFails ==
  /\ pc = "idle" /\ sequence_number < Requests /\ "send" \in Faults
  /\ sequence_number' = sequence_number + 1
  /\ want' = None
  /\ trouble' = {"lost"}
  /\ Return(FALSE)
  /\ UNCHANGED << kernel, buffer, store >>

\* Slip: a datagram that just fits enlarges the buffer too.
Slip_Tune(need) ==
  IF need >= rcvbufsize
  THEN rcvbufsize' = need /\ moves' \in {moves, moves + 1}
  ELSE UNCHANGED << rcvbufsize, moves >>

\* netlink_recvmsg enlarges the buffer for a datagram; realloc may move it.
Tune(need) ==
  IF need > rcvbufsize
  THEN rcvbufsize' = need /\ moves' \in {moves, moves + 1}
  ELSE UNCHANGED << rcvbufsize, moves >>

\* One turn of GetInfo's loop: make room, take the datagram, walk it.
Receive ==
  LET d     == Head(queue)
      need  == offset + Len(d)
      total == totalmsg + Cardinality(Walked(d, {}))
  IN  /\ pc = "recv" /\ queue # << >>
      /\ queue' = Tail(queue)
      /\ Tune(need)
      /\ Trouble("moved", need > rcvbufsize)
      /\ totalmsg' = total
      /\ \/ /\ EnumMsg(d, {}) /\ total > 0
            /\ currentMsg' = currentMsg + Cardinality(Kept(d))
            /\ recs' = Appended(d, total)
            /\ info' = EnumMsg(d, Refused)
            /\ offset' = need
            /\ UNCHANGED << pc, answer >>
         \/ /\ EnumMsg(d, {}) /\ total = 0
            /\ UNCHANGED << pc, answer, offset, currentMsg, recs, info >>
         \/ /\ ~EnumMsg(d, {})
            /\ Return(info)
            /\ UNCHANGED << offset, currentMsg, recs, info >>
      /\ UNCHANGED << sequence_number, want, running >>

\* recvmsg() failed for another reason than a signal.
ReceiveFails ==
  /\ pc = "recv" /\ "recv" \in Faults
  /\ Return(info)
  /\ trouble' = trouble \cup {"lost"}
  /\ UNCHANGED << sequence_number, want, kernel, buffer, store >>

-----------------------------------------------------------------------------
Init ==
  /\ sequence_number = 0 /\ want = None
  /\ running = None /\ queue = << >>
  /\ pc = "idle"
  /\ rcvbufsize = BufferSize /\ moves = 0 /\ offset = 0
  /\ totalmsg = 0 /\ currentMsg = 0 /\ recs = << >> /\ info = FALSE
  /\ answer = None /\ trouble = {}

Client == Request \/ RequestFails \/ Receive \/ ReceiveFails

Next == KernelSends \/ KernelSendsNoop \/ Client

\* The kernel goes on with a dump, and GetInfo is not suspended for good.
Fairness == WF_vars(KernelSends) /\ WF_vars(Receive)

Spec == Init /\ [][Next]_vars /\ Fairness

-----------------------------------------------------------------------------
(***************************************************************************)
(* Properties.                                                             *)
(***************************************************************************)

\* A type invariant; nothing else is claimed by it.
TypeOK ==
  /\ sequence_number \in 0 .. Requests
  /\ want \in (0 .. MaxRecs) \cup {None}
  /\ pc \in {"idle", "recv"}
  /\ rcvbufsize \in Nat /\ moves \in Nat /\ offset \in 0 .. rcvbufsize
  /\ totalmsg \in Nat /\ currentMsg \in 0 .. totalmsg
  /\ info \in BOOLEAN
  /\ trouble \subseteq {"lost", "moved"}

\* The records a caller reads from the array.
Read(array) == SubSeq(array, 1, SelectInSeq(array, LAMBDA s : s = Null) - 1)
Answered    == pc = "idle" /\ answer # None

\* The caller's walk ends at a null record inside the array, whatever sizes the
\* array had for earlier datagrams and dumps ("last record is always NULL").
Terminated ==
  Answered => \E i \in DOMAIN answer : answer[i] = Null

\* What it meets before are records of the dump it asked for, in the kernel's
\* order and none twice: nothing uninitialised, nothing of an earlier dump
\* whose messages were still queued.
OwnRecords ==
  Answered =>
    LET r == Read(answer)
    IN  \A i \in DOMAIN r :
          /\ r[i].seq = sequence_number
          /\ r[i].rec \in 1 .. want
          /\ i > 1 => r[i - 1].rec < r[i].rec

\* An answer has all records up to the end of the dump.
WholeDump == Answered => Len(Read(answer)) = want

\* GetInfo returns: no fault makes it wait for a datagram that never comes.
Returns == pc = "recv" ~> pc = "idle"

\* The abstract service.  A record is read through its pointer: 0 when realloc
\* has moved the buffer since.
Service == INSTANCE Dump WITH
  asked  <- IF pc = "idle" THEN None ELSE IF want = None THEN 0 ELSE want,
  answer <- IF answer = None THEN None
            ELSE [i \in DOMAIN Read(answer) |->
                    IF Read(answer)[i].at = moves THEN Read(answer)[i].rec ELSE 0]

\* Every request is answered; with all its records, unless the kernel or the
\* socket lost some; and with records that can be read, unless a datagram had
\* to enlarge the buffer.  Nothing that went wrong with an earlier request and
\* left nothing behind on the socket shows in a later answer.
Implements == Service!Spec
=============================================================================
