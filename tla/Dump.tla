-------------------------------- MODULE Dump --------------------------------
(***************************************************************************)
(* What a user of netlink.c needs of GetRoutes, GetRules, GetNeighbors,    *)
(* GetLinks and GetAddr: a request is answered with every record the       *)
(* kernel had for it, in order; with no records the answer is the null     *)
(* pointer.  When the kernel or the socket loses messages the answer has   *)
(* some of the records, and when the buffer had to be moved some of them   *)
(* cannot be read any more.  NetlinkDump implements this.                  *)
(***************************************************************************)
EXTENDS Naturals, Sequences, SequencesExt

CONSTANTS
  MaxRecs,  \* bound: records in one dump
  None      \* the null pointer, and no request

VARIABLES
  asked,    \* number of records the kernel has for the open request
  answer,   \* what the last request returned: indices of records, 0 unreadable;
            \* it can be used until the next request
  trouble   \* what went wrong: "lost" messages, a "moved" buffer

vars == << asked, answer, trouble >>

Whole(n) == IF n = 0 THEN None ELSE [i \in 1 .. n |-> i]

Rising(a) == \A i, j \in DOMAIN a : i < j /\ a[i] # 0 /\ a[j] # 0 => a[i] < a[j]

\* What may be answered when n records are asked for.
Answers(n, wrong) ==
  IF wrong = {} THEN {Whole(n)}
  ELSE (IF "lost" \in wrong \/ n = 0 THEN {None} ELSE {})
         \cup {a \in SeqOf(0 .. n, n) :
                 /\ Rising(a)
                 /\ "lost" \notin wrong => Len(a) = n
                 /\ "moved" \notin wrong => 0 \notin ToSet(a)}

Init == asked = None /\ answer = None /\ trouble = {}

\* The next request; the records of the last answer are lost.
Ask == /\ asked = None
       /\ asked' \in 0 .. MaxRecs
       /\ trouble' \in {{}, {"lost"}}
       /\ answer' = None

\* The request could not be sent.
Refuse == /\ asked = None
          /\ answer' = None /\ trouble' = {"lost"}
          /\ UNCHANGED asked

\* Something goes wrong; it may be with what an earlier request left running.
Disturb == /\ trouble' \in SUBSET {"lost", "moved"} /\ trouble \subseteq trouble'
           /\ UNCHANGED << asked, answer >>

Reply == /\ asked # None
         /\ trouble' \in SUBSET {"lost", "moved"} /\ trouble \subseteq trouble'
         /\ answer' \in Answers(asked, trouble')
         /\ asked' = None

Next == Ask \/ Refuse \/ Disturb \/ Reply

Spec == Init /\ [][Next]_vars /\ WF_vars(Reply)
=============================================================================
