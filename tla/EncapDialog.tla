----------------------------- MODULE EncapDialog -----------------------------
(***************************************************************************)
(* netcfgiproutes.cpp and netroute.cpp: the encapsulation of a route or of *)
(* a next hop, the dialog that edits it (SelectEncap), and what a command  *)
(* says of it (GetEncap).                                                  *)
(*                                                                         *)
(* The data of the types share their memory: the valid bits are the same   *)
(* bits, and what was written for one type is read anew for another.       *)
(* "addr" stands for src and dst, "flag" for csum, key and seq; the        *)
(* options of the tunnel flags are left out.                               *)
(***************************************************************************)
EXTENDS Naturals

CONSTANTS
  MaxValue, \* bound: texts and numbers are 0 .. MaxValue, 0: empty; a text's length
  Unset     \* memory nobody wrote, or wrote as something else

Value == 0 .. MaxValue

IpTypes    == {"ip", "ip6"}
MplsFields == {"label", "mttl"}
IpFields   == {"id", "ttl", "hoplimit", "tos", "tc", "addr", "flag"}
EncTypes   == {"none", "mpls", "other"} \cup IpTypes

Fields(type) == CASE type = "mpls"      -> MplsFields
                  [] type \in IpTypes   -> IpFields
                  [] OTHER              -> {}

\* The place of a field's valid bit.
Bit == [mttl |-> 0, label |-> 1,
        id |-> 0, ttl |-> 1, tos |-> 2, hoplimit |-> 3, tc |-> 4, addr |-> 5, flag |-> 7]

Valid(enc, f) == Bit[f] \in enc.valid

Encs == [type : EncTypes, valid : SUBSET (0 .. 7),
         val : [MplsFields \cup IpFields -> Value \cup {Unset}]]

NoEncap == [type |-> "none", valid |-> {}, val |-> [f \in MplsFields \cup IpFields |-> 0]]

-----------------------------------------------------------------------------
(***************************************************************************)
(* The dialog.                                                             *)
(***************************************************************************)

\* One widget shows ttl or hoplimit, another tos or tc.
EncWidgets == (MplsFields \cup IpFields) \ {"hoplimit", "tc"}

\* Those that are visible for a type.
WidgetsOf(type) == Fields(type) \cap EncWidgets

\* Slip: what is typed for an ip6 encapsulation goes to the fields of ip.
Slip_Behind(type, widget) == widget

Behind(type, widget) ==
  CASE widget = "ttl" /\ type = "ip6" -> "hoplimit"
    [] widget = "tos" /\ type = "ip6" -> "tc"
    [] OTHER                          -> widget

\* What the widgets show: of an ip or ip6 encapsulation every valid field,
\* hoplimit and tc last.
ShownIn(enc, f) ==
  LET over == CASE f = "ttl" -> "hoplimit" [] f = "tos" -> "tc" [] OTHER -> f
  IN  IF f \notin Fields(enc.type) THEN 0
      ELSE IF Valid(enc, over) THEN enc.val[over]
      ELSE IF Valid(enc, f) THEN enc.val[f] ELSE 0

\* A widget's field of the other ip type is valid, after the type was changed.
Foreign(enc, f) == CASE f = "ttl" -> Valid(enc, IF enc.type = "ip6" THEN "ttl" ELSE "hoplimit")
                     [] f = "tos" -> Valid(enc, IF enc.type = "ip6" THEN "tos" ELSE "tc")
                     [] OTHER     -> FALSE

ShownEnc(enc) == [f \in EncWidgets |-> ShownIn(enc, f)]

\* A field of a layout is written: the other layout has changed too.
Write(enc, f, v) ==
  [enc EXCEPT
    !.valid = IF v # 0 THEN @ \cup {Bit[f]} ELSE @ \ {Bit[f]},
    !.val = [g \in DOMAIN @ |-> CASE g = f -> v
                                  [] (g \in MplsFields) # (f \in MplsFields) -> Unset
                                  [] OTHER -> @[g]]]

\* A text is copied without its end: the rest of a longer one stays behind it.
Copied(old, new) == IF old # Unset /\ new >= old THEN new ELSE Unset

\* One changed widget after OK.  The ttl of mpls goes to its valid bit, which
\* holds a single bit of it; flags stay valid when all are off.
Apply(enc, f, v) ==
  CASE f = "mttl" -> [enc EXCEPT !.valid = IF v % 2 = 1 THEN @ \cup {0} ELSE @ \ {0}]
    [] f = "flag" -> [Write(enc, f, v) EXCEPT !.valid = @ \cup {Bit[f]}]
    [] f \in {"ttl", "tos"} /\ enc.type \notin IpTypes -> enc
    [] f \in {"label", "addr"} ->
         [Write(enc, f, v) EXCEPT !.val[f] = IF enc.val[f] = 0 THEN v
                                             ELSE Copied(enc.val[f], v)]
    [] OTHER -> Write(enc, Behind(enc.type, f), v)

\* OK with a type chosen and at most one widget changed; the type comes first.
FilledEnc(enc, type, f, v) ==
  LET typed == [enc EXCEPT !.type = type]
  IN  IF v = ShownEnc(enc)[f] THEN typed ELSE Apply(typed, f, v)

-----------------------------------------------------------------------------
(***************************************************************************)
(* The command.  The kernel has what it says: its valid fields, anything   *)
(* for those that are unset.  Without a type it does not parse.            *)
(***************************************************************************)

Means(v) == IF v = Unset THEN Value ELSE {v}

MadeEnc(enc) ==
  LET said == {f \in Fields(enc.type) : Valid(enc, f)}
  IN  IF enc.type \in {"none", "other"} THEN {}
      ELSE {[type |-> enc.type, valid |-> {Bit[f] : f \in said},
             val |-> [f \in DOMAIN enc.val |-> IF f \in said THEN val[f]
                                               ELSE NoEncap.val[f]]] :
              val \in {w \in [said -> Value] : \A f \in said : w[f] \in Means(enc.val[f])}}
=============================================================================
