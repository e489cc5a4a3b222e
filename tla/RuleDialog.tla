----------------------------- MODULE RuleDialog ------------------------------
(***************************************************************************)
(* netcfgrules.cpp and netroute.cpp: the dialog of a rule and the commands *)
(* made from what it leaves.  A record has one section, as those of        *)
(* RouteDialog; 0 is an attribute that is not valid.                       *)
(***************************************************************************)
EXTENDS Naturals, Sequences

CONSTANTS MaxValue, Unset  \* as in EncapDialog

Value == 0 .. MaxValue

Redirect == 1  \* RTPROT_REDIRECT, the number a Boolean is taken for
IpProto  == 1  \* the IP protocol with number 0, ip

\* "port" stands for sport and dport.
Begins  == {"uid_begin", "port_begin"}
Ends    == {"uid_end", "port_end"}
BeginOf == [uid_end |-> "uid_begin", port_end |-> "port_begin"]

Menus   == {"not", "iif", "oif", "ipproto", "table", "proto"}
Checks  == {"not", "l3mdev"}
Widgets == Menus \cup Begins \cup Ends \cup
             {"pref", "from", "to", "fwmark", "fwmask", "tos", "l3mdev", "tun_id", "goto",
              "realms_from", "realms_to", "suppress_prefixlength", "suppress_ifgroup"}

Actions == {"table", "goto", "other"}  \* FR_ACT_TO_TBL, FR_ACT_GOTO, blackhole and the like

\* RuleRouteInfo() and CreateRule leave tos, action and the numbers of an
\* attribute that is not valid as they are; the dialog shows tos in any case.
Blank(tos) == << [f \in Widgets \cup {"action"} |->
                    CASE f = "tos" -> tos
                      [] f \in Ends \cup {"fwmark", "action"} -> Unset
                      [] OTHER -> 0] >>

\* UpdateByNetlink clears fwmark; the end of a range that is not there is left.
Read(rec) == << [f \in DOMAIN rec[1] |->
                   IF f \in Ends /\ rec[1][BeginOf[f]] = 0 THEN Unset ELSE rec[1][f]] >>

-----------------------------------------------------------------------------
ShownIn(sec, f) == IF sec[f] = Unset \/ (f \in Ends /\ sec[BeginOf[f]] = 0) THEN 0 ELSE sec[f]

Shown(w) == << [f \in Widgets |-> ShownIn(w[1], f)] >>

\* Slip: the table is chosen, the action left as it was.
Slip_Picked(sec, f, v) == [sec EXCEPT ![f] = v]

\* EditRuleDialogProc, a value chosen for a button.
Picked(sec, f, v) ==
  IF f = "table" /\ v # 0 THEN [sec EXCEPT ![f] = v, !.action = "table"]
  ELSE [sec EXCEPT ![f] = v]

\* A menu left with Esc.  The protocol becomes its own valid bit; the table
\* stays and is the action again.
Left(sec, f, text) ==
  CASE f \in {"iif", "oif"} -> {[sec EXCEPT ![f] = 0]}
    [] f = "ipproto" -> {[sec EXCEPT ![f] = n] : n \in {IpProto, text} \ {0}}
    [] f = "proto"   -> {[sec EXCEPT ![f] = IF @ # 0 THEN Redirect ELSE 0]}
    [] f = "table"   -> {Picked(sec, f, sec[f])}
    [] OTHER         -> {sec}

\* FillNewIpRule after OK.  A range without an end ends where it begins; a
\* goto that is emptied stays the action.
Filled(w, form, shown) ==
  LET sec  == w[1]
      new(f) == form[1][f] # shown[1][f]
      begin(f) == IF new(BeginOf[f]) THEN form[1][BeginOf[f]] ELSE sec[BeginOf[f]]
  IN  << [f \in DOMAIN sec |->
            IF f = "action" THEN IF new("goto") /\ form[1].goto # 0 THEN "goto" ELSE sec.action
            ELSE IF f \in Menus \/ ~new(f) THEN sec[f]
            ELSE IF f \in Ends /\ form[1][f] = 0 THEN begin(f) ELSE form[1][f]] >>

-----------------------------------------------------------------------------
(***************************************************************************)
(* The command (ToRuleString), and the rule the kernel makes of it.        *)
(***************************************************************************)

Means(v, all) == IF v = Unset THEN all ELSE {v}

\* The attributes that are said only with another one.
Said(sec) ==
  [f \in DOMAIN sec |->
     CASE f \in Ends -> IF sec[BeginOf[f]] = 0 THEN 0 ELSE sec[f]
       [] f = "fwmark" -> IF sec[f] = Unset /\ sec.fwmask = 0 THEN 0 ELSE sec[f]
       [] f \in {"suppress_prefixlength", "suppress_ifgroup"} ->
            IF sec.table = 0 THEN 0 ELSE sec[f]
       [] f = "realms_from" -> IF sec.realms_to = 0 THEN 0 ELSE sec[f]
       [] OTHER -> sec[f]]

\* A goto without a target is said as none, l3mdev goes with no table.
Refused(said, action) ==
  (action = "goto" /\ said.goto = 0) \/ (said.l3mdev = 1 /\ said.table # 0)

\* Unset: Ends, fwmark and action.
MadeOf(said, action) ==
  LET free == {f \in DOMAIN said \ {"action", "goto"} : said[f] = Unset}
  IN  IF Refused(said, action) THEN {} ELSE
      {<< [f \in DOMAIN said |->
             CASE f = "action" -> action
               [] f = "goto"   -> IF action = "goto" THEN said[f] ELSE 0
               [] f \in free   -> n[f]
               [] OTHER        -> said[f]] >> : n \in [free -> Value]}

Made(w) == UNION {MadeOf(Said(w[1]), a) : a \in Means(w[1].action, Actions)}

-----------------------------------------------------------------------------
(***************************************************************************)
(* Where a command may say another value than the dialog showed.           *)
(***************************************************************************)

Surprises(w, form, shown, left) ==
  LET esc == {f \in Menus : << 1, f >> \in left}
      also(F, cond) == IF cond THEN F ELSE {}
  IN  (esc \cap {"iif", "oif", "ipproto", "proto"})
        \cup also({"suppress_prefixlength", "suppress_ifgroup"}, w[1].table = 0)
        \cup also({"realms_from"}, w[1].realms_to = 0)
        \cup also({"fwmark"}, w[1].fwmark = Unset)
        \cup also({"goto"}, w[1].action # "goto")
        \cup {f \in Ends : w[1][f] = Unset \/ form[1][BeginOf[f]] = 0 \/ form[1][f] = 0}
=============================================================================
