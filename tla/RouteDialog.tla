----------------------------- MODULE RouteDialog -----------------------------
(***************************************************************************)
(* netcfgiproutes.cpp and netroute.cpp: the dialog of a route and the      *)
(* commands made from what it leaves.                                      *)
(*                                                                         *)
(* A record is a sequence of sections: the route's own attributes, then    *)
(* those of its next hops.  0 is an attribute that is not valid: a command *)
(* does not name it, and the kernel takes its default.  The dialog has a   *)
(* section more than the record, for one new hop.                          *)
(***************************************************************************)
EXTENDS EncapDialog, Sequences, SequencesExt

Families == {1, 2}  \* AF_INET and AF_INET6; 0 is every other
Global   == 1       \* RT_SCOPE_UNIVERSE, whose number is 0

Checks == {"onlink", "encap", "nexthop"}

MainMenus   == {"type", "family", "dev", "table", "scope", "proto", "pref"}
MainWidgets == MainMenus \cup {"dest", "gateway", "metric", "prefsrc", "src", "tos",
                               "onlink", "encap"}
HopMenus    == {"family", "dev"}
HopWidgets  == HopMenus \cup {"nexthop", "onlink", "encap", "gateway", "weight"}

Main == [f \in MainWidgets \cup {"rtvia", "nhid", "enc"} |->
           IF f = "enc" THEN NoEncap ELSE 0]

\* NextHope(): the family is not set.
Hop == [f \in HopWidgets \cup {"rtvia", "enc"} |->
          CASE f = "enc" -> NoEncap [] f = "family" -> Unset [] OTHER -> 0]

\* The start of CreateIpRoute.
Blank(family, table) == << [Main EXCEPT !.family = family, !.type = 1, !.table = table] >>

-----------------------------------------------------------------------------
(***************************************************************************)
(* The dialog.                                                             *)
(***************************************************************************)

Via(sec) == IF sec.rtvia # 0 THEN sec.rtvia ELSE sec.gateway

ShownMain(sec) == [f \in MainWidgets |-> IF f = "gateway" THEN Via(sec) ELSE sec[f]]

ShownHop(sec) ==
  [f \in HopWidgets |-> CASE f = "nexthop" -> 1
                          [] f = "gateway" -> Via(sec)
                          [] f = "family"  -> IF sec.rtvia # 0 THEN sec.family ELSE 0
                          [] OTHER         -> sec[f]]

\* The section of the new hop is empty, whatever new_nh holds.
Shown(w) == [s \in 1 .. Len(w) + 1 |->
               CASE s = 1            -> ShownMain(w[1])
                 [] s \in 2 .. Len(w) -> ShownHop(w[s])
                 [] OTHER            -> [f \in HopWidgets |-> 0]]

\* A widget is not disabled: the preference is for inet6, and a hop is edited
\* when it is checked.
Enabled(w, form, s, f) ==
  IF s = 1 THEN f = "pref" => w[1].family # 1
  ELSE f = "nexthop" \/ form[s].nexthop = 1

\* The button beside a checked box opens SelectEncap.
EncapEnabled(form, s) == form[s].encap = 1 /\ (s > 1 => form[s].nexthop = 1)

\* EditIpRouteDialogProc, a value chosen for a button.  The device of the
\* route itself is taken from the button's text after OK.
Picked(sec, s, f, v) == IF s = 1 /\ f = "dev" THEN sec ELSE [sec EXCEPT ![f] = v]

\* A menu left with Esc: the family and the device of a hop go, the scope
\* becomes what the button's text says as a number.
Left(sec, s, f, text) ==
  CASE f = "family"           -> {[sec EXCEPT ![f] = 0]}
    [] f = "dev" /\ s > 1     -> {[sec EXCEPT ![f] = 0]}
    [] f = "scope"            -> {[sec EXCEPT ![f] = n] : n \in {Global, text} \ {0}}
    [] OTHER                  -> {sec}

\* Slip: only the encapsulation itself is taken.
Slip_Encapsulated(sec, s, enc) == [sec EXCEPT !.enc = enc]

\* SelectEncap came back, with OK or without.
Encapsulated(sec, s, enc) ==
  IF s = 1 THEN [sec EXCEPT !.enc = enc]
  ELSE [sec EXCEPT !.enc = enc, !.encap = IF enc.type = "none" THEN 0 ELSE 1]

\* Slip: the gateway of a hop is stored as that of the route is.
Slip_FilledHop(sec, form, shown) ==
  [f \in DOMAIN sec |->
     IF f \in HopWidgets \ HopMenus /\ form[f] # shown[f] THEN form[f] ELSE sec[f]]

\* Slip: the box that makes a section a hop is only looked at, not stored.
Slip_UnmarkedHop(sec, form, shown) ==
  [f \in DOMAIN sec |->
     CASE f = "rtvia" /\ form.gateway # shown.gateway -> form.gateway
       [] f \in {"weight", "onlink", "encap"} /\ form[f] # shown[f] -> form[f]
       [] OTHER -> sec[f]]

\* FillNextHope: the gateway of a hop is stored as rtvia.
FilledHop(sec, form, shown) ==
  [f \in DOMAIN sec |->
     CASE f = "rtvia" /\ form.gateway # shown.gateway -> form.gateway
       [] f \in HopWidgets \ (HopMenus \cup {"gateway"}) /\ form[f] # shown[f] -> form[f]
       [] OTHER -> sec[f]]

FilledMain(sec, form, shown) ==
  [f \in DOMAIN sec |->
     IF f \in (MainWidgets \ MainMenus) \cup {"dev"} /\ form[f] # shown[f]
     THEN form[f] ELSE sec[f]]

\* FillNewIpRoute after OK: the record, and new_nh, which is appended when it
\* is marked as a hop, in this dialog or in an earlier one.
Filled(w, new, form, shown) ==
  LET hop  == FilledHop(new, form[Len(form)], shown[Len(form)])
      secs == [i \in DOMAIN w |-> IF i = 1 THEN FilledMain(w[1], form[1], shown[1])
                                  ELSE FilledHop(w[i], form[i], shown[i])]
  IN  << IF hop.nexthop = 1 THEN Append(secs, hop) ELSE secs, hop >>

-----------------------------------------------------------------------------
(***************************************************************************)
(* The command, and the record the kernel makes of it.                     *)
(***************************************************************************)

\* A hop's rtvia is said with its family; if that is the route's, it is the
\* hop's gateway.
MadeVia(hop, family) ==
  IF hop.rtvia = 0 THEN {[gateway |-> hop.gateway, rtvia |-> 0, family |-> Unset]}
  ELSE {IF n = family THEN [gateway |-> hop.rtvia, rtvia |-> 0, family |-> Unset]
        ELSE [gateway |-> 0, rtvia |-> hop.rtvia, family |-> n] :
          n \in Means(hop.family) \cap Families}

MadeEncap(sec) ==
  IF sec.encap = 0 THEN {[encap |-> 0, enc |-> NoEncap]}
  ELSE {[encap |-> 1, enc |-> e] : e \in MadeEnc(sec.enc)}

\* GetNextHopes.
MadeHop(hop, via, e) ==
  [hop EXCEPT !.gateway = via.gateway, !.rtvia = via.rtvia, !.family = via.family,
              !.encap = e.encap, !.enc = e.enc]

MadeHops(hop, family) ==
  {MadeHop(hop, via, e) : via \in MadeVia(hop, family), e \in MadeEncap(hop)}

\* CreateIpRoute; of a route through a next hop object the rest is the
\* object's.
MadeMains(sec) ==
  LET said == [f \in DOMAIN sec |->
                 IF f \in {"prefsrc", "src", "pref", "rtvia"} THEN 0 ELSE sec[f]]
  IN  IF sec.family \notin Families THEN {}
      ELSE IF sec.nhid # 0
      THEN {[said EXCEPT !.gateway = 0, !.dev = 0, !.onlink = 0, !.encap = 0,
                         !.enc = NoEncap]}
      ELSE {[said EXCEPT !.encap = e.encap, !.enc = e.enc] : e \in MadeEncap(sec)}

Product(sets) == {s \in [DOMAIN sets -> UNION Range(sets)] : \A i \in DOMAIN sets : s[i] \in sets[i]}

\* The numbers of a set in ascending order.
InOrder(I) ==
  [n \in 1 .. Cardinality(I) |-> CHOOSE i \in I : Cardinality({j \in I : j =< i}) = n]

\* The next hops of a record, and of a dialog, that are marked as such.
Marked(secs) == {s \in DOMAIN secs \ {1} : secs[s].nexthop = 1}

Record(main, hops) == << main >> \o hops

\* The command of a unicast route says neither a gateway nor a device nor a hop,
\* or that of a hop neither a gateway nor a device: it is refused.
NoWayOut(w) ==
  /\ w[1].nhid = 0
  /\ IF Marked(w) = {} THEN w[1].type \in {0, 1} /\ w[1].gateway = 0 /\ w[1].dev = 0
     ELSE \E s \in Marked(w) : w[s].gateway = 0 /\ w[s].rtvia = 0 /\ w[s].dev = 0

Made(w) ==
  LET hops == IF w[1].nhid # 0 THEN << >> ELSE InOrder(Marked(w))
  IN  IF NoWayOut(w) THEN {}
      ELSE {Record(main, rest) :
              main \in MadeMains(w[1]),
              rest \in Product([i \in DOMAIN hops |-> MadeHops(w[hops[i]], w[1].family)])}

-----------------------------------------------------------------------------
(***************************************************************************)
(* Where a command may say another value than the dialog showed: for an    *)
(* attribute of the route no command names, after a menu was left with     *)
(* Esc, because only one of gateway and rtvia is written, because a box    *)
(* that is as it was at first is not written after SelectEncap set or      *)
(* cleared its bit, and in the section of the new hop because of what      *)
(* new_nh held.                                                            *)
(***************************************************************************)

Surprises(w, form, shown, left, held, s) ==
  LET esc  == {f \in MainWidgets \cup HopWidgets : << s, f >> \in left}
      also(f, cond) == IF cond THEN {f} ELSE {}
  IN  IF s = 1
      THEN {"prefsrc", "src", "pref"} \cup (esc \cap {"family", "scope"})
             \cup (IF w[1].nhid # 0 THEN {"gateway", "dev", "onlink", "encap"} ELSE {})
             \cup also("gateway", w[1].rtvia # 0 /\ form[1].gateway = shown[1].gateway)
      ELSE (esc \cap {"family", "dev"})
             \cup also("gateway", w[s].gateway # 0 /\ form[s].gateway = 0)
             \cup also("encap", form[s].encap = shown[s].encap
                                 /\ (form[s].encap = 1) = (w[s].enc.type = "none"))
             \cup also("family", w[s].rtvia = 0 \/ form[s].family \in {0, w[1].family})
             \cup {f \in HopWidgets : /\ s = Len(form) /\ form[s][f] = 0
                                     /\ ShownHop(held)[f] # 0}
=============================================================================
