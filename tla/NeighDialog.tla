----------------------------- MODULE NeighDialog -----------------------------
(***************************************************************************)
(* netcfgarp.cpp and netroute.cpp: the dialog of a neighbour and the       *)
(* commands made from what it leaves.  A record has one section, as those  *)
(* of RouteDialog; 0 is an attribute that is not valid or a flag not set.  *)
(***************************************************************************)
EXTENDS Naturals, Sequences

CONSTANT MaxValue  \* as in EncapDialog

Menus   == {"family", "dev", "proto", "state"}
Checks  == {"proxy", "use", "managed", "router", "extern_learn"}
Widgets == Menus \cup Checks \cup {"ip", "mac"}

\* ArpRouteInfo().
Blank == << [f \in Widgets |-> IF f = "family" THEN 1 ELSE 0] >>

\* Of managed and use the dialog selects one of three radio buttons.
Shown(w) ==
  << [f \in Widgets |-> IF f = "use" /\ w[1].managed = 1 THEN 0 ELSE w[1][f]] >>

\* The address and the state are disabled for a proxy.
Enabled(form, f) == f \in {"mac", "state"} => form[1].proxy = 0

\* Slip: radio buttons as check boxes.
Slip_Typed(sec, f, v) == [sec EXCEPT ![f] = v]

\* What is in the dialog after one widget: a radio button takes the others out.
Typed(sec, f, v) ==
  CASE f = "use"     -> [sec EXCEPT !.use = v, !.managed = 0]
    [] f = "managed" -> [sec EXCEPT !.managed = v, !.use = 0]
    [] OTHER         -> [sec EXCEPT ![f] = v]

\* EditArpDialogProc: a value chosen, or the menu left with Esc.
Picked(sec, f, v) == [sec EXCEPT ![f] = v]

Left(sec, f) == IF f \in {"family", "dev"} THEN [sec EXCEPT ![f] = 0] ELSE sec

\* FillNewArp after OK: a radio button that was selected sets both flags.
Filled(w, form, shown) ==
  LET radio == \E f \in {"use", "managed"} : form[1][f] # shown[1][f]
      new(f) == form[1][f] # shown[1][f] \/ (f \in {"use", "managed"} /\ radio)
  IN  << [f \in Widgets |-> IF f \notin Menus /\ new(f) THEN form[1][f] ELSE w[1][f]] >>

\* The command, and the neighbour the kernel makes of it: a proxy has no
\* link address and no state; the family is that of the address.  Without the
\* address or the device the command does not parse.
Made(w) ==
  IF w[1].ip = 0 \/ w[1].dev = 0 THEN {} ELSE
  {<< [f \in Widgets |-> CASE f \in {"mac", "state"} /\ w[1].proxy = 1 -> 0
                           [] f = "family" /\ w[1].family = 0 -> 1
                           [] OTHER -> w[1][f]] >>}

\* Where a command may say another value than the dialog showed.
Surprises(form, left) ==
  {"family"} \cup {f \in {"dev"} : << 1, f >> \in left}
             \cup (IF form[1].proxy = 1 THEN {"mac", "state"} ELSE {})
=============================================================================
