----------------------------- MODULE RecordEdit ------------------------------
(***************************************************************************)
(* F4 and Shift-F4 on a route, a rule or a neighbour: the dialog, the      *)
(* change list taken from it after OK, the working copy (new_rt, new_r,    *)
(* new_a) it is applied to, and the delete and create commands.            *)
(*                                                                         *)
(* Buttons write into the working copy at once, texts and check boxes only *)
(* after OK.  new_nh, the next hop a route's dialog may add, outlives the  *)
(* dialog.  A load that follows shows what the kernel has.                 *)
(***************************************************************************)
EXTENDS Naturals, Sequences, SequencesExt

CONSTANTS
  MaxValue,   \* bound: values of an attribute, see EncapDialog
  Unset,      \* memory nobody wrote
  MaxDialogs, \* bound: dialogs opened
  MaxTouches, \* bound: widgets used in all of them
  Samples,    \* records the kernel may have at first, a set for each kind
  None        \* no record, no dialog

Route == INSTANCE RouteDialog
Rule  == INSTANCE RuleDialog
Neigh == INSTANCE NeighDialog

Kinds == {"route", "rule", "neigh"}
Value == 0 .. MaxValue

Checks    == Route!Checks \cup Rule!Checks \cup Neigh!Checks
Values(f) == IF f \in Checks THEN {0, 1}
             ELSE IF f = "family" THEN Route!Families \cup {0} ELSE Value

ASSUME RecordEditAssumption ==
  /\ MaxValue \in Nat \ {0} /\ MaxDialogs \in Nat /\ MaxTouches \in Nat
  /\ Unset \notin Value \cup {0, 1, 2} /\ Unset \notin Rule!Actions

-----------------------------------------------------------------------------
(***************************************************************************)
(* The records the kernel may have: an encapsulation is one that a command *)
(* says in full, and there is none where the valid bit is off.  A hop      *)
(* without rtvia has no family, a range that is not there no end.  Each    *)
(* has what its create command needs.                                      *)
(***************************************************************************)

IsRoute(rec) ==
  /\ Len(rec) \in Nat \ {0}
  /\ rec = [s \in 1 .. Len(rec) |->
              [f \in DOMAIN (IF s = 1 THEN Route!Main ELSE Route!Hop) |-> rec[s][f]]]
  /\ \A s \in DOMAIN rec :
       /\ \A f \in DOMAIN rec[s] \ {"enc", "family"} : rec[s][f] \in Values(f)
       /\ rec[s].family \in IF s > 1 /\ rec[s].rtvia = 0 THEN {Unset} ELSE Route!Families
       /\ rec[s].enc \in Route!Encs
       /\ IF rec[s].encap = 1 THEN Route!MadeEnc(rec[s].enc) = {rec[s].enc}
          ELSE rec[s].enc = Route!NoEncap
       /\ s > 1 => rec[s].nexthop = 1
  /\ ~Route!NoWayOut(rec)

IsRule(rec) ==
  /\ DOMAIN rec = {1} /\ DOMAIN rec[1] = Rule!Widgets \cup {"action"}
  /\ \A f \in Rule!Widgets :
       rec[1][f] \in Values(f) \cup (IF f \in Rule!Ends THEN {Unset} ELSE {})
  /\ rec[1].action \in Rule!Actions /\ ~Rule!Refused(rec[1], rec[1].action)

IsNeigh(rec) ==
  /\ DOMAIN rec = {1} /\ DOMAIN rec[1] = Neigh!Widgets
  /\ \A f \in Neigh!Widgets : rec[1][f] \in Values(f)
  /\ rec[1].ip # 0 /\ rec[1].dev # 0

ASSUME SamplesAssumption ==
  /\ \A rec \in Samples["route"] : IsRoute(rec)
  /\ \A rec \in Samples["rule"] : IsRule(rec)
  /\ \A rec \in Samples["neigh"] : IsNeigh(rec)

-----------------------------------------------------------------------------

VARIABLES
  kernel,  \* the record under the cursor, of the kind of the panel
  kind,    \* what the panel shows
  new_nh,  \* the next hop an OK may append
  dlg,     \* the open dialog
  last,    \* history: the dialog that was closed last
  marked,  \* history: new_nh was marked as a hop since the last Shift-F4
  count    \* dialogs opened and widgets used, for the bounds

vars == << kernel, kind, new_nh, dlg, last, marked, count >>

-----------------------------------------------------------------------------
(***************************************************************************)
(* The three kinds.                                                        *)
(***************************************************************************)

Menus(s) == CASE kind = "route" -> IF s = 1 THEN Route!MainMenus ELSE Route!HopMenus
              [] kind = "rule"  -> Rule!Menus
              [] kind = "neigh" -> Neigh!Menus

Widgets(s) == CASE kind = "route" -> IF s = 1 THEN Route!MainWidgets ELSE Route!HopWidgets
                [] kind = "rule"  -> Rule!Widgets
                [] kind = "neigh" -> Neigh!Widgets

Shown(w) == CASE kind = "route" -> Route!Shown(w)
              [] kind = "rule"  -> Rule!Shown(w)
              [] kind = "neigh" -> Neigh!Shown(w)

Enabled(s, f) == CASE kind = "route" -> Route!Enabled(dlg.work, dlg.form, s, f)
                   [] kind = "rule"  -> TRUE
                   [] kind = "neigh" -> Neigh!Enabled(dlg.form, f)

Typed(sec, f, v) == IF kind = "neigh" THEN Neigh!Typed(sec, f, v) ELSE [sec EXCEPT ![f] = v]

Picked(sec, s, f, v) == CASE kind = "route" -> Route!Picked(sec, s, f, v)
                          [] kind = "rule"  -> Rule!Picked(sec, f, v)
                          [] kind = "neigh" -> Neigh!Picked(sec, f, v)

Left(sec, s, f, text) == CASE kind = "route" -> Route!Left(sec, s, f, text)
                           [] kind = "rule"  -> Rule!Left(sec, f, text)
                           [] kind = "neigh" -> {Neigh!Left(sec, f)}

Filled(w, form, shown) == CASE kind = "route" -> Route!Filled(w, new_nh, form, shown)
                            [] kind = "rule"  -> << Rule!Filled(w, form, shown), new_nh >>
                            [] kind = "neigh" -> << Neigh!Filled(w, form, shown), new_nh >>

Made(w) == CASE kind = "route" -> Route!Made(w)
             [] kind = "rule"  -> Rule!Made(w)
             [] kind = "neigh" -> Neigh!Made(w)

-----------------------------------------------------------------------------
(***************************************************************************)
(* Opening.                                                                *)
(***************************************************************************)

\* Slip: the member change is left as the last dialog set it.
Slip_Opened(mode, w, hop) ==
  [mode |-> mode, work |-> w, form |-> Shown(w), shown |-> Shown(w),
   change |-> last # None /\ last.change, left |-> {}, encs |-> {}, held |-> hop]

\* left, encs and held are history: the menus left with Esc, the last change of an
\* encapsulation, and what new_nh held.
Opened(mode, w, hop) ==
  [mode |-> mode, work |-> w, form |-> Shown(w), shown |-> Shown(w), change |-> FALSE,
   left |-> {}, encs |-> {}, held |-> hop]

Open(dialogs) == /\ dlg = None /\ dialogs
                 /\ count.dialogs < MaxDialogs
                 /\ count' = [count EXCEPT !.dialogs = @ + 1]
                 /\ last' = None

\* EditIpRoute, EditRule, EditArp.
Edit ==
  /\ Open(kernel # None)
  /\ dlg' = Opened("edit", IF kind = "rule" THEN Rule!Read(kernel) ELSE kernel, new_nh)
  /\ UNCHANGED << kernel, kind, new_nh, marked >>

CreateIpRoute(family, table) ==
  /\ dlg' = Opened("create", Route!Blank(family, table), Route!Hop)
  /\ new_nh' = Route!Hop
  /\ marked' = FALSE

\* CreateIpRoute, CreateRule, CreateArp.
Create ==
  /\ Open(TRUE)
  /\ CASE kind = "route" -> \E family \in Route!Families, table \in Value \ {0} :
                              CreateIpRoute(family, table)
       [] kind = "rule"  -> /\ \E tos \in {0, MaxValue} :
                                    dlg' = Opened("create", Rule!Blank(tos), new_nh)
                            /\ UNCHANGED << new_nh, marked >>
       [] kind = "neigh" -> /\ dlg' = Opened("create", Neigh!Blank, new_nh)
                            /\ UNCHANGED << new_nh, marked >>
  /\ UNCHANGED << kernel, kind >>

-----------------------------------------------------------------------------
(***************************************************************************)
(* The open dialog.  Section s of the dialog is section s of the working   *)
(* copy; the last one of a route's dialog is new_nh.                       *)
(***************************************************************************)

Section(s) == IF s \in DOMAIN dlg.work THEN dlg.work[s] ELSE new_nh

SetSection(s, sec, more) ==
  IF s \in DOMAIN dlg.work
  THEN dlg' = [more EXCEPT !.work[s] = sec] /\ UNCHANGED new_nh
  ELSE dlg' = more /\ new_nh' = sec

Touch(s) == /\ dlg # None /\ s \in DOMAIN dlg.form
            /\ count.touches < MaxTouches
            /\ count' = [count EXCEPT !.touches = @ + 1]
            /\ UNCHANGED << kernel, kind, last, marked >>

\* A text or a check box.
Type(s, f, v) ==
  /\ Touch(s)
  /\ f \in Widgets(s) \ Menus(s) /\ v \in Values(f) \ {dlg.form[s][f]} /\ Enabled(s, f)
  /\ dlg' = [dlg EXCEPT !.form[s] = Typed(@, f, v)]
  /\ UNCHANGED new_nh

\* A value chosen for a button.
Pick(s, f, v) ==
  /\ Touch(s)
  /\ f \in Menus(s) /\ v \in Values(f) /\ Enabled(s, f)
  /\ SetSection(s, Picked(Section(s), s, f, v),
                [dlg EXCEPT !.form[s][f] = v, !.left = @ \ {<< s, f >>}])

\* Its menu left with Esc.
Leave(s, f) ==
  /\ Touch(s)
  /\ f \in Menus(s) /\ Enabled(s, f)
  /\ \E sec \in Left(Section(s), s, f, dlg.form[s][f]) :
       SetSection(s, sec, [dlg EXCEPT !.left = @ \cup {<< s, f >>}])

\* SelectEncap, with OK or without.  Any change in it is a change of the
\* record, whatever becomes of the record's own dialog.
Encap(s) ==
  LET old == Section(s).enc
  IN  /\ kind = "route"
      /\ Touch(s)
      /\ Route!EncapEnabled(dlg.form, s)
      /\ \/ SetSection(s, Route!Encapsulated(Section(s), s, old), dlg)
         \/ \E type \in Route!EncTypes :
              \E f \in Route!WidgetsOf(type) \cup {"id"}, v \in Value :
                LET text == Route!ShownEnc(old)[f]
                    new  == Route!FilledEnc(old, type, f, v)
                IN  /\ f \notin Route!WidgetsOf(type) => v = text
                    /\ v = text => type # old.type /\ f = "id"
                    /\ SetSection(s, Route!Encapsulated(Section(s), s, new),
                                  [dlg EXCEPT !.change = TRUE,
                                              !.encs = {[old |-> old, new |-> new,
                                                         f |-> f, v |-> v]}])

-----------------------------------------------------------------------------
(***************************************************************************)
(* Closing.                                                                *)
(***************************************************************************)

Changed(s) == {f \in Widgets(s) : dlg.form[s][f] # dlg.shown[s][f]}

\* Boxes with a hidden twin that starts empty and is set when they are drawn.
Twins(s) == CASE kind = "route" -> {"encap", "nexthop"} \cap Widgets(s)
              [] kind = "rule"  -> {}
              [] kind = "neigh" -> {"proxy"}

\* CreateChangeList.
ChangeList ==
  \E s \in DOMAIN dlg.form : Changed(s) # {} \/ \E f \in Twins(s) : dlg.form[s][f] = 1

Closed(ok, work, ran, made) ==
  [mode |-> dlg.mode, old |-> kernel, form |-> dlg.form, shown |-> dlg.shown,
   left |-> dlg.left, encs |-> dlg.encs, held |-> dlg.held, change |-> dlg.change,
   ok |-> ok, work |-> work, ran |-> ran, made |-> made]

Close(ok, work, ran, made, now) ==
  /\ dlg' = None
  /\ last' = Closed(ok, work, ran, made)
  /\ kernel' = now
  /\ UNCHANGED << kind, count >>

\* ChangeIpRoute, ChangeRule, Change: the create follows a delete that
\* succeeded.  Any command may fail; one that does not parse does.
Commands(ok, work) ==
  LET old == IF dlg.mode = "edit" THEN None ELSE kernel
  IN  \/ dlg.mode = "edit" /\ Close(ok, work, {"delete"}, None, kernel)
      \/ Close(ok, work, IF dlg.mode = "edit" THEN {"delete", "create"} ELSE {"create"},
               None, old)
      \/ \E rec \in Made(work) :
           Close(ok, work, IF dlg.mode = "edit" THEN {"delete", "create"} ELSE {"create"},
                 rec, rec)

\* OK: the change list is applied to the working copy, if there is one or the
\* member change is set.
Ok ==
  /\ dlg # None
  /\ IF dlg.change \/ ChangeList
     THEN LET filled == Filled(dlg.work, dlg.form, dlg.shown)
          IN  /\ Commands(TRUE, filled[1])
              /\ new_nh' = filled[2]
              /\ marked' = (marked \/ (kind = "route" /\ Last(dlg.form).nexthop = 1))
     ELSE /\ Close(TRUE, dlg.work, {}, None, kernel)
          /\ UNCHANGED << new_nh, marked >>

\* FillNewIpRoute answers with the member change, which SelectEncap sets.
Cancel ==
  /\ dlg # None
  /\ IF dlg.change THEN Commands(FALSE, dlg.work)
     ELSE Close(FALSE, dlg.work, {}, None, kernel)
  /\ UNCHANGED << new_nh, marked >>

-----------------------------------------------------------------------------
Init ==
  /\ kind \in Kinds /\ kernel \in Samples[kind] \cup {None}
  /\ new_nh = Route!Hop
  /\ dlg = None /\ last = None /\ marked = FALSE
  /\ count = [dialogs |-> 0, touches |-> 0]

Next ==
  \/ Edit \/ Create \/ Ok \/ Cancel
  \/ /\ dlg # None
     /\ \E s \in DOMAIN dlg.form :
          \/ Encap(s)
          \/ \E f \in Menus(s) : Leave(s, f) \/ \E v \in Values(f) : Pick(s, f, v)
          \/ \E f \in Widgets(s) \ Menus(s) : \E v \in Values(f) : Type(s, f, v)

Spec == Init /\ [][Next]_vars

-----------------------------------------------------------------------------
(***************************************************************************)
(* Properties.                                                             *)
(***************************************************************************)

\* A type invariant; nothing else is claimed by it.
TypeOK ==
  /\ kind \in Kinds
  /\ DOMAIN new_nh = DOMAIN Route!Hop /\ new_nh.enc \in Route!Encs
  /\ marked \in BOOLEAN
  /\ count.dialogs \in 0 .. MaxDialogs /\ count.touches \in 0 .. MaxTouches
  /\ dlg # None =>
       /\ dlg.mode \in {"edit", "create"} /\ dlg.change \in BOOLEAN
       /\ DOMAIN dlg.shown = DOMAIN dlg.form
       /\ \A s \in DOMAIN dlg.form :
            /\ DOMAIN dlg.form[s] = Widgets(s)
            /\ \A f \in Widgets(s) : dlg.form[s][f] \in Values(f)
       /\ kind = "neigh" => dlg.form[1].use = 0 \/ dlg.form[1].managed = 0
       /\ \A s \in DOMAIN dlg.work, f \in Widgets(1) :
            f \in DOMAIN dlg.work[s] => dlg.work[s][f] \in Values(f) \cup {Unset}

\* The sections of the dialog a command is made from, in their order.
Sections ==
  IF kind # "route" \/ last.work[1].nhid # 0 THEN << 1 >>
  ELSE << 1 >> \o Route!InOrder(Route!Marked(last.form))

Surprises(s) ==
  CASE kind = "route" -> Route!Surprises(last.work, last.form, last.shown, last.left, last.held, s)
    [] kind = "rule"  -> Rule!Surprises(last.work, last.form, last.shown, last.left)
    [] kind = "neigh" -> Neigh!Surprises(last.form, last.left)

MadeAfterOk == last # None /\ last.ok /\ last.made # None

\* What OK makes is what the dialog showed at that moment: every attribute
\* that was typed or chosen, and every attribute that was left alone.  The
\* exceptions are those of Surprises and no others.
MadeAsShown ==
  MadeAfterOk =>
    \A i \in DOMAIN Sections :
      \A f \in Widgets(Sections[i]) \ Surprises(Sections[i]) :
        Shown(last.made)[i][f] = last.form[Sections[i]][f]

\* Of what the dialog does not show an edit keeps a route's next hop object, an
\* encapsulation that was not opened, and a rule's action, which is that of the
\* goto or the table that was entered, or a table again after its menu was opened.
HiddenKept ==
  MadeAfterOk /\ last.mode = "edit" =>
    CASE kind = "route" ->
           /\ last.made[1].nhid = last.old[1].nhid
           /\ last.encs = {} /\ last.made[1].encap = 1 => last.made[1].enc = last.old[1].enc
      [] kind = "rule" ->
           LET entered(f) == last.form[1][f] \notin {0, last.shown[1][f]}
           IN  last.made[1].action \in
                 IF entered("goto") THEN {"goto"}
                 ELSE IF entered("table") THEN {"table"} ELSE {last.old[1].action, "table"}
      [] OTHER -> TRUE

\* A route made after OK has the next hops that are checked in the dialog, and
\* one more only when it was checked in an earlier dialog since Shift-F4 last
\* gave new_nh up.
HopsAsMarked ==
  MadeAfterOk /\ kind = "route" /\ last.work[1].nhid = 0 =>
    Len(last.made) = Len(Sections) + (IF marked /\ Last(last.form).nexthop = 0 THEN 1 ELSE 0)

\* A dialog in which nothing changed runs no command, with OK or without, and
\* one that was left with Cancel only when an encapsulation was changed in it.
\* A box with a twin counts as changed when it is checked.
IdleRunsNothing ==
  last # None /\ last.ran # {} =>
    \/ last.encs # {}
    \/ last.ok /\ \E s \in DOMAIN last.form :
                   \/ last.form[s] # last.shown[s]
                   \/ \E f \in Twins(s) : last.form[s][f] = 1

\* Empty in the dialog; of one left with Cancel, at first.
Empty(s, f) == last.form[s][f] = 0 \/ (~last.ok /\ last.shown[s][f] = 0)

Escaped(s, f) == << s, f >> \in last.left

\* A section of a route no command can be made of: a family of neither kind, chosen
\* or left when its menu was; an encapsulation of a type no command is written
\* for, or a box checked beside none; neither a device nor a gateway that is said.
RouteReason(s) ==
  LET sec == last.work[s]
  IN  \/ last.form[s].family = 0 \/ Escaped(s, "family")
      \/ sec.enc.type = "other"
      \/ sec.enc.type = "none" /\ sec.encap = 1 /\ (s = 1 \/ last.shown[s].encap = 0)
      \/ IF s = 1
         THEN /\ Route!Marked(last.work) = {} /\ last.form[1].type \in {0, 1}
              /\ Empty(1, "dev") /\ (Empty(1, "gateway") \/ sec.rtvia # 0)
         ELSE (Empty(s, "dev") \/ Escaped(s, "dev")) /\ Empty(s, "gateway")

\* A record whose create command lacks a part it needs or joins two that exclude
\* each other, so that an edit loses it, was left so in this dialog: a route for a
\* RouteReason in itself or in a hop, a rule with a goto that was emptied (it is
\* said as none) or with both l3mdev and a table, a neighbour without an address
\* or a device.  A hop whose encapsulation was given up in its dialog is not one
\* of them; one whose box was just checked is, and the hop that is added is none
\* that an earlier dialog left incomplete.
RefusedForReason ==
  last # None /\ last.ran # {} /\ Made(last.work) = {} =>
    CASE kind = "route" -> \E s \in {1} \cup Route!Marked(last.work) : RouteReason(s)
      [] kind = "rule"  -> \/ last.shown[1].goto # 0 /\ last.form[1].goto = 0
                           \/ last.form[1].l3mdev = 1 /\ last.form[1].table # 0
      [] kind = "neigh" -> \/ last.form[1].ip = 0
                           \/ last.form[1].dev = 0 \/ Escaped(1, "dev")

\* What is made of an encapsulation is what its dialog showed, unless another
\* type was chosen, then or earlier, so that the widget may show a field of the
\* other type or memory nobody wrote, the ttl of mpls was typed, or a text was made
\* shorter.
EncapAsShown ==
  dlg # None =>
    \A e \in dlg.encs, f \in Route!EncWidgets :
      \A rec \in Route!MadeEnc(e.new) :
        \/ e.new.type # e.old.type \/ Route!Foreign(e.old, f)
        \/ e.f = "mttl" \/ Route!ShownEnc(e.new)[f] = Unset
        \/ Route!ShownEnc(rec)[f] = IF e.f = f THEN e.v ELSE Route!ShownEnc(e.old)[f]
=============================================================================
