----------------------------- MODULE RoutesPanel -----------------------------
(***************************************************************************)
(* The routes side of the plugin as the far2l host drives it.              *)
(*                                                                         *)
(* NetCfgPlugin owns one NetcfgRoutes object and hands its address to      *)
(* every far panel that opens the plugin.  NetcfgRoutes owns the route     *)
(* store (nrts), the "reload is due" flag (change) and a vector of         *)
(* sub-panels, one of which is active: a NetcfgIpRoute per address family  *)
(* (itself showing routing tables, the routes of one table, or the policy  *)
(* rules) and a NetcfgArpRoute.  Records are changed by running `ip`       *)
(* commands and are read back by NetRoutes::Update.                        *)
(*                                                                         *)
(* The host keeps, for each open view, a copy of the last item list; the   *)
(* user data of an item is a raw pointer into nrts.  The program is single *)
(* threaded: a key handler runs to its end, the nested FCTL_UPDATEPANEL    *)
(* included, so one action is one handler.                                 *)
(***************************************************************************)
EXTENDS RouteStore, Naturals, Sequences, FiniteSets

CONSTANTS
  Views,             \* far panels that may show the object
  TableOf,           \* [Obj -> routing table a route lives in]
  Named,             \* [Obj -> a record that `ip ... del` does not tell from it]
  Defaults,          \* the default routes of the main table
  StdTables,         \* directories that are always listed, 0 standing for all
  mcinetPanelValid,  \* multicast panels switched on in config.ini
  mcinet6PanelValid,
  MenuPicks,         \* bound: positions the user picks in the F6 menu
  Toggles,           \* bound: forwarding switches that are ever on
  External           \* bound: records other programs add and remove

Routed  == {"inet", "inet6", "mcinet", "mcinet6"}
RuleOf  == [p \in Routed |-> CASE p = "inet"   -> "rule"
                               [] p = "inet6"  -> "rule6"
                               [] p = "mcinet" -> "mcrule"
                               [] OTHER        -> "mcrule6"]
Classes == Routed \cup {"arp"} \cup Rules
Modes   == {"Tables", "Routes", "Rules"}

ASSUME ConstantsAssumption ==
  /\ TableOf \in [Obj -> Nat \ {0}]
  /\ Named \in [Obj -> Obj]
  /\ Defaults \subseteq Of(Obj, {"inet", "inet6"})
  /\ StdTables \subseteq Nat /\ 0 \in StdTables
  /\ mcinetPanelValid \in BOOLEAN /\ mcinet6PanelValid \in BOOLEAN
  /\ MenuPicks \subseteq Nat
  /\ Toggles \subseteq Fwd
  /\ External \subseteq Obj

\* NetcfgRoutes::panels, numbered from 1 here; fixed by the constructor.
Panels == << "inet", "inet6", "arp" >>
            \o (IF mcinetPanelValid THEN << "mcinet" >> ELSE << >>)
            \o (IF mcinet6PanelValid THEN << "mcinet6" >> ELSE << >>)

VARIABLES
  active,    \* index of the active sub-panel
  change,    \* a reload of nrts is due
  panel,     \* per NetcfgIpRoute: what it shows
  oldPanel,  \* per NetcfgIpRoute: what F3 returns to; unset at construction
  table,     \* per NetcfgIpRoute: routing table whose routes are shown, 0: all
  nrts,      \* the store: records, those without a table, forwarding flags
  kernel,    \* the kernel's records
  kernelFwd, \* the kernel's forwarding switches
  list,      \* per view: the item list the host holds
  unsynced,  \* history: a command of ours changed the kernel since the last load
  halfDone   \* history: the delete half of a Change succeeded, the create failed

store == << nrts, change, list, unsynced, halfDone >>
modes == << panel, oldPanel, table >>
world == << kernel, kernelFwd >>
vars  == << active, modes, world, store >>

Lists  == [kind : Classes \cup {"none", "tables"}, items : SUBSET Obj,
           dirs : SUBSET Nat, live : BOOLEAN]
NoList == [kind |-> "none", items |-> {}, dirs |-> {}, live |-> TRUE]

\* A type invariant; nothing else is claimed by it.
TypeOK ==
  /\ active \in 1 .. Len(Panels)
  /\ change \in BOOLEAN
  /\ panel \in [Routed -> Modes]
  /\ oldPanel \in [Routed -> Modes \cup {"Undefined"}]
  /\ table \in [Routed -> Nat]
  /\ nrts \in Stores
  /\ kernel \in SUBSET Obj
  /\ kernelFwd \in [Fwd -> BOOLEAN]
  /\ list \in [Views -> Lists]
  /\ unsynced \in BOOLEAN
  /\ halfDone \in BOOLEAN

-----------------------------------------------------------------------------
(***************************************************************************)
(* The item lists the sub-panels build from the store.                     *)
(***************************************************************************)

\* /proc/net/route has no table column: records read there keep table 0.
TableNo(st, o) == IF o \in st.bare THEN 0 ELSE TableOf[o]

\* The class of the records the active delegate casts an item's user data to,
\* "tables" when it shows directories, which carry none.
Delegate(a, md) ==
  LET p == Panels[a]
  IN  IF p = "arp" THEN "arp"
      ELSE CASE md[p] = "Tables" -> "tables"
             [] md[p] = "Rules"  -> RuleOf[p]
             [] OTHER            -> p

\* NetcfgIpRoute::GetFindData in route mode: the filter of one table.
RoutesShown(st, p, t) ==
  { o \in Of(st.objs, {p}) : t = 0 \/ TableNo(st, o) = t }

\* NetcfgIpRule::GetFindData and NetcfgArpRoute::GetFindData: all there are.
RulesShown(st, d) == Of(st.objs, {d})
NeighboursShown(st) == Of(st.objs, {"arp"})

\* NetcfgTablesRoute::GetFindData: the directories.
Dirs(st, p) == StdTables \cup { TableNo(st, o) : o \in Of(st.objs, {p}) }

Listing(st, a, md, tb) ==
  LET d == Delegate(a, md)
  IN  [kind  |-> d,
       items |-> CASE d \in Routed  -> RoutesShown(st, d, tb[d])
                   [] d \in Rules   -> RulesShown(st, d)
                   [] d = "arp"     -> NeighboursShown(st)
                   [] d = "tables"  -> {},
       dirs  |-> IF d = "tables" THEN Dirs(st, Panels[a]) ELSE {},
       live  |-> TRUE]

-----------------------------------------------------------------------------
(***************************************************************************)
(* What a handler leaves behind.  GetFindData is the host filling view v:  *)
(* reload if due, build the list, copy it, free it (FreeFindData follows   *)
(* at once, before any other call).  It sees the sub-panel and the kernel  *)
(* the handler has already set.  Redisplay is FCTL_UPDATEPANEL: the host   *)
(* looks the view up by the handle, which all views share.                 *)
(***************************************************************************)

Outdate(l, cleared) == [l EXCEPT !.live = @ /\ (l.items = {} \/ ~cleared)]

GetFindData(v, due, st, dirty, half) ==
  \E u \in IF due THEN Update(st, kernel', kernelFwd') ELSE {Kept(st)} :
    /\ nrts' = u.nrts
    /\ change' = (due /\ ~u.ok)
    /\ list' = [w \in Views |->
                  IF w = v THEN Listing(u.nrts, active', panel', table')
                  ELSE Outdate(list[w], u.cleared)]
    /\ unsynced' = (dirty /\ ~u.ok)
    /\ halfDone' = (half /\ ~u.ok)

Open(v) == list[v].kind # "none"

Redisplay(due, st, dirty, half) ==
  \E w \in Views : Open(w) /\ GetFindData(w, due, st, dirty, half)

\* A handler that asks for no redraw.
Quiet(dirty, half) ==
  /\ unsynced' = dirty /\ halfDone' = half
  /\ UNCHANGED << nrts, change, list >>

Now == Delegate(active, panel)

\* The records a key pressed in v works on are those the delegate expects and
\* are still in the store.  Where this fails the code's behaviour is undefined
\* and the model stops; TrustedLists says when it does not fail.  The tables
\* delegate touches no record.
Trusted(v) ==
  Now # "tables" /\ list[v].items # {} => list[v].live /\ list[v].kind = Now

Editable(v) == Open(v) /\ Now # "tables" /\ Trusted(v)

-----------------------------------------------------------------------------
(***************************************************************************)
(* The host opens and closes views.                                        *)
(***************************************************************************)

OpenPlugin(v) ==
  /\ ~Open(v)
  /\ UNCHANGED << active, modes, world >>
  /\ GetFindData(v, change, nrts, unsynced, halfDone)

ClosePlugin(v) ==
  /\ Open(v)
  /\ list' = [list EXCEPT ![v] = NoList]
  /\ UNCHANGED << active, modes, world, nrts, change, unsynced, halfDone >>

(***************************************************************************)
(* Keys NetcfgRoutes handles itself.                                       *)
(***************************************************************************)

\* Slip: the menu changes the sub-panel without asking for the redraw.
Slip_SelectActivePanel(v) ==
  /\ Open(v)
  /\ active' \in MenuPicks \cap (1 .. Len(Panels))
  /\ UNCHANGED << modes, world >>
  /\ Quiet(unsynced, halfDone)

SelectActivePanel(v) ==
  /\ Open(v)
  /\ active' \in MenuPicks \cap (1 .. Len(Panels))
  /\ UNCHANGED << modes, world >>
  /\ Redisplay(change, nrts, unsynced, halfDone)

Reload(v) ==
  /\ Open(v)
  /\ UNCHANGED << active, modes, world >>
  /\ Redisplay(TRUE, nrts, unsynced, halfDone)

\* F7: the switches the user flipped in the dialog; for each one a command,
\* which may fail; the store takes over what succeeded.
EditSettings(v) ==
  /\ Open(v)
  /\ UNCHANGED << active, modes, kernel >>
  /\ \E flipped \in SUBSET Toggles : \E done \in SUBSET flipped :
       LET Set(fw) == [f \in Fwd |-> IF f \in done THEN ~nrts.fwd[f] ELSE fw[f]]
           due == change \/ done # {}
       IN  /\ kernelFwd' = Set(kernelFwd)
           /\ IF due
              THEN Redisplay(TRUE, [nrts EXCEPT !.fwd = Set(nrts.fwd)],
                             unsynced \/ done # {}, halfDone)
              ELSE Quiet(unsynced, halfDone)

(***************************************************************************)
(* Keys of NetcfgIpRoute that change what it shows.                        *)
(***************************************************************************)

\* Slip: entering the rules does not remember what was shown.
Slip_SwitchRules(v) ==
  LET p == Panels[active]
  IN  /\ Open(v)
      /\ p # "arp"
      /\ panel' = [panel EXCEPT ![p] = IF @ = "Rules" THEN oldPanel[p] ELSE "Rules"]
      /\ UNCHANGED << active, oldPanel, table, world >>
      /\ Redisplay(TRUE, nrts, unsynced, halfDone)

SwitchRules(v) ==
  LET p == Panels[active]
  IN  /\ Open(v)
      /\ p # "arp"
      /\ IF panel[p] = "Rules"
         THEN /\ panel' = [panel EXCEPT ![p] = oldPanel[p]]
              /\ UNCHANGED oldPanel
         ELSE /\ panel' = [panel EXCEPT ![p] = "Rules"]
              /\ oldPanel' = [oldPanel EXCEPT ![p] = panel[p]]
      /\ UNCHANGED << active, table, world >>
      /\ Redisplay(TRUE, nrts, unsynced, halfDone)

\* The table number travels in the size of the item under the cursor, which
\* every list but the directories leaves 0, as GetTable does without an item.
SizesIn(v) == IF list[v].kind = "tables" THEN list[v].dirs ELSE {0}

\* GetCurrentPanelItem finds one; lists of routes start with "..".
HasItem(v) == list[v].kind \in Routed \cup {"tables"} \/ list[v].items # {}

\* Enter among the tables.  With a modifier held NetcfgIpRoute switches too but
\* NetcfgTablesRoute does not ask for the redraw.
EnterTable(v, plain) ==
  LET p == Panels[active]
  IN  /\ Open(v)
      /\ Now = "tables"
      /\ \E t \in SizesIn(v) : table' = [table EXCEPT ![p] = t]
      /\ panel' = [panel EXCEPT ![p] = "Routes"]
      /\ UNCHANGED << active, oldPanel, world >>
      /\ IF plain /\ HasItem(v)
         THEN Redisplay(change, nrts, unsynced, halfDone)
         ELSE Quiet(unsynced, halfDone)

\* Enter on "..", which only a list of routes has (OPIF_ADDDOTS).
LeaveTable(v) ==
  LET p == Panels[active]
  IN  /\ Open(v)
      /\ Now \in Routed /\ list[v].kind \in Routed
      /\ panel' = [panel EXCEPT ![p] = "Tables"]
      /\ UNCHANGED << active, oldPanel, table, world >>
      /\ Redisplay(change, nrts, unsynced, halfDone)

(***************************************************************************)
(* Keys that run `ip` commands: F8, F4 and Shift-F4 of the three delegates *)
(* share one control.  A delete command names less than the whole record   *)
(* (of a route its type, destination and table, not the gateway or the     *)
(* device); the kernel takes one of the records that fit.                  *)
(***************************************************************************)

\* A record read from /proc has none of the `valid' bits the command line is
\* built from: of a route it becomes `ip route del default', of a neighbour
\* `ip neigh del', which fails.
Fits(o) == IF o \in nrts.bare THEN Of(Defaults, {Class[o]})
           ELSE { d \in Obj : Named[d] = Named[o] }

\* One command for each record of sel: some take effect, each on one record.
Hit(sel) ==
  { gone \in SUBSET kernel :
      \E by \in [gone -> sel] : \A d, e \in gone :
        d \in Fits(by[d]) /\ (by[d] = by[e] => d = e) }

\* F8: delete the selected records one by one; any success asks for a redraw.
DeleteSelected(v, sel) ==
  /\ Editable(v)
  /\ sel \subseteq list[v].items
  /\ \E gone \in Hit(sel) \ {{}} : kernel' = kernel \ gone
  /\ UNCHANGED << active, modes, kernelFwd >>
  /\ Redisplay(TRUE, nrts, TRUE, halfDone)

\* Slip: the result of Change is dropped, so the edited record is not shown.
Slip_EditDone(v) ==
  /\ Editable(v)
  /\ \E o \in list[v].items \cap kernel, n \in { m \in Obj : Class[m] = Now } :
       /\ kernel' = (kernel \ {o}) \cup {n}
       /\ nrts' = [nrts EXCEPT !.objs = (@ \ {o}) \cup {n}]
  /\ unsynced' = TRUE
  /\ UNCHANGED << active, modes, kernelFwd, change, list, halfDone >>

\* F4: Change is Delete, then Create of the edited record, then *this = edited,
\* a copy that keeps what the user did not fill in, the table included.
EditDone(v) ==
  /\ Editable(v)
  /\ \E o \in list[v].items, n \in { m \in Obj : Class[m] = Now } :
       /\ \E gone \in Hit({o}) \ {{}} :
            /\ n \notin kernel \ gone
            /\ kernel' = (kernel \ gone) \cup {n}
       /\ UNCHANGED << active, modes, kernelFwd >>
       /\ \E b \in IF o \in nrts.bare THEN {{}, {n}} ELSE {{}} :
            Redisplay(TRUE, [nrts EXCEPT !.objs = (@ \ {o}) \cup {n},
                                         !.bare = (@ \ {o, n}) \cup b],
                      TRUE, halfDone)

\* ... and when the Create fails the record is gone and nothing is redrawn.
EditHalfDone(v) ==
  /\ Editable(v)
  /\ \E o \in list[v].items :
       \E gone \in Hit({o}) \ {{}} : kernel' = kernel \ gone
  /\ UNCHANGED << active, modes, kernelFwd >>
  /\ Quiet(TRUE, TRUE)

\* Slip: the redraw after a create does not mark the store as outdated.
Slip_CreateRecord(v) ==
  /\ Open(v)
  /\ \E n \in { m \in Obj : Class[m] = Now } \ kernel : kernel' = kernel \cup {n}
  /\ UNCHANGED << active, modes, kernelFwd >>
  /\ Redisplay(change, nrts, TRUE, halfDone)

\* Shift-F4
CreateRecord(v) ==
  /\ Open(v)
  /\ \E n \in { m \in Obj : Class[m] = Now } \ kernel : kernel' = kernel \cup {n}
  /\ UNCHANGED << active, modes, kernelFwd >>
  /\ Redisplay(TRUE, nrts, TRUE, halfDone)

\* The handlers of the three delegates.
Delete(v) == \E sel \in SUBSET list[v].items : DeleteSelected(v, sel)
Edit(v)   == EditDone(v) \/ EditHalfDone(v)

DeleteIpRoute(v) == Now \in Routed /\ Delete(v)
EditIpRoute(v)   == Now \in Routed /\ Edit(v)
CreateIpRoute(v) == Now \in Routed /\ CreateRecord(v)

DeleteRule(v) == Now \in Rules /\ Delete(v)
EditRule(v)   == Now \in Rules /\ Edit(v)
CreateRule(v) == Now \in Rules /\ CreateRecord(v)

DeleteArp(v) == Now = "arp" /\ Delete(v)
EditArp(v)   == Now = "arp" /\ Edit(v)
CreateArp(v) == Now = "arp" /\ CreateRecord(v)

\* Other programs change the kernel as well.
KernelEvent ==
  /\ \E o \in External :
       kernel' = IF o \in kernel THEN kernel \ {o} ELSE kernel \cup {o}
  /\ UNCHANGED << active, modes, kernelFwd, store >>

-----------------------------------------------------------------------------
Init ==
  /\ active = 1
  /\ change = TRUE
  /\ panel = [p \in Routed |-> "Tables"]
  /\ oldPanel = [p \in Routed |-> "Undefined"]
  /\ table = [p \in Routed |-> 0]
  /\ nrts = [objs |-> {}, bare |-> {}, fwd |-> [f \in Fwd |-> FALSE]]
  /\ kernel \in SUBSET Obj
  /\ \E on \in SUBSET Toggles : kernelFwd = [f \in Fwd |-> f \in on]
  /\ list = [v \in Views |-> NoList]
  /\ unsynced = FALSE
  /\ halfDone = FALSE

Next ==
  \/ \E v \in Views :
       \/ OpenPlugin(v)
       \/ ClosePlugin(v)
       \/ SelectActivePanel(v)
       \/ Reload(v)
       \/ EditSettings(v)
       \/ SwitchRules(v)
       \/ \E plain \in BOOLEAN : EnterTable(v, plain)
       \/ LeaveTable(v)
       \/ DeleteIpRoute(v) \/ EditIpRoute(v) \/ CreateIpRoute(v)
       \/ DeleteRule(v) \/ EditRule(v) \/ CreateRule(v)
       \/ DeleteArp(v) \/ EditArp(v) \/ CreateArp(v)
  \/ KernelEvent

Spec == Init /\ [][Next]_vars

-----------------------------------------------------------------------------
(***************************************************************************)
(* Properties.                                                             *)
(***************************************************************************)

\* What F8, F4 and Enter dereference is a record of the class the active
\* delegate casts it to, and one the store has not cleared since the host
\* copied the pointer (DeleteIpRoute, EditRule, EditArp ... after Update).
TrustedLists == \A v \in Views : Trusted(v)

\* What an open view shows is what the store and the modes give now, for as
\* long as its list is of the current kind: no handler that changes what is
\* shown forgets the redraw (Ctrl-Enter on a table is the one that does).
ListShowsStore ==
  \A v \in Views :
    list[v].kind = Now =>
      list[v] = Listing(nrts, active, panel, table)

\* F3 inside the rules always leads out again, to tables or routes: the field
\* oldPanel, which the constructor leaves unset, has been written by then.
RulesHaveExit ==
  \A p \in Routed : panel[p] = "Rules" => oldPanel[p] \in {"Tables", "Routes"}

\* Once a command of ours has changed the kernel the store is reloaded, or the
\* reload is still due: the OR over several commands, F7's flag and the flag
\* of a failed reload are never lost.  A Change whose Create half failed is
\* the exception the code makes.
UnsyncedIsPending == unsynced => change \/ halfDone

\* While no other program interferes, the store holds no record the kernel no
\* longer has unless a reload is due: whatever mixture of netlink and /proc
\* readings it went through, nothing survives from before.
NoGhosts == ~change /\ ~halfDone => nrts.objs \subseteq kernel

\* The forwarding switches F7 shows are those of the kernel unless a reload
\* is due, whichever command of EditSettings or file of Update failed.
ForwardingSynced == ~change => nrts.fwd = kernelFwd

\* F8 removes routes of the destinations it has listed, rules and neighbours
\* as listed: whatever else a command leaves unsaid, it says that.
OnlyNamedDeleted ==
  [][\A v \in Views : \A sel \in SUBSET list[v].items :
       DeleteSelected(v, sel) =>
         \A d \in kernel \ kernel' : \E o \in sel : Named[d] = Named[o]]_vars
=============================================================================
