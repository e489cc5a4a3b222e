------------------------- MODULE RoutesPanel_proofs -------------------------
(***************************************************************************)
(* Proofs about RoutesPanel for every value of its constants.              *)
(*                                                                         *)
(* Safe is the inductive invariant.  RulesHaveExit is part of it because   *)
(* F3 copies oldPanel into panel, so the type of panel depends on it.      *)
(* What one view shows needs a second one, Current, under the assumption   *)
(* that a single view shows the object.                                    *)
(***************************************************************************)
EXTENDS RoutesPanel, TLAPS

\* The facts about the store that a handler establishes through GetFindData.
Refreshed(due, st, dirty, half) ==
  /\ nrts' \in Stores
  /\ change' \in BOOLEAN
  /\ list' \in [Views -> Lists]
  /\ unsynced' \in BOOLEAN
  /\ halfDone' \in BOOLEAN
  /\ unsynced' => dirty /\ (due => change')
  /\ ~due => halfDone' = half
  /\ ~change' => IF due THEN nrts'.objs \subseteq kernel' /\ nrts'.fwd = kernelFwd'
                 ELSE nrts' = st

\* The type of what a handler sets before the redraw.
ModesTyped ==
  /\ active \in 1 .. Len(Panels)
  /\ panel \in [Routed -> Modes]
  /\ table \in [Routed -> Nat]
  /\ kernel \in SUBSET Obj
  /\ kernelFwd \in [Fwd -> BOOLEAN]

Safe == TypeOK /\ RulesHaveExit /\ UnsyncedIsPending /\ ForwardingSynced

-----------------------------------------------------------------------------
(***************************************************************************)
(* The operators.                                                          *)
(***************************************************************************)

\* Every sub-panel is a NetcfgIpRoute of a family or the NetcfgArpRoute.
LEMMA PanelsType ==
  /\ Len(Panels) \in Nat /\ 1 \in 1 .. Len(Panels)
  /\ \A i \in 1 .. Len(Panels) : Panels[i] \in Routed \cup {"arp"}
<1>1. CASE mcinetPanelValid /\ mcinet6PanelValid
  BY <1>1 DEF Panels, Routed
<1>2. CASE mcinetPanelValid /\ ~mcinet6PanelValid
  BY <1>2 DEF Panels, Routed
<1>3. CASE ~mcinetPanelValid /\ mcinet6PanelValid
  BY <1>3 DEF Panels, Routed
<1>4. CASE ~mcinetPanelValid /\ ~mcinet6PanelValid
  BY <1>4 DEF Panels, Routed
<1> QED BY <1>1, <1>2, <1>3, <1>4

\* The delegate of a typed state names a class of records, or the tables.
LEMMA DelegateType ==
  ASSUME NEW a \in 1 .. Len(Panels), NEW md \in [Routed -> Modes]
  PROVE  Delegate(a, md) \in Classes \cup {"tables"}
<1> DEFINE p == Panels[a]
<1>1. p \in Routed \cup {"arp"}
  BY PanelsType
<1>2. p \in Routed => RuleOf[p] \in Rules
  BY DEF Routed, RuleOf, Rules
<1> QED BY <1>1, <1>2 DEF Delegate, Classes

\* Table numbers are natural, whichever reader stored the record.
LEMMA DirsType ==
  ASSUME NEW st \in Stores, NEW p
  PROVE  Dirs(st, p) \subseteq Nat
BY ConstantsAssumption, ZenonT(60) DEF Dirs, TableNo, Of, Stores

\* A list built from a typed store has the type of a list.
LEMMA ListingType ==
  ASSUME NEW st \in Stores, NEW a \in 1 .. Len(Panels),
         NEW md \in [Routed -> Modes], NEW tb
  PROVE  Listing(st, a, md, tb) \in Lists
<1>1. Delegate(a, md) \in Classes \cup {"none", "tables"}
  BY DelegateType
<1>2. /\ \A p, t : RoutesShown(st, p, t) \subseteq Obj
      /\ \A cs : Of(st.objs, cs) \subseteq Obj
  BY DEF RoutesShown, Of, Stores
<1>3. Dirs(st, Panels[a]) \subseteq Nat
  BY DirsType
<1>4. /\ \A d : RulesShown(st, d) \subseteq Obj
      /\ NeighboursShown(st) \subseteq Obj
  BY <1>2 DEF RulesShown, NeighboursShown
<1>5. Delegate(a, md) \in Routed \cup {"arp"} \cup Rules \cup {"tables"}
  BY DelegateType DEF Classes
<1>6. Listing(st, a, md, tb).items \subseteq Obj
  BY <1>2, <1>4, <1>5 DEF Listing
<1> QED BY <1>1, <1>3, <1>6 DEF Listing, Lists

\* The steps, the three delegates taken together.
LEMMA NextCases ==
  ASSUME Next
  PROVE  \/ \E v \in Views :
              \/ OpenPlugin(v) \/ ClosePlugin(v)
              \/ SelectActivePanel(v) \/ Reload(v) \/ EditSettings(v)
              \/ SwitchRules(v) \/ LeaveTable(v)
              \/ \E plain \in BOOLEAN : EnterTable(v, plain)
              \/ \E sel \in SUBSET list[v].items : DeleteSelected(v, sel)
              \/ EditDone(v) \/ EditHalfDone(v) \/ CreateRecord(v)
         \/ KernelEvent
BY DEF Next, DeleteIpRoute, DeleteRule, DeleteArp, Delete, EditIpRoute, EditRule,
       EditArp, Edit, CreateIpRoute, CreateRule, CreateArp

\* Commands take records from the kernel, never others.
LEMMA HitType == \A sel : Hit(sel) \subseteq SUBSET kernel
BY DEF Hit

\* A reading is typed, and a successful one saw only what the kernel has.
FairReading(s, k) ==
  /\ s.ok \in BOOLEAN /\ s.cleared \in BOOLEAN
  /\ s.objs \in SUBSET Obj /\ s.bare \in SUBSET Obj
  /\ s.ok => s.objs \subseteq k

\* Both readers give such readings.
LEMMA ReadingFacts ==
  ASSUME NEW st \in Stores, NEW k \in SUBSET Obj,
         NEW r \in UpdateByNetlink(st, k),
         NEW s \in IF r.ok THEN {r} ELSE UpdateByProcNet(r, k)
  PROVE  FairReading(s, k)
<1>1. ASSUME NEW os, os \subseteq k, NEW ok \in BOOLEAN, NEW bare \in {{}, os}
      PROVE  FairReading(Reading(ok, os, bare), k)
  BY <1>1 DEF Reading, FairReading
<1>2. FairReading(Untouched(st), k)
  BY DEF Untouched, Stores, FairReading
<1>3. FairReading(r, k)
  <2>1. ASSUME r # Untouched(st) PROVE FairReading(r, k)
    <3>1. PICK os \in Fetched(k), links \in BOOLEAN :
            r = Reading(Of(os, {"arp"}) # {} /\ links, os, {})
      BY <2>1 DEF UpdateByNetlink
    <3>2. os \subseteq k
      BY DEF Fetched
    <3>3. (Of(os, {"arp"}) # {} /\ links) \in BOOLEAN
      OBVIOUS
    <3> QED BY <3>1, <3>2, <3>3, <1>1
  <2> QED BY <1>2, <2>1
<1>4. ASSUME NEW x \in UpdateByProcNet(r, k) PROVE FairReading(x, k)
  BY <1>1, <1>3, ZenonT(60) DEF UpdateByProcNet, Of
<1> QED BY <1>3, <1>4

\* NetRoutes::Update leaves a typed store; when it reports success the store
\* holds only kernel records and the kernel's forwarding switches.
LEMMA UpdateFacts ==
  ASSUME NEW st \in Stores, NEW k \in SUBSET Obj, NEW kf \in [Fwd -> BOOLEAN],
         NEW u \in Update(st, k, kf)
  PROVE  /\ u.ok \in BOOLEAN /\ u.cleared \in BOOLEAN /\ u.nrts \in Stores
         /\ u.ok => u.nrts.objs \subseteq k /\ u.nrts.fwd = kf
<1> DEFINE read == UNION { IF r.ok THEN {r} ELSE UpdateByProcNet(r, k) :
                             r \in UpdateByNetlink(st, k) }
<1>1. PICK s \in read, got \in {{}, {"ipv4_forwarding"}, Fwd} :
        u = [ok      |-> s.ok /\ got = Fwd,
             cleared |-> s.cleared,
             nrts    |-> [objs |-> s.objs, bare |-> s.bare,
                          fwd  |-> [f \in Fwd |-> IF s.ok /\ f \in got THEN kf[f]
                                                  ELSE st.fwd[f]]]]
  BY DEF Update
<1>2. FairReading(s, k)
  BY ReadingFacts
<1>3. st.fwd \in [Fwd -> BOOLEAN]
  BY DEF Stores
<1>4. u.nrts \in Stores
  BY <1>1, <1>2, <1>3 DEF Stores, FairReading
<1>5. ASSUME u.ok PROVE u.nrts.objs \subseteq k /\ u.nrts.fwd = kf
  BY <1>1, <1>2, <1>5 DEF FairReading
<1> QED BY <1>1, <1>2, <1>4, <1>5 DEF FairReading

-----------------------------------------------------------------------------
(***************************************************************************)
(* The end of a handler.                                                   *)
(***************************************************************************)

\* Filling a view, from a typed store, gives a typed store; afterwards the
\* reload is still due or the store is the kernel's (or was not reloaded).
LEMMA GetFindDataRefreshes ==
  ASSUME TypeOK, ModesTyped',
         NEW v \in Views, NEW due \in BOOLEAN, NEW st \in Stores,
         NEW dirty \in BOOLEAN, NEW half \in BOOLEAN,
         GetFindData(v, due, st, dirty, half)
  PROVE  Refreshed(due, st, dirty, half)
<1>1. PICK u \in IF due THEN Update(st, kernel', kernelFwd') ELSE {Kept(st)} :
        /\ nrts' = u.nrts
        /\ change' = (due /\ ~u.ok)
        /\ list' = [w \in Views |->
                      IF w = v THEN Listing(u.nrts, active', panel', table')
                      ELSE Outdate(list[w], u.cleared)]
        /\ unsynced' = (dirty /\ ~u.ok)
        /\ halfDone' = (half /\ ~u.ok)
  BY DEF GetFindData
<1>2. /\ u.ok \in BOOLEAN /\ u.cleared \in BOOLEAN /\ u.nrts \in Stores
      /\ u.ok => due /\ u.nrts.objs \subseteq kernel' /\ u.nrts.fwd = kernelFwd'
      /\ ~due => u.nrts = st /\ ~u.ok
  <2>1. CASE due
    BY <2>1, UpdateFacts DEF ModesTyped
  <2>2. CASE ~due
    <3>1. u = Kept(st)
      BY <2>2
    <3> QED BY <2>2, <3>1 DEF Kept
  <2> QED BY <2>1, <2>2
<1>3. Listing(u.nrts, active', panel', table') \in Lists
  BY <1>2, ListingType DEF ModesTyped
<1>4. ASSUME NEW w \in Views PROVE Outdate(list[w], u.cleared) \in Lists
  <2>1. list[w] \in Lists
    BY DEF TypeOK
  <2> QED BY <2>1, <1>2 DEF Outdate, Lists
<1>5. list' \in [Views -> Lists]
  BY <1>1, <1>3, <1>4
<1>6. /\ unsynced' => dirty /\ (due => change')
      /\ ~due => halfDone' = half
      /\ ~change' => IF due THEN nrts'.objs \subseteq kernel' /\ nrts'.fwd = kernelFwd'
                     ELSE nrts' = st
  BY <1>1, <1>2
<1>7. nrts' \in Stores /\ change' \in BOOLEAN /\ unsynced' \in BOOLEAN
      /\ halfDone' \in BOOLEAN
  BY <1>1, <1>2
<1> QED BY <1>5, <1>6, <1>7 DEF Refreshed

\* The same for a redraw, whichever view the host finds.
LEMMA RedisplayRefreshes ==
  ASSUME TypeOK, ModesTyped',
         NEW due \in BOOLEAN, NEW st \in Stores,
         NEW dirty \in BOOLEAN, NEW half \in BOOLEAN,
         Redisplay(due, st, dirty, half)
  PROVE  Refreshed(due, st, dirty, half)
BY GetFindDataRefreshes DEF Redisplay

-----------------------------------------------------------------------------
(***************************************************************************)
(* Safe is inductive.                                                      *)
(***************************************************************************)

LEMMA SafeInit == Init => Safe
<1> SUFFICES ASSUME Init PROVE Safe
  OBVIOUS
<1> USE DEF Init
<1>0. kernelFwd \in [Fwd -> BOOLEAN]
  <2>1. PICK on \in SUBSET Toggles : kernelFwd = [f \in Fwd |-> f \in on]
    OBVIOUS
  <2>2. \A f \in Fwd : (f \in on) \in BOOLEAN
    OBVIOUS
  <2> QED BY <2>1, <2>2
<1>1. /\ active \in 1 .. Len(Panels) /\ change \in BOOLEAN
      /\ kernel \in SUBSET Obj
      /\ unsynced \in BOOLEAN /\ halfDone \in BOOLEAN
  BY PanelsType
<1>2. /\ panel \in [Routed -> Modes] /\ table \in [Routed -> Nat]
      /\ oldPanel \in [Routed -> Modes \cup {"Undefined"}]
  BY DEF Modes
<1>3. nrts \in Stores
  BY DEF Stores
<1>4. list \in [Views -> Lists]
  BY DEF NoList, Lists
<1>5. RulesHaveExit /\ UnsyncedIsPending /\ ForwardingSynced
  BY DEF RulesHaveExit, UnsyncedIsPending, ForwardingSynced
<1> QED BY <1>0, <1>1, <1>2, <1>3, <1>4, <1>5 DEF Safe, TypeOK

\* What every handler keeps of Safe, given the modes and world it leaves and
\* how it ends: a refresh of a store whose flags agree with the kernel when
\* no reload is due.
LEMMA SafeAfter ==
  ASSUME Safe, ModesTyped',
         oldPanel' \in [Routed -> Modes \cup {"Undefined"}], RulesHaveExit',
         NEW due \in BOOLEAN, NEW st \in Stores, NEW dirty \in BOOLEAN,
         NEW half \in BOOLEAN, Refreshed(due, st, dirty, half),
         dirty => due \/ half,
         ~due => st.fwd = kernelFwd'
  PROVE  Safe'
<1>1. TypeOK'
  BY DEF TypeOK, ModesTyped, Refreshed
<1>2. UnsyncedIsPending'
  BY DEF Refreshed, UnsyncedIsPending
<1>3. ForwardingSynced'
  <2> SUFFICES ASSUME ~change' PROVE nrts'.fwd = kernelFwd'
    BY DEF ForwardingSynced
  <2> QED BY DEF Refreshed
<1> QED BY <1>1, <1>2, <1>3 DEF Safe

\* A redraw at the end of a handler keeps Safe.
LEMMA SafeRedisplay ==
  ASSUME Safe, ModesTyped',
         oldPanel' \in [Routed -> Modes \cup {"Undefined"}], RulesHaveExit',
         NEW due \in BOOLEAN, NEW st \in Stores, NEW dirty \in BOOLEAN,
         NEW half \in BOOLEAN, Redisplay(due, st, dirty, half),
         dirty => due \/ half, ~due => st.fwd = kernelFwd'
  PROVE  Safe'
<1>1. Refreshed(due, st, dirty, half)
  BY RedisplayRefreshes DEF Safe
<1> QED BY <1>1, SafeAfter

\* A handler that asks for no redraw keeps Safe if it records what it did.
LEMMA SafeQuiet ==
  ASSUME Safe, ModesTyped', UNCHANGED << oldPanel, kernelFwd >>, RulesHaveExit',
         NEW dirty \in BOOLEAN, NEW half \in BOOLEAN, Quiet(dirty, half),
         dirty => change \/ half
  PROVE  Safe'
<1>1. TypeOK'
  BY DEF Safe, TypeOK, ModesTyped, Quiet
<1> QED BY <1>1 DEF Safe, Quiet, UnsyncedIsPending, ForwardingSynced

\* No handler, and no other program, breaks Safe.
LEMMA SafeNext == Safe /\ [Next]_vars => Safe'
<1> SUFFICES ASSUME Safe, [Next]_vars PROVE Safe'
  OBVIOUS
<1>0. /\ TypeOK /\ RulesHaveExit
      /\ unsynced => change \/ halfDone
      /\ ~change => nrts.fwd = kernelFwd
  BY DEF Safe, UnsyncedIsPending, ForwardingSynced
<1>1. UNCHANGED modes /\ active' \in 1 .. Len(Panels) /\ kernel' \in SUBSET Obj
      /\ kernelFwd' \in [Fwd -> BOOLEAN]
      => /\ ModesTyped' /\ RulesHaveExit'
         /\ oldPanel' \in [Routed -> Modes \cup {"Undefined"}]
  BY <1>0 DEF TypeOK, ModesTyped, RulesHaveExit, modes
<1>2. active \in 1 .. Len(Panels) /\ kernel \in SUBSET Obj
      /\ kernelFwd \in [Fwd -> BOOLEAN] /\ nrts \in Stores
      /\ change \in BOOLEAN /\ unsynced \in BOOLEAN /\ halfDone \in BOOLEAN
  BY <1>0 DEF TypeOK
<1>3. Panels[active] # "arp" => Panels[active] \in Routed
  BY <1>2, PanelsType
<1>4. ASSUME NEW v \in Views, OpenPlugin(v) PROVE Safe'
  <2>1. ModesTyped' /\ RulesHaveExit'
        /\ oldPanel' \in [Routed -> Modes \cup {"Undefined"}]
    BY <1>1, <1>2, <1>4 DEF OpenPlugin, world
  <2>2. Refreshed(change, nrts, unsynced, halfDone)
    BY <1>0, <1>2, <1>4, <2>1, GetFindDataRefreshes DEF OpenPlugin
  <2>3. kernelFwd' = kernelFwd
    BY <1>4 DEF OpenPlugin, world
  <2> QED BY <1>0, <1>2, <2>1, <2>2, <2>3, SafeAfter
<1>5. ASSUME NEW v \in Views, ClosePlugin(v) PROVE Safe'
  <2>1. list' \in [Views -> Lists]
    BY <1>0, <1>5 DEF ClosePlugin, NoList, Lists, TypeOK
  <2> QED BY <1>0, <1>5, <2>1
       DEF ClosePlugin, Safe, TypeOK, RulesHaveExit, UnsyncedIsPending,
           ForwardingSynced, modes, world
<1>6. ASSUME NEW v \in Views, SelectActivePanel(v) PROVE Safe'
  <2>1. ModesTyped' /\ RulesHaveExit' /\ kernelFwd' = kernelFwd
        /\ oldPanel' \in [Routed -> Modes \cup {"Undefined"}]
    BY <1>1, <1>2, <1>6 DEF SelectActivePanel, world
  <2> QED BY <1>0, <1>2, <1>6, <2>1, SafeRedisplay DEF SelectActivePanel
<1>7. ASSUME NEW v \in Views, Reload(v) PROVE Safe'
  <2>1. ModesTyped' /\ RulesHaveExit'
        /\ oldPanel' \in [Routed -> Modes \cup {"Undefined"}]
    BY <1>1, <1>2, <1>7 DEF Reload, world
  <2> QED BY <1>2, <1>7, <2>1, SafeRedisplay DEF Reload
<1>8. ASSUME NEW v \in Views, EditSettings(v) PROVE Safe'
  <2> DEFINE Set(fw, done) == [f \in Fwd |-> IF f \in done THEN ~nrts.fwd[f] ELSE fw[f]]
  <2>1. PICK flipped \in SUBSET Toggles, done \in SUBSET Toggles :
          /\ kernelFwd' = Set(kernelFwd, done)
          /\ IF change \/ done # {}
             THEN Redisplay(TRUE, [nrts EXCEPT !.fwd = Set(nrts.fwd, done)],
                            unsynced \/ done # {}, halfDone)
             ELSE Quiet(unsynced, halfDone)
    BY <1>8 DEF EditSettings
  <2>2. ASSUME NEW fw \in [Fwd -> BOOLEAN]
        PROVE  Set(fw, done) \in [Fwd -> BOOLEAN]
    <3>1. nrts.fwd \in [Fwd -> BOOLEAN]
      BY <1>2 DEF Stores
    <3> QED BY <3>1
  <2>3. ModesTyped' /\ RulesHaveExit'
        /\ oldPanel' \in [Routed -> Modes \cup {"Undefined"}]
    BY <1>1, <1>2, <1>8, <2>1, <2>2 DEF EditSettings
  <2>4. [nrts EXCEPT !.fwd = Set(nrts.fwd, done)] \in Stores
    BY <1>2, <2>2 DEF Stores
  <2>5. CASE change \/ done # {}
    BY <2>1, <2>3, <2>4, <2>5, <1>2, SafeRedisplay
  <2>6. CASE ~change /\ done = {}
    <3>1. kernelFwd' = kernelFwd
      BY <1>2, <2>1, <2>6
    <3>2. Quiet(unsynced, halfDone) /\ oldPanel' = oldPanel
      BY <1>8, <2>1, <2>6 DEF EditSettings, modes
    <3> QED BY <1>0, <1>2, <2>3, <3>1, <3>2, SafeQuiet
  <2> QED BY <2>5, <2>6
<1>9. ASSUME NEW v \in Views, SwitchRules(v) PROVE Safe'
  <2>1. PICK p \in Routed :
          /\ IF panel[p] = "Rules"
             THEN /\ panel' = [panel EXCEPT ![p] = oldPanel[p]]
                  /\ UNCHANGED oldPanel
             ELSE /\ panel' = [panel EXCEPT ![p] = "Rules"]
                  /\ oldPanel' = [oldPanel EXCEPT ![p] = panel[p]]
    BY <1>3, <1>9 DEF SwitchRules
  <2>2. /\ panel \in [Routed -> Modes]
        /\ oldPanel \in [Routed -> Modes \cup {"Undefined"}]
        /\ \A q \in Routed : panel[q] = "Rules" => oldPanel[q] \in {"Tables", "Routes"}
    BY <1>0 DEF TypeOK, RulesHaveExit
  <2>3. /\ panel' \in [Routed -> Modes]
        /\ oldPanel' \in [Routed -> Modes \cup {"Undefined"}]
        /\ \A q \in Routed : panel'[q] = "Rules" => oldPanel'[q] \in {"Tables", "Routes"}
    BY <2>1, <2>2, SMTT(30) DEF Modes
  <2>4. ModesTyped' /\ RulesHaveExit'
    BY <1>0, <1>9, <2>3 DEF SwitchRules, ModesTyped, TypeOK, RulesHaveExit, world
  <2> QED BY <1>2, <1>9, <2>3, <2>4, SafeRedisplay, ZenonT(30) DEF SwitchRules
<1>10. ASSUME NEW v \in Views, NEW plain \in BOOLEAN, EnterTable(v, plain)
       PROVE  Safe'
  <2>1. Panels[active] \in Routed
    BY <1>3, <1>10 DEF EnterTable, Now, Delegate
  <2>2. SizesIn(v) \subseteq Nat
    BY <1>0 DEF SizesIn, TypeOK, Lists
  <2>3. /\ panel' \in [Routed -> Modes] /\ table' \in [Routed -> Nat]
        /\ RulesHaveExit'
    BY <1>0, <1>10, <2>1, <2>2 DEF EnterTable, TypeOK, Modes, RulesHaveExit
  <2>4. /\ ModesTyped' /\ kernelFwd' = kernelFwd /\ oldPanel' = oldPanel
        /\ oldPanel' \in [Routed -> Modes \cup {"Undefined"}]
    BY <1>0, <1>10, <2>3 DEF EnterTable, TypeOK, ModesTyped, world
  <2>5. Redisplay(change, nrts, unsynced, halfDone) \/ Quiet(unsynced, halfDone)
    BY <1>10 DEF EnterTable
  <2> QED BY <1>0, <1>2, <2>3, <2>4, <2>5, SafeRedisplay, SafeQuiet
<1>11. ASSUME NEW v \in Views, LeaveTable(v) PROVE Safe'
  <2>1. /\ panel' \in [Routed -> Modes] /\ RulesHaveExit'
    BY <1>0, <1>11 DEF LeaveTable, TypeOK, Modes, RulesHaveExit
  <2>2. /\ ModesTyped' /\ kernelFwd' = kernelFwd
        /\ oldPanel' \in [Routed -> Modes \cup {"Undefined"}]
    BY <1>0, <1>11, <2>1 DEF LeaveTable, TypeOK, ModesTyped, world
  <2> QED BY <1>0, <1>2, <1>11, <2>1, <2>2, SafeRedisplay DEF LeaveTable
<1>12. ASSUME NEW v \in Views, NEW sel, DeleteSelected(v, sel) PROVE Safe'
  <2>1. kernel' \in SUBSET Obj
    BY <1>2, <1>12 DEF DeleteSelected
  <2>2. ModesTyped' /\ RulesHaveExit'
        /\ oldPanel' \in [Routed -> Modes \cup {"Undefined"}]
    BY <1>1, <1>2, <1>12, <2>1 DEF DeleteSelected
  <2> QED BY <1>2, <1>12, <2>2, SafeRedisplay DEF DeleteSelected
<1>13. ASSUME NEW v \in Views, EditDone(v) PROVE Safe'
  <2>0. PICK o \in list[v].items, n \in { m \in Obj : Class[m] = Now } :
          /\ \E gone \in Hit({o}) \ {{}} : kernel' = (kernel \ gone) \cup {n}
          /\ UNCHANGED << active, modes, kernelFwd >>
          /\ \E b \in IF o \in nrts.bare THEN {{}, {n}} ELSE {{}} :
               Redisplay(TRUE, [nrts EXCEPT !.objs = (@ \ {o}) \cup {n},
                                            !.bare = (@ \ {o, n}) \cup b],
                         TRUE, halfDone)
    BY <1>13, Zenon DEF EditDone
  <2>1. /\ kernel' \in SUBSET Obj
        /\ UNCHANGED << active, modes, kernelFwd >>
        /\ \E b \in SUBSET Obj :
             Redisplay(TRUE, [nrts EXCEPT !.objs = (@ \ {o}) \cup {n},
                                          !.bare = (@ \ {o, n}) \cup b],
                       TRUE, halfDone)
    BY <1>2, <2>0, Zenon
  <2>b. PICK b \in SUBSET Obj :
          Redisplay(TRUE, [nrts EXCEPT !.objs = (@ \ {o}) \cup {n},
                                       !.bare = (@ \ {o, n}) \cup b],
                    TRUE, halfDone)
    BY <2>1, Zenon
  <2>2. [nrts EXCEPT !.objs = (@ \ {o}) \cup {n},
                     !.bare = (@ \ {o, n}) \cup b] \in Stores
    BY <1>2 DEF Stores
  <2>3. ModesTyped' /\ RulesHaveExit'
        /\ oldPanel' \in [Routed -> Modes \cup {"Undefined"}]
    BY <1>1, <1>2, <2>1
  <2> QED BY <1>2, <2>1, <2>b, <2>2, <2>3, SafeRedisplay
<1>14. ASSUME NEW v \in Views, EditHalfDone(v) PROVE Safe'
  <2>1. kernel' \in SUBSET Obj
    BY <1>2, <1>14 DEF EditHalfDone
  <2>2. ModesTyped' /\ RulesHaveExit' /\ UNCHANGED << oldPanel, kernelFwd >>
    BY <1>1, <1>2, <1>14, <2>1 DEF EditHalfDone, modes
  <2> QED BY <1>14, <2>2, SafeQuiet DEF EditHalfDone
<1>15. ASSUME NEW v \in Views, CreateRecord(v) PROVE Safe'
  <2>1. kernel' \in SUBSET Obj
    BY <1>2, <1>15 DEF CreateRecord
  <2>2. ModesTyped' /\ RulesHaveExit'
        /\ oldPanel' \in [Routed -> Modes \cup {"Undefined"}]
    BY <1>1, <1>2, <1>15, <2>1 DEF CreateRecord
  <2> QED BY <1>2, <1>15, <2>2, SafeRedisplay DEF CreateRecord
<1>16. CASE KernelEvent
  <2>1. kernel' \in SUBSET Obj
    BY <1>2, <1>16, ConstantsAssumption DEF KernelEvent
  <2> QED BY <1>0, <1>16, <2>1
       DEF KernelEvent, Safe, TypeOK, RulesHaveExit, UnsyncedIsPending,
           ForwardingSynced, modes, store
<1>17. CASE UNCHANGED vars
  BY <1>17 DEF vars, store, modes, world, Safe, TypeOK, RulesHaveExit,
               UnsyncedIsPending, ForwardingSynced
<1> QED BY <1>4, <1>5, <1>6, <1>7, <1>8, <1>9, <1>10, <1>11, <1>12, <1>13,
           <1>14, <1>15, <1>16, <1>17, NextCases

\* The inductive invariant holds in every reachable state.
THEOREM SafeAlways == Spec => []Safe
<1> QED BY SafeInit, SafeNext, PTL DEF Spec

\* Every reachable state is of its type, for all constants.
THEOREM TypeCorrect == Spec => []TypeOK
<1>1. Safe => TypeOK
  BY DEF Safe
<1> QED BY <1>1, SafeAlways, PTL

\* F3 always leads out of the rules again, in every family and with any views.
THEOREM RulesAlwaysHaveExit == Spec => []RulesHaveExit
<1>1. Safe => RulesHaveExit
  BY DEF Safe
<1> QED BY <1>1, SafeAlways, PTL

\* No handler loses the need to reload after a command, other than a Change
\* whose Create fails.
THEOREM UnsyncedAlwaysPending == Spec => []UnsyncedIsPending
<1>1. Safe => UnsyncedIsPending
  BY DEF Safe
<1> QED BY <1>1, SafeAlways, PTL

\* F7 offers the kernel's forwarding switches whenever no reload is due.
THEOREM ForwardingAlwaysSynced == Spec => []ForwardingSynced
<1>1. Safe => ForwardingSynced
  BY DEF Safe
<1> QED BY <1>1, SafeAlways, PTL

-----------------------------------------------------------------------------
(***************************************************************************)
(* Nothing survives from before a reload.                                  *)
(***************************************************************************)

\* A redraw that leaves the kernel alone, or follows a change of it with a
\* reload, brings no ghost into the store.
LEMMA RedisplayNoGhosts ==
  ASSUME Safe, NoGhosts, ModesTyped',
         NEW due \in BOOLEAN, NEW st \in Stores, NEW dirty \in BOOLEAN,
         Redisplay(due, st, dirty, halfDone),
         ~due => due = change /\ st = nrts /\ kernel' = kernel
  PROVE  NoGhosts'
<1>1. Refreshed(due, st, dirty, halfDone)
  BY RedisplayRefreshes DEF Safe, TypeOK
<1>2. CASE due
  BY <1>1, <1>2 DEF Refreshed, NoGhosts
<1>3. CASE ~due
  BY <1>1, <1>3 DEF Refreshed, NoGhosts
<1> QED BY <1>2, <1>3

LEMMA NoGhostsNext ==
  ASSUME External = {}
  PROVE  Safe /\ Safe' /\ NoGhosts /\ [Next]_vars => NoGhosts'
<1> SUFFICES ASSUME Safe, Safe', NoGhosts, [Next]_vars PROVE NoGhosts'
  OBVIOUS
<1>1. /\ ModesTyped' /\ TypeOK
      /\ nrts \in Stores /\ change \in BOOLEAN
      /\ unsynced \in BOOLEAN /\ halfDone \in BOOLEAN
  BY DEF Safe, TypeOK, ModesTyped
<1>2. UNCHANGED << nrts, change, kernel, halfDone >> => NoGhosts'
  BY DEF NoGhosts
<1>3. UNCHANGED world /\ Redisplay(change, nrts, unsynced, halfDone) => NoGhosts'
  BY <1>1, RedisplayNoGhosts DEF world
<1>4. ASSUME NEW st \in Stores, NEW dirty \in BOOLEAN,
             Redisplay(TRUE, st, dirty, halfDone)
      PROVE  NoGhosts'
  BY <1>1, <1>4, RedisplayNoGhosts
<1>5. ASSUME NEW v \in Views, OpenPlugin(v) PROVE NoGhosts'
  <2>1. Refreshed(change, nrts, unsynced, halfDone)
    BY <1>1, <1>5, GetFindDataRefreshes DEF OpenPlugin
  <2> QED BY <1>5, <2>1 DEF OpenPlugin, world, Refreshed, NoGhosts
<1>6. ASSUME NEW v \in Views, ClosePlugin(v) PROVE NoGhosts'
  BY <1>2, <1>6 DEF ClosePlugin, world
<1>7. ASSUME NEW v \in Views, SelectActivePanel(v) PROVE NoGhosts'
  BY <1>3, <1>7 DEF SelectActivePanel
<1>8. ASSUME NEW v \in Views, Reload(v) PROVE NoGhosts'
  BY <1>1, <1>4, <1>8 DEF Reload
<1>9. ASSUME NEW v \in Views, EditSettings(v) PROVE NoGhosts'
  <2>1. CASE Quiet(unsynced, halfDone)
    BY <1>2, <1>9, <2>1 DEF EditSettings, Quiet
  <2>2. ASSUME NEW done \in SUBSET Fwd,
               Redisplay(TRUE, [nrts EXCEPT !.fwd = [f \in Fwd |->
                                  IF f \in done THEN ~nrts.fwd[f] ELSE nrts.fwd[f]]],
                         unsynced \/ done # {}, halfDone)
        PROVE  NoGhosts'
    <3> DEFINE new == [f \in Fwd |-> IF f \in done THEN ~nrts.fwd[f] ELSE nrts.fwd[f]]
    <3>1. new \in [Fwd -> BOOLEAN]
      BY <1>1 DEF Stores
    <3>2. [nrts EXCEPT !.fwd = new] \in Stores
      BY <1>1, <3>1 DEF Stores
    <3>3. (unsynced \/ done # {}) \in BOOLEAN
      OBVIOUS
    <3> HIDE DEF new
    <3>4. Redisplay(TRUE, [nrts EXCEPT !.fwd = new], unsynced \/ done # {}, halfDone)
      BY <2>2 DEF new
    <3> QED BY <3>2, <3>3, <3>4, <1>4
  <2> QED BY <1>9, <2>1, <2>2, ConstantsAssumption DEF EditSettings
<1>10. ASSUME NEW v \in Views, SwitchRules(v) PROVE NoGhosts'
  BY <1>1, <1>4, <1>10 DEF SwitchRules
<1>11. ASSUME NEW v \in Views, NEW plain \in BOOLEAN, EnterTable(v, plain)
       PROVE  NoGhosts'
  <2>1. CASE Quiet(unsynced, halfDone)
    BY <1>2, <1>11, <2>1 DEF EnterTable, Quiet, world
  <2>2. CASE Redisplay(change, nrts, unsynced, halfDone)
    BY <1>3, <1>11, <2>2 DEF EnterTable
  <2> QED BY <1>11, <2>1, <2>2 DEF EnterTable
<1>12. ASSUME NEW v \in Views, LeaveTable(v) PROVE NoGhosts'
  BY <1>3, <1>12 DEF LeaveTable
<1>13. ASSUME NEW v \in Views, NEW sel, DeleteSelected(v, sel) PROVE NoGhosts'
  BY <1>1, <1>4, <1>13 DEF DeleteSelected
<1>14. ASSUME NEW v \in Views, EditDone(v) PROVE NoGhosts'
  <2>1. PICK o \in list[v].items, n \in Obj, b \in SUBSET Obj :
          Redisplay(TRUE, [nrts EXCEPT !.objs = (@ \ {o}) \cup {n},
                                       !.bare = (@ \ {o, n}) \cup b],
                    TRUE, halfDone)
    BY <1>1, <1>14, ZenonT(30) DEF EditDone, TypeOK
  <2>2. [nrts EXCEPT !.objs = (@ \ {o}) \cup {n},
                     !.bare = (@ \ {o, n}) \cup b] \in Stores
    BY <1>1 DEF Stores
  <2> QED BY <1>4, <2>1, <2>2
<1>15. ASSUME NEW v \in Views, EditHalfDone(v) PROVE NoGhosts'
  BY <1>15 DEF EditHalfDone, Quiet, NoGhosts
<1>16. ASSUME NEW v \in Views, CreateRecord(v) PROVE NoGhosts'
  BY <1>1, <1>4, <1>16 DEF CreateRecord
<1>17. CASE KernelEvent
  BY <1>17 DEF KernelEvent
<1>18. CASE UNCHANGED vars
  BY <1>2, <1>18 DEF vars, store, world
<1> QED BY <1>5, <1>6, <1>7, <1>8, <1>9, <1>10, <1>11, <1>12, <1>13, <1>14,
           <1>15, <1>16, <1>17, <1>18, NextCases

\* When no other program touches the kernel, the store never keeps a record
\* the kernel has lost beyond the reload that is due.
THEOREM NoGhostsAlways ==
  ASSUME External = {}
  PROVE  Spec => []NoGhosts
<1>1. Init => NoGhosts
  BY DEF Init, NoGhosts
<1>2. Safe /\ Safe' /\ NoGhosts /\ [Next]_vars => NoGhosts'
  BY NoGhostsNext
<1> QED BY <1>1, <1>2, SafeAlways, PTL DEF Spec

-----------------------------------------------------------------------------
(***************************************************************************)
(* A single view always shows the store.                                   *)
(***************************************************************************)

\* What the list of a lone view can be: not open, just built, or directories
\* Ctrl-Enter has left behind, which carry no records.
Current(v) ==
  \/ list[v] = NoList
  \/ list[v] = Listing(nrts, active, panel, table)
  \/ list[v].kind = "tables" /\ list[v].items = {} /\ Now # "tables"

\* The directories of the tables delegate carry no records.
LEMMA TablesCarryNothing ==
  ASSUME NEW st \in Stores, NEW a, NEW md, NEW tb, Delegate(a, md) = "tables"
  PROVE  Listing(st, a, md, tb).items = {}
<1>1. "tables" \notin Routed /\ "tables" \notin Loaded
  BY DEF Routed, Loaded, Rules
<1>2. \A o \in st.objs : Class[o] # "tables"
  BY <1>1, StoreAssumption DEF Stores
<1> QED BY <1>1, <1>2 DEF Listing, Of

\* With a single view a redraw finds it, and its list is then current.
LEMMA LoneRedisplay ==
  ASSUME NEW v \in Views, Views = {v},
         NEW due, NEW st, NEW dirty, NEW half, Redisplay(due, st, dirty, half)
  PROVE  list'[v] = Listing(nrts', active', panel', table')
<1>1. GetFindData(v, due, st, dirty, half)
  BY DEF Redisplay
<1>2. PICK u \in IF due THEN Update(st, kernel', kernelFwd') ELSE {Kept(st)} :
        /\ nrts' = u.nrts
        /\ list' = [w \in Views |->
                      IF w = v THEN Listing(u.nrts, active', panel', table')
                      ELSE Outdate(list[w], u.cleared)]
  BY <1>1 DEF GetFindData
<1> QED BY <1>2

\* A current list is one the keys can trust, and the one the modes call for.
LEMMA CurrentImplies ==
  ASSUME TypeOK, NEW v \in Views, Views = {v}, Current(v)
  PROVE  TrustedLists /\ ListShowsStore
<1>1. Now \in Classes \cup {"tables"}
  BY DelegateType DEF TypeOK, Now
<1>2. Listing(nrts, active, panel, table).kind = Now
      /\ Listing(nrts, active, panel, table).live
  BY DEF Listing, Now
<1>3. "none" \notin Classes \cup {"tables"}
  BY DEF Classes, Routed, Rules
<1> QED BY <1>1, <1>2, <1>3
     DEF Current, NoList, TrustedLists, Trusted, ListShowsStore

LEMMA CurrentNext ==
  ASSUME NEW v \in Views, Views = {v}
  PROVE  Safe /\ Current(v) /\ [Next]_vars => Current(v)'
<1> SUFFICES ASSUME Safe, Current(v), [Next]_vars PROVE Current(v)'
  OBVIOUS
<1> USE DEF Now
<1>1. ASSUME NEW due, NEW st, NEW dirty, NEW half, Redisplay(due, st, dirty, half)
      PROVE  Current(v)'
  BY <1>1, LoneRedisplay DEF Current
<1>2. UNCHANGED << list, nrts, active, panel, table >> => Current(v)'
  BY DEF Current
<1>3. ASSUME OpenPlugin(v) PROVE Current(v)'
  BY <1>1, <1>3 DEF OpenPlugin, Redisplay, Current, GetFindData, Open
<1>4. ASSUME ClosePlugin(v) PROVE Current(v)'
  <2>1. list'[v] = NoList
    BY <1>4 DEF ClosePlugin, Safe, TypeOK
  <2> QED BY <2>1 DEF Current
<1>5. SelectActivePanel(v) \/ Reload(v) \/ SwitchRules(v) \/ LeaveTable(v)
        \/ (\E sel : DeleteSelected(v, sel)) \/ EditDone(v) \/ CreateRecord(v)
      => Current(v)'
  BY <1>1, Zenon DEF SelectActivePanel, Reload, SwitchRules, LeaveTable, DeleteSelected,
              EditDone, CreateRecord
<1>6. EditHalfDone(v) => Current(v)'
  BY <1>2 DEF EditHalfDone, Quiet, modes
<1>7. EditSettings(v) => Current(v)'
  BY <1>1, <1>2 DEF EditSettings, Quiet, modes
<1>8. ASSUME NEW plain \in BOOLEAN, EnterTable(v, plain) PROVE Current(v)'
  <2>1. CASE Redisplay(change, nrts, unsynced, halfDone)
    BY <1>1, <2>1
  <2>2. CASE Quiet(unsynced, halfDone)
    <3>1. Open(v) /\ Now = "tables" /\ nrts \in Stores
      BY <1>8 DEF EnterTable, Safe, TypeOK
    <3>2. list[v] = Listing(nrts, active, panel, table)
      BY <3>1 DEF Current, Open, NoList
    <3>3. list[v].kind = "tables" /\ list[v].items = {}
      <4>1. Listing(nrts, active, panel, table).items = {}
        BY <3>1, TablesCarryNothing
      <4>2. Listing(nrts, active, panel, table).kind = "tables"
        BY <3>1 DEF Listing
      <4> QED BY <3>2, <4>1, <4>2
    <3>4. Panels[active] \in Routed
      BY <1>8, PanelsType DEF EnterTable, Delegate, Safe, TypeOK
    <3>5. panel'[Panels[active]] = "Routes"
      BY <1>8, <3>4 DEF EnterTable, Safe, TypeOK
    <3>6. Now' = Panels[active]
      BY <1>8, <3>4, <3>5 DEF EnterTable, Delegate, Routed
    <3>7. Now' # "tables"
      BY <3>4, <3>6 DEF Routed
    <3> QED BY <2>2, <3>3, <3>7 DEF Quiet, Current
  <2> QED BY <1>8, <2>1, <2>2 DEF EnterTable
<1>9. KernelEvent => Current(v)'
  BY <1>2 DEF KernelEvent, modes, store
<1>10. UNCHANGED vars => Current(v)'
  BY <1>2 DEF vars, modes, store
<1> QED BY <1>3, <1>4, <1>5, <1>6, <1>7, <1>8, <1>9, <1>10, NextCases

LEMMA LoneView ==
  ASSUME NEW v \in Views, Views = {v}
  PROVE  Spec => [](TrustedLists /\ ListShowsStore)
<1>1. Init => Current(v)
  BY DEF Init, Current
<1>2. Safe /\ Current(v) /\ [Next]_vars => Current(v)'
  BY CurrentNext
<1>3. Safe /\ Current(v) => TrustedLists /\ ListShowsStore
  BY CurrentImplies DEF Safe
<1> QED BY <1>1, <1>2, <1>3, SafeAlways, PTL DEF Spec

\* While one view shows the object, every key works on records of the right
\* class that the store still holds.
THEOREM LoneViewTrusted ==
  ASSUME NEW v \in Views, Views = {v}
  PROVE  Spec => []TrustedLists
BY LoneView, PTL

\* While one view shows the object, its list is the one the store and the modes
\* call for after every key, reload and command that got back to the host.
THEOREM LoneViewShowsStore ==
  ASSUME NEW v \in Views, Views = {v}
  PROVE  Spec => []ListShowsStore
BY LoneView, PTL
=============================================================================
