------------------------- MODULE NetRoutesLoad_proofs -------------------------
(***************************************************************************)
(* Proofs about NetRoutesLoad for every value of its constants: any        *)
(* records, interfaces and number of changes of the kernel.                *)
(*                                                                         *)
(* The properties speak of the end of a call, the invariant of where it    *)
(* stands: what has been stored by then is of this call (Fresh), on an     *)
(* interface that exists or was lost (Cover), and what comes last          *)
(* overrules the names stored before (Names).                              *)
(***************************************************************************)
EXTENDS NetRoutesLoad, TLAPS

Netlink == {"routes", "walk", "rules", "neighbours", "proxies", "links"}
ProcNet == {"route6", "arp"}
Ending  == {"ip_forward", "ip6_forward"}

\* The call has nothing more to store, or has ended well.
Complete == pc \in Ending \/ Succeeded

\* The walk is the only place with records on their way to the store.
Walks == pc # "walk" => todo = {}

Fresh == /\ pc # "idle" => kernel \subseteq seen
         /\ pc \in Netlink => todo \cap Obj \subseteq seen
         /\ pc \in Netlink \cup ProcNet \/ Complete => nrts.objs \subseteq seen

Names == /\ pc \in ProcNet => ifs = NoNames
         /\ Complete => \A o \in Linked(nrts.objs) :
              ifs[Oif[o]] # None => iface[o] = ifs[Oif[o]]

\* The kernel has no record on an interface that is gone.
World == \A o \in Linked(kernel) : name[Oif[o]] # None

Known(o) == name[Oif[o]] # None \/ Oif[o] \in lost

Cover == /\ pc \in Netlink =>
              \A o \in Linked(nrts.objs) \cup Linked(todo \cap Obj) : Known(o)
         /\ pc \in ProcNet => nrts.objs \subseteq nrts.bare
         /\ Complete /\ intact => \A o \in Linked(nrts.objs) \ nrts.bare :
              ifs[Oif[o]] # None \/ Oif[o] \in lost

-----------------------------------------------------------------------------
(***************************************************************************)
(* Types.                                                                  *)
(***************************************************************************)

LEMMA OfFacts ==
  \A os, cs : Of(os, cs) \subseteq os /\ \A o \in Of(os, cs) : Class[o] \in cs
BY DEF Of

LEMMA StoreFields ==
  \A st \in Stores : st.objs \subseteq Obj /\ st.bare \subseteq Obj /\ st.fwd \in [Fwd -> BOOLEAN]
BY DEF Stores

LEMMA StoreMade ==
  ASSUME NEW st \in Stores, NEW os \in SUBSET Obj, NEW bs \in SUBSET Obj
  PROVE  /\ [st EXCEPT !.objs = os, !.bare = bs] \in Stores
         /\ [st EXCEPT !.objs = os] \in Stores
BY DEF Stores

\* What the store then holds.
LEMMA StoreHolds ==
  ASSUME NEW st \in Stores, NEW os, NEW bs, NEW f, NEW b
  PROVE  /\ [st EXCEPT !.objs = os, !.bare = bs].objs = os
         /\ [st EXCEPT !.objs = os, !.bare = bs].bare = bs
         /\ [st EXCEPT !.objs = os].objs = os
         /\ [st EXCEPT !.objs = os].bare = st.bare
         /\ [st EXCEPT !.fwd[f] = b].objs = st.objs
         /\ [st EXCEPT !.fwd[f] = b].bare = st.bare
BY DEF Stores

\* The names stored with some records are those the kernel has.
LEMMA NamedType ==
  ASSUME NEW nm \in [Index -> Name \cup {None}], NEW old \in [Obj -> Name \cup {None}],
         NEW os \in SUBSET Obj
  PROVE  [o \in Obj |-> IF o \in os THEN nm[Oif[o]] ELSE old[o]] \in [Obj -> Name \cup {None}]
BY LoadAssumption

LEMMA NoneType == NoIface \in [Obj -> Name \cup {None}] /\ NoNames \in [Index -> Name \cup {None}]
BY DEF NoIface, NoNames

LEMMA TypeStep == ASSUME TypeOK, [Next]_vars PROVE TypeOK'
<1> USE DEF TypeOK
<1>1. CASE Begin
  BY <1>1, LoadAssumption DEF Begin, Goto, copy, world, Pcs
<1>2. CASE OpenNetlink
  <2>1. CASE Clear /\ Goto("open", "routes") /\ UNCHANGED << todo, ok, world, history >>
    <3>1. nrts' \in Stores
      BY <2>1, StoreMade DEF Clear
    <3> QED BY <2>1, <3>1, NoneType DEF Clear, Goto, Pcs, world, history, others
  <2>2. CASE Goto("open", "route") /\ UNCHANGED << todo, ok, copy, world, history >>
    BY <2>2 DEF Goto, Pcs, copy, world, history, others
  <2> QED BY <1>2, <2>1, <2>2 DEF OpenNetlink
<1>3. CASE GetRoutes
  BY <1>3, OfFacts DEF GetRoutes, Dump, Goto, Pcs, copy, world, history, others
<1>4. CASE WalkRoute
  <2>1. ASSUME NEW o \in todo \cap Obj,
               todo' = todo \ {o}, nrts' = [nrts EXCEPT !.objs = @ \cup {o}],
               iface' = [iface EXCEPT ![o] = name[Oif[o]]]
        PROVE  TypeOK'
    <3>1. nrts' \in Stores
      BY <2>1, StoreFields, StoreMade
    <3>2. iface' \in [Obj -> Name \cup {None}]
      BY <2>1, LoadAssumption
    <3> QED BY <1>4, <2>1, <3>1, <3>2 DEF WalkRoute, world, history, others
  <2>2. ASSUME NEW o \in todo \cap Alien, todo' = {o}, UNCHANGED << nrts, iface >>
        PROVE  TypeOK'
    BY <1>4, <2>2 DEF WalkRoute, world, history, others
  <2> QED BY <1>4, <2>1, <2>2 DEF WalkRoute
<1>5. CASE EndRoutes
  BY <1>5 DEF EndRoutes, Goto, Pcs, copy, world, history, others
<1>6. ASSUME NEW os \in SUBSET kernel, PushBack(os), pc' \in Pcs,
             UNCHANGED << todo, ok, world, history >>
      PROVE  TypeOK'
  <2>1. nrts' \in Stores
    BY <1>6, StoreFields, StoreMade DEF PushBack
  <2> QED BY <1>6, <2>1 DEF PushBack, world, history, others
<1>7. CASE GetRules
  BY <1>6, <1>7, OfFacts DEF GetRules, Dump, Goto, Pcs
<1>8. CASE GetNeighbors
  BY <1>6, <1>8, OfFacts DEF GetNeighbors, Dump, Goto, Pcs
<1>9. CASE GetProxies
  BY <1>6, <1>9, OfFacts DEF GetProxies, Dump, Goto, Pcs
<1>10. CASE GetLinks
  <2>1. PICK got \in Dump(Links) \ {{}} :
          /\ intact' = (got = Links)
          /\ ifs' = [i \in Index |-> IF i \in got THEN name[i] ELSE None]
          /\ iface' = [o \in Obj |->
                         IF o \in Linked(nrts.objs) /\ Oif[o] \in got THEN name[Oif[o]]
                         ELSE iface[o]]
    BY <1>10 DEF GetLinks
  <2>2. ifs' \in [Index -> Name \cup {None}] /\ iface' \in [Obj -> Name \cup {None}]
    BY <2>1, LoadAssumption
  <2> QED BY <1>10, <2>1, <2>2 DEF GetLinks, Goto, Pcs, world, others
<1>11. CASE NoLinks
  BY <1>11 DEF NoLinks, Goto, Pcs, copy, world, history, others
<1>12. CASE ReadRoute
  <2> DEFINE os == Of(kernel, {"inet"})
  <2>1. os \subseteq Obj
    BY OfFacts
  <2>2. nrts' \in Stores
    BY <1>12, <2>1, StoreMade DEF ReadRoute
  <2>3. iface' \in [Obj -> Name \cup {None}]
    BY <1>12, LoadAssumption DEF ReadRoute
  <2> QED BY <1>12, <2>2, <2>3, NoneType DEF ReadRoute, Goto, Pcs, world, history, others
<1>13. ASSUME NEW from, NEW class, NEW to \in Pcs, ReadMore(from, class, to) PROVE TypeOK'
  <2> DEFINE os == Of(kernel, {class})
  <2>1. os \subseteq Obj
    BY OfFacts
  <2>2. nrts' \in Stores
    BY <1>13, <2>1, StoreFields, StoreMade DEF ReadMore
  <2>3. iface' \in [Obj -> Name \cup {None}]
    BY <1>13, <2>1, NamedType DEF ReadMore
  <2> QED BY <1>13, <2>2, <2>3 DEF ReadMore, Goto, Pcs, world, history, others
<1>14. ASSUME NEW from, Fail(from) PROVE TypeOK'
  BY <1>14 DEF Fail, Goto, Pcs, copy, world, history, others
<1>15. ASSUME NEW from, NEW f \in Fwd, NEW to \in Pcs, ReadForwarding(from, f, to)
       PROVE  TypeOK'
  <2>1. nrts' = [nrts EXCEPT !.fwd = [@ EXCEPT ![f] = kernelFwd[f]]]
    BY <1>15 DEF ReadForwarding
  <2>2. kernelFwd[f] \in BOOLEAN
    OBVIOUS
  <2>3. nrts' \in Stores
    BY <2>1, <2>2 DEF Stores
  <2>4. ok' \in BOOLEAN
    BY <1>15 DEF ReadForwarding
  <2> QED BY <1>15, <2>3, <2>4 DEF ReadForwarding, Goto, Pcs, world, history, others
<1>16. ASSUME NEW k \in SUBSET Obj, NEW fw \in [Fwd -> BOOLEAN],
              NEW nm \in [Index -> Name \cup {None}], Changed(k, fw, nm)
       PROVE  TypeOK'
  <2>1. kernel' \subseteq Obj /\ kernelFwd' \in [Fwd -> BOOLEAN]
        /\ name' \in [Index -> Name \cup {None}]
    BY <1>16 DEF Changed
  <2>2. seen' \subseteq Obj /\ lost' \subseteq Index
    BY <1>16 DEF Changed
  <2>3. events' \in 0 .. MaxEvents
    BY <1>16, LoadAssumption DEF Changed
  <2>4. quiet' \in BOOLEAN /\ UNCHANGED << pc, todo, ok, nrts, iface, ifs, before, intact >>
    BY <1>16 DEF Changed, copy
  <2> QED BY <2>1, <2>2, <2>3, <2>4
<1>17. CASE KernelEvent
  <2>1. \A S : {o \in kernel : o \in Linked(kernel) => S} \subseteq Obj
    OBVIOUS
  <2>2. ASSUME NEW f \in Fwd PROVE [kernelFwd EXCEPT ![f] = ~@] \in [Fwd -> BOOLEAN]
    OBVIOUS
  <2>3. CASE RecordComes \/ RecordGoes
    BY <1>16, <2>3 DEF RecordComes, RecordGoes
  <2>4. CASE InterfaceRenamed
    BY <1>16, <2>4 DEF InterfaceRenamed
  <2>5. CASE InterfaceGoes
    <3>1. PICK i \in Index :
            Changed({ o \in kernel : o \in Linked(kernel) => Oif[o] # i }, kernelFwd,
                    [name EXCEPT ![i] = None])
      BY <2>5 DEF InterfaceGoes
    <3> DEFINE k == { o \in kernel : o \in Linked(kernel) => Oif[o] # i }
    <3>2. k \in SUBSET Obj /\ [name EXCEPT ![i] = None] \in [Index -> Name \cup {None}]
      OBVIOUS
    <3> HIDE DEF k
    <3> QED BY <1>16, <3>1, <3>2 DEF k
  <2>6. CASE ForwardingSwitched
    BY <1>16, <2>2, <2>6, LoadAssumption DEF ForwardingSwitched
  <2> QED BY <1>17, <2>3, <2>4, <2>5, <2>6 DEF KernelEvent
<1>18. CASE UNCHANGED vars
  BY <1>18 DEF vars, copy, world, history, others
<1> QED
  <2>1. CASE ByNetlink
    BY <2>1, <1>3, <1>4, <1>5, <1>7, <1>8, <1>9, <1>10, <1>11 DEF ByNetlink
  <2>2. CASE ByProcNet
    BY <2>2, <1>12, <1>13, <1>14 DEF ByProcNet, Pcs
  <2>3. CASE Forwarding
    BY <2>3, <1>14, <1>15 DEF Forwarding, Fwd, Pcs
  <2> QED BY <1>1, <1>2, <1>17, <1>18, <2>1, <2>2, <2>3 DEF Next, Proceed

-----------------------------------------------------------------------------
(***************************************************************************)
(* Between the kernel's changes.                                           *)
(***************************************************************************)

\* Only the kernel changes the kernel and what is noted of it, and what it does
\* is seen by a call in progress.
LEMMA KernelStep ==
  ASSUME TypeOK, KernelEvent
  PROVE  /\ UNCHANGED << pc, todo, ok, nrts, iface, ifs, intact >>
         /\ seen \subseteq seen' /\ lost \subseteq lost'
         /\ pc # "idle" => kernel' \subseteq seen'
         /\ pc # "idle" => \A i \in Index : name[i] # None => name'[i] # None \/ i \in lost'
         /\ World'
<1>1. ASSUME NEW k, NEW fw, NEW nm, Changed(k, fw, nm)
      PROVE  /\ UNCHANGED << pc, todo, ok, nrts, iface, ifs, intact >>
             /\ seen \subseteq seen' /\ lost \subseteq lost'
             /\ pc # "idle" => kernel' \subseteq seen'
             /\ pc # "idle" => \A i \in Index : name[i] # None => name'[i] # None \/ i \in lost'
             /\ World'
  BY <1>1 DEF Changed, copy, World, Linked, Of
<1> QED
  BY <1>1 DEF KernelEvent, RecordComes, RecordGoes, InterfaceRenamed, InterfaceGoes,
              ForwardingSwitched

LEMMA CallStep ==
  ASSUME Proceed
  PROVE  UNCHANGED << kernel, name, seen, lost >>
<1> USE DEF world, history, others
<1>1. CASE OpenNetlink
  BY <1>1 DEF OpenNetlink
<1>2. CASE ByNetlink
  BY <1>2 DEF ByNetlink, GetRoutes, WalkRoute, EndRoutes, GetRules, GetNeighbors,
              GetProxies, GetLinks, NoLinks
<1>3. CASE ByProcNet
  BY <1>3 DEF ByProcNet, ReadRoute, ReadMore, Fail
<1>4. CASE Forwarding
  BY <1>4 DEF Forwarding, ReadForwarding, Fail
<1> QED BY <1>1, <1>2, <1>3, <1>4 DEF Proceed

LEMMA WorldStep == ASSUME TypeOK, World, [Next]_vars PROVE World'
<1>1. CASE Begin
  BY <1>1 DEF Begin, World, world, Linked, Of
<1>2. CASE Proceed
  BY <1>2, CallStep DEF World, Linked, Of
<1>3. CASE KernelEvent
  BY <1>3, KernelStep
<1>4. CASE UNCHANGED vars
  BY <1>4 DEF vars, world, World, Linked, Of
<1> QED BY <1>1, <1>2, <1>3, <1>4 DEF Next

LEMMA WalksStep == ASSUME TypeOK, Walks, [Next]_vars PROVE Walks'
<1> USE DEF Walks, Goto
<1>1. CASE Begin
  BY <1>1 DEF Begin
<1>2. CASE OpenNetlink
  BY <1>2 DEF OpenNetlink
<1>3. CASE ByNetlink
  BY <1>3 DEF ByNetlink, GetRoutes, WalkRoute, EndRoutes, GetRules, GetNeighbors,
              GetProxies, GetLinks, NoLinks
<1>4. CASE ByProcNet
  BY <1>4 DEF ByProcNet, ReadRoute, ReadMore, Fail
<1>5. CASE Forwarding
  BY <1>5 DEF Forwarding, ReadForwarding, Fail
<1>6. CASE KernelEvent
  BY <1>6, KernelStep
<1>7. CASE UNCHANGED vars
  BY <1>7 DEF vars
<1> QED BY <1>1, <1>2, <1>3, <1>4, <1>5, <1>6, <1>7 DEF Next, Proceed

-----------------------------------------------------------------------------
(***************************************************************************)
(* What is stored is of this call.                                         *)
(***************************************************************************)

LEMMA FreshStep == ASSUME TypeOK, Walks, Fresh, [Next]_vars PROVE Fresh'
<1> USE DEF Fresh, Complete, Succeeded, Netlink, ProcNet, Ending
<1>1. CASE Begin
  BY <1>1 DEF Begin, Goto, world
<1>2. CASE OpenNetlink
  <2>1. CASE Clear /\ Goto("open", "routes") /\ UNCHANGED << todo, ok, world, history >>
    <3>1. nrts'.objs = {} /\ todo' = {}
      BY <2>1, StoreHolds DEF Clear, TypeOK, Walks, Goto
    <3> QED BY <2>1, <3>1, CallStep DEF Proceed, Goto, world, history, others
  <2>2. CASE Goto("open", "route") /\ UNCHANGED << todo, ok, copy, world, history >>
    BY <2>2 DEF Goto, world, history, others
  <2> QED BY <1>2, <2>1, <2>2 DEF OpenNetlink
<1>3. CASE ByNetlink
  <2>0. UNCHANGED << kernel, seen >> /\ ok' = ok /\ pc \in Netlink
    BY <1>3, CallStep DEF Proceed, ByNetlink, GetRoutes, WalkRoute, EndRoutes, GetRules,
              GetNeighbors, GetProxies, GetLinks, NoLinks, Goto
  <2>1. CASE GetRoutes
    <3>1. todo' \subseteq kernel \cup Alien
      BY <2>1, OfFacts DEF GetRoutes, Dump
    <3>2. todo' \cap Obj \subseteq seen
      BY <2>0, <3>1, LoadAssumption
    <3>3. pc' = "walk" /\ nrts' = nrts
      BY <2>1 DEF GetRoutes, Goto, copy
    <3> QED BY <2>0, <3>2, <3>3
  <2>2. CASE WalkRoute
    <3>1. ASSUME NEW o \in todo \cap Obj,
                 todo' = todo \ {o}, nrts' = [nrts EXCEPT !.objs = @ \cup {o}]
          PROVE  todo' \cap Obj \subseteq seen /\ nrts'.objs \subseteq seen
      <4>1. nrts'.objs = nrts.objs \cup {o}
        BY <3>1, StoreHolds DEF TypeOK
      <4> QED BY <2>0, <3>1, <4>1
    <3>2. ASSUME NEW o \in todo \cap Alien, todo' = {o}, nrts' = nrts
          PROVE  todo' \cap Obj \subseteq seen /\ nrts'.objs \subseteq seen
      BY <2>0, <3>2, LoadAssumption
    <3>3. todo' \cap Obj \subseteq seen /\ nrts'.objs \subseteq seen
      BY <2>2, <3>1, <3>2 DEF WalkRoute
    <3>4. pc' = "walk"
      BY <2>2 DEF WalkRoute
    <3> QED BY <2>0, <3>3, <3>4
  <2>3. ASSUME NEW os \in SUBSET kernel, PushBack(os)
        PROVE  nrts'.objs \subseteq seen
    BY <2>0, <2>3, StoreHolds DEF PushBack, TypeOK
  <2>4. CASE GetRules
    BY <2>0, <2>3, <2>4, OfFacts DEF GetRules, Dump, Goto
  <2>5. CASE GetNeighbors
    BY <2>0, <2>3, <2>5, OfFacts DEF GetNeighbors, Dump, Goto
  <2>6. CASE GetProxies
    BY <2>0, <2>3, <2>6, OfFacts DEF GetProxies, Dump, Goto
  <2>7. CASE EndRoutes \/ GetLinks \/ NoLinks
    BY <2>0, <2>7 DEF EndRoutes, GetLinks, NoLinks, Goto, copy
  <2> QED BY <1>3, <2>1, <2>2, <2>4, <2>5, <2>6, <2>7 DEF ByNetlink
<1>4. CASE ByProcNet
  <2>0. UNCHANGED << kernel, seen >>
    BY <1>4, CallStep DEF Proceed
  <2>1. CASE ReadRoute
    <3>1. nrts'.objs = Of(kernel, {"inet"})
      BY <2>1, StoreHolds DEF ReadRoute, TypeOK
    <3> QED BY <2>0, <2>1, <3>1, OfFacts DEF ReadRoute, Goto
  <2>2. ASSUME NEW from \in ProcNet, NEW class, NEW to \in ProcNet \cup Ending,
               ReadMore(from, class, to)
        PROVE  Fresh'
    <3>1. nrts'.objs = nrts.objs \cup Of(kernel, {class})
      BY <2>2, StoreHolds DEF ReadMore, TypeOK
    <3> QED BY <2>0, <2>2, <3>1, OfFacts DEF ReadMore, Goto
  <2>3. ASSUME NEW from \in {"route", "route6", "arp"}, Fail(from) PROVE Fresh'
    BY <2>0, <2>3 DEF Fail, Goto
  <2> QED BY <1>4, <2>1, <2>2, <2>3 DEF ByProcNet
<1>5. CASE Forwarding
  <2>0. UNCHANGED << kernel, seen >>
    BY <1>5, CallStep DEF Proceed
  <2>1. ASSUME NEW from \in Ending, NEW f, NEW to \in Ending \cup {"idle"},
               ReadForwarding(from, f, to)
        PROVE  Fresh'
    <3>1. nrts'.objs = nrts.objs
      BY <2>1, StoreHolds DEF ReadForwarding, TypeOK
    <3> QED BY <2>0, <2>1, <3>1 DEF ReadForwarding, Goto
  <2>2. ASSUME NEW from \in Ending, Fail(from) PROVE Fresh'
    BY <2>0, <2>2 DEF Fail, Goto
  <2> QED BY <1>5, <2>1, <2>2 DEF Forwarding
<1>6. CASE KernelEvent
  BY <1>6, KernelStep
<1>7. CASE UNCHANGED vars
  BY <1>7 DEF vars, copy, world, history, others
<1> QED BY <1>1, <1>2, <1>3, <1>4, <1>5, <1>6, <1>7 DEF Next, Proceed

-----------------------------------------------------------------------------
(***************************************************************************)
(* The names of the records and of the map.                                *)
(***************************************************************************)

\* Where the steps of the netlink reader lead.
LEMMA NetlinkStep ==
  ASSUME ByNetlink, ~GetLinks
  PROVE  pc \in Netlink /\ pc' \in Netlink \cup {"route"}
BY DEF ByNetlink, GetRoutes, WalkRoute, EndRoutes, GetRules, GetNeighbors, GetProxies,
       NoLinks, Goto, Netlink

LEMMA NamesStep == ASSUME TypeOK, Names, [Next]_vars PROVE Names'
<1> USE DEF Names, Complete, Succeeded, ProcNet, Ending
<1>1. CASE Begin
  BY <1>1 DEF Begin, Goto
<1>2. CASE OpenNetlink
  BY <1>2 DEF OpenNetlink, Goto
<1>3. CASE ByNetlink /\ ~GetLinks
  BY <1>3, NetlinkStep DEF Netlink
<1>4. CASE GetLinks
  <2>1. pc' = "ip_forward" /\ nrts' = nrts
    BY <1>4 DEF GetLinks, Goto
  <2>2. PICK got \in Dump(Links) \ {{}} :
          /\ ifs' = [i \in Index |-> IF i \in got THEN name[i] ELSE None]
          /\ iface' = [o \in Obj |->
                         IF o \in Linked(nrts.objs) /\ Oif[o] \in got THEN name[Oif[o]]
                         ELSE iface[o]]
    BY <1>4 DEF GetLinks
  <2>3. ASSUME NEW o \in Linked(nrts.objs), ifs'[Oif[o]] # None
        PROVE  iface'[o] = ifs'[Oif[o]]
    <3>1. o \in Obj /\ Oif[o] \in Index
      BY OfFacts, StoreFields, LoadAssumption DEF Linked, TypeOK
    <3>2. Oif[o] \in got
      BY <2>2, <2>3, <3>1
    <3> QED BY <2>2, <2>3, <3>1, <3>2
  <2> QED BY <2>1, <2>3
<1>5. CASE ByProcNet
  <2>1. CASE ReadRoute
    BY <2>1 DEF ReadRoute, Goto
  <2>2. ASSUME NEW from \in ProcNet, NEW class, NEW to \in ProcNet \cup Ending,
               ReadMore(from, class, to)
        PROVE  Names'
    <3>1. ifs' = NoNames
      BY <2>2 DEF ReadMore, Goto
    <3>2. \A o \in Linked(nrts'.objs) : Oif[o] \in Index
      <4>1. nrts'.objs = nrts.objs \cup Of(kernel, {class})
        BY <2>2, StoreHolds DEF ReadMore, TypeOK
      <4>2. nrts'.objs \subseteq Obj
        BY <4>1, OfFacts, StoreFields DEF TypeOK
      <4> QED BY <4>2, OfFacts, LoadAssumption DEF Linked
    <3> QED BY <2>2, <3>1, <3>2 DEF ReadMore, Goto, NoNames
  <2>3. ASSUME NEW from \in {"route", "route6", "arp"}, Fail(from) PROVE Names'
    BY <2>3 DEF Fail, Goto
  <2> QED BY <1>5, <2>1, <2>2, <2>3 DEF ByProcNet
<1>6. CASE Forwarding
  <2>1. ASSUME NEW from \in Ending, NEW f, NEW to \in Ending \cup {"idle"},
               ReadForwarding(from, f, to)
        PROVE  Names'
    <3>1. nrts'.objs = nrts.objs
      BY <2>1, StoreHolds DEF ReadForwarding, TypeOK
    <3> QED BY <2>1, <3>1 DEF ReadForwarding, Goto, Linked, Of
  <2>2. ASSUME NEW from \in Ending, Fail(from) PROVE Names'
    BY <2>2 DEF Fail, Goto
  <2> QED BY <1>6, <2>1, <2>2 DEF Forwarding
<1>7. CASE KernelEvent
  BY <1>7, KernelStep
<1>8. CASE UNCHANGED vars
  BY <1>8 DEF vars, copy
<1> QED BY <1>1, <1>2, <1>3, <1>4, <1>5, <1>6, <1>7, <1>8 DEF Next, Proceed

-----------------------------------------------------------------------------
(***************************************************************************)
(* The interfaces of what is stored.                                       *)
(***************************************************************************)

LEMMA LinkedFacts ==
  \A os : /\ Linked(os) \subseteq os
          /\ \A ps : Linked(os \cup ps) = Linked(os) \cup Linked(ps)
          /\ \A ps : os \subseteq ps => Linked(os) \subseteq Linked(ps)
BY DEF Linked, Of

LEMMA CoverStep == ASSUME TypeOK, Walks, World, Cover, [Next]_vars PROVE Cover'
<1> USE DEF Cover, Complete, Succeeded, Netlink, ProcNet, Ending
<1>1. CASE Begin
  BY <1>1 DEF Begin, Goto
<1>2. CASE OpenNetlink
  <2>1. CASE Clear /\ Goto("open", "routes") /\ UNCHANGED << todo, ok, world, history >>
    <3>1. nrts'.objs = {} /\ todo' = {} /\ pc' = "routes"
      BY <2>1, StoreHolds DEF Clear, TypeOK, Walks, Goto
    <3> QED BY <3>1, LinkedFacts
  <2>2. CASE Goto("open", "route") /\ UNCHANGED << todo, ok, copy, world, history >>
    BY <2>2 DEF Goto
  <2> QED BY <1>2, <2>1, <2>2 DEF OpenNetlink
<1>3. CASE ByNetlink /\ ~GetLinks
  <2>0. /\ UNCHANGED << kernel, name, lost >>
        /\ pc \in Netlink /\ pc' \in Netlink \cup {"route"}
    BY <1>3, CallStep, NetlinkStep DEF Proceed
  <2>1. SUFFICES ASSUME NEW o \in Linked(nrts'.objs) \cup Linked(todo' \cap Obj)
                 PROVE  Known(o)
    BY <2>0 DEF Known
  <2>2. ASSUME NEW p \in Linked(kernel) PROVE Known(p)
    BY <2>2 DEF World, Known
  <2>3. ASSUME NEW os \in SUBSET kernel, PushBack(os), todo' = todo
        PROVE  Known(o)
    <3>1. nrts'.objs = nrts.objs \cup os
      BY <2>3, StoreHolds DEF PushBack, TypeOK
    <3> QED BY <2>0, <2>1, <2>2, <2>3, <3>1 DEF Linked, Of
  <2>4. CASE GetRoutes
    <3>1. todo' \subseteq kernel \cup Alien /\ nrts' = nrts
      BY <2>4, OfFacts DEF GetRoutes, Dump, copy
    <3>2. todo' \cap Obj \subseteq kernel
      BY <3>1, LoadAssumption
    <3> QED BY <2>0, <2>1, <2>2, <3>1, <3>2, LinkedFacts
  <2>5. CASE WalkRoute
    <3>1. ASSUME NEW r \in todo \cap Obj,
                 todo' = todo \ {r}, nrts' = [nrts EXCEPT !.objs = @ \cup {r}]
          PROVE  Known(o)
      <4>1. nrts'.objs = nrts.objs \cup {r}
        BY <3>1, StoreHolds DEF TypeOK
      <4>2. {r} \subseteq todo \cap Obj /\ todo' \cap Obj \subseteq todo \cap Obj
        BY <3>1
      <4> QED BY <2>0, <2>1, <4>1, <4>2 DEF Linked, Of
    <3>2. ASSUME NEW r \in todo \cap Alien, todo' = {r}, nrts' = nrts
          PROVE  Known(o)
      <4>1. todo' \cap Obj \subseteq todo \cap Obj
        BY <3>2, LoadAssumption
      <4> QED BY <2>0, <2>1, <3>2, <4>1, LinkedFacts
    <3> QED BY <2>5, <3>1, <3>2 DEF WalkRoute
  <2>6. CASE GetRules
    BY <2>3, <2>6, OfFacts DEF GetRules, Dump
  <2>7. CASE GetNeighbors
    BY <2>3, <2>7, OfFacts DEF GetNeighbors, Dump
  <2>8. CASE GetProxies
    BY <2>3, <2>8, OfFacts DEF GetProxies, Dump
  <2>9. CASE EndRoutes \/ NoLinks
    BY <2>0, <2>1, <2>9 DEF EndRoutes, NoLinks, copy
  <2> QED BY <1>3, <2>4, <2>5, <2>6, <2>7, <2>8, <2>9 DEF ByNetlink
<1>4. CASE GetLinks
  <2>1. pc = "links" /\ pc' = "ip_forward" /\ UNCHANGED << nrts, name, lost >>
    BY <1>4, CallStep DEF GetLinks, Goto, Proceed, ByNetlink
  <2>2. PICK got \in Dump(Links) \ {{}} :
          /\ intact' = (got = Links)
          /\ ifs' = [i \in Index |-> IF i \in got THEN name[i] ELSE None]
    BY <1>4 DEF GetLinks
  <2>3. ASSUME intact', NEW o \in Linked(nrts.objs), Oif[o] \notin lost
        PROVE  ifs'[Oif[o]] # None
    <3>1. Oif[o] \in Index
      BY LinkedFacts, StoreFields, LoadAssumption DEF TypeOK
    <3>2. name[Oif[o]] # None
      BY <2>1, <2>3 DEF Known
    <3> QED BY <2>2, <2>3, <3>1, <3>2 DEF Links
  <2> QED BY <2>1, <2>3
<1>5. CASE ByProcNet
  <2>1. CASE ReadRoute
    <3>1. nrts'.objs = nrts'.bare /\ pc' = "route6"
      BY <2>1, StoreHolds DEF ReadRoute, TypeOK, Goto
    <3> QED BY <3>1
  <2>2. ASSUME NEW from \in ProcNet, NEW class, NEW to \in ProcNet \cup Ending,
               ReadMore(from, class, to)
        PROVE  Cover'
    <3>1. /\ nrts'.objs = nrts.objs \cup Of(kernel, {class})
          /\ nrts'.bare = nrts.bare \cup Of(kernel, {class})
      BY <2>2, StoreHolds DEF ReadMore, TypeOK
    <3>2. pc \in ProcNet /\ pc' \in ProcNet \cup Ending
      BY <2>2 DEF ReadMore, Goto
    <3>3. nrts'.objs \subseteq nrts'.bare
      BY <3>1, <3>2
    <3> QED BY <3>2, <3>3, LinkedFacts
  <2>3. ASSUME NEW from \in {"route", "route6", "arp"}, Fail(from) PROVE Cover'
    BY <2>3 DEF Fail, Goto
  <2> QED BY <1>5, <2>1, <2>2, <2>3 DEF ByProcNet
<1>6. CASE Forwarding
  <2>0. UNCHANGED lost
    BY <1>6, CallStep DEF Proceed
  <2>1. ASSUME NEW from \in Ending, NEW f, NEW to \in Ending \cup {"idle"},
               ReadForwarding(from, f, to)
        PROVE  Cover'
    <3>1. nrts'.objs = nrts.objs /\ nrts'.bare = nrts.bare
      BY <2>1, StoreHolds DEF ReadForwarding, TypeOK
    <3> QED BY <2>0, <2>1, <3>1 DEF ReadForwarding, Goto, Linked, Of, history
  <2>2. ASSUME NEW from \in Ending, Fail(from) PROVE Cover'
    BY <2>2 DEF Fail, Goto
  <2> QED BY <1>6, <2>1, <2>2 DEF Forwarding
<1>7. CASE KernelEvent
  <2>1. UNCHANGED << pc, todo, ok, nrts, ifs, intact >> /\ lost \subseteq lost'
    BY <1>7, KernelStep
  <2>2. ASSUME pc # "idle", NEW o \in Linked(nrts.objs) \cup Linked(todo \cap Obj), Known(o)
        PROVE  Known(o)'
    <3>1. Oif[o] \in Index
      BY LinkedFacts, StoreFields, LoadAssumption DEF TypeOK
    <3> QED BY <1>7, <2>2, <3>1, KernelStep DEF Known
  <2>3. pc \in Netlink => pc # "idle"
    OBVIOUS
  <2> QED BY <2>1, <2>2, <2>3
<1>8. CASE UNCHANGED vars
  BY <1>8 DEF vars, copy, world, history, others, Known
<1> QED BY <1>1, <1>2, <1>3, <1>4, <1>5, <1>6, <1>7, <1>8 DEF Next, Proceed

-----------------------------------------------------------------------------
(***************************************************************************)
(* A call nothing happens during is one step of RouteStore.  Atomic says   *)
(* for each place in a call which outcome of RouteStore it is on its way   *)
(* to: r is what the readers have made of the store, got the forwarding    *)
(* files read after them.                                                  *)
(***************************************************************************)

ReadBy(st, k) ==
  UNION { IF r.ok THEN {r} ELSE UpdateByProcNet(r, k) : r \in UpdateByNetlink(st, k) }

Holds(r, got) ==
  /\ nrts.objs = r.objs /\ nrts.bare = r.bare
  /\ \A f \in Fwd : nrts.fwd[f] = IF r.ok /\ f \in got THEN kernelFwd[f] ELSE before.fwd[f]

\* The parts of the invariant, as conditions on where the call stands.
Requested ==
  /\ nrts.bare = {} /\ nrts.objs \subseteq kernel /\ nrts.fwd = before.fwd
  /\ todo \cap Obj \subseteq Of(kernel, {"inet", "inet6"})
  /\ IF pc \in {"proxies", "links"} THEN ~(Of(nrts.objs, {"arp"}) \subseteq Proxy)
     ELSE Of(nrts.objs, {"arp"}) = {}

GaveUp == \E r \in UpdateByNetlink(before, kernel) : ~r.ok /\ Holds(r, {})

Parsed(cs) == Holds(Reading(FALSE, Of(kernel, cs), Of(kernel, cs)), {})

ReadWell(got) == \E r \in ReadBy(before, kernel) : r.ok /\ Holds(r, got)

Ended ==
  \E r \in ReadBy(before, kernel), got \in {{}, {"ipv4_forwarding"}, Fwd} :
    ok = (r.ok /\ got = Fwd) /\ Holds(r, got)

Atomic ==
  quiet => /\ pc = "open" => nrts = before
           /\ pc \in Netlink => Requested
           /\ pc = "route" => GaveUp
           /\ pc = "route6" => Parsed({"inet"})
           /\ pc = "arp" => Parsed({"inet", "inet6"})
           /\ pc = "ip_forward" => ReadWell({})
           /\ pc = "ip6_forward" => ReadWell({"ipv4_forwarding"})
           /\ pc = "idle" => Ended

LEMMA AtomicEnds == ASSUME TypeOK, Atomic PROVE AtomicWhenQuiet
<1>1. SUFFICES ASSUME pc = "idle", quiet
               PROVE  \E u \in Update(before, kernel, kernelFwd) : ok = u.ok /\ nrts = u.nrts
  BY DEF AtomicWhenQuiet
<1>2. PICK r \in ReadBy(before, kernel), got \in {{}, {"ipv4_forwarding"}, Fwd} :
        ok = (r.ok /\ got = Fwd) /\ Holds(r, got)
  BY <1>1 DEF Atomic, Ended
<1> DEFINE st == [objs |-> r.objs, bare |-> r.bare,
                  fwd  |-> [f \in Fwd |-> IF r.ok /\ f \in got THEN kernelFwd[f]
                                          ELSE before.fwd[f]]]
           u == [ok |-> r.ok /\ got = Fwd, cleared |-> r.cleared, nrts |-> st]
<1>3. nrts = st
  <2>1. nrts \in Stores
    BY DEF TypeOK
  <2> QED BY <1>2, <2>1 DEF Stores, Holds
<1>4. u \in Update(before, kernel, kernelFwd)
  <2> DEFINE out(q, g) ==
        [ok |-> q.ok /\ g = Fwd, cleared |-> q.cleared,
         nrts |-> [objs |-> q.objs, bare |-> q.bare,
                   fwd  |-> [f \in Fwd |-> IF q.ok /\ f \in g THEN kernelFwd[f]
                                           ELSE before.fwd[f]]]]
  <2>1. Update(before, kernel, kernelFwd) =
          { out(q, g) : q \in ReadBy(before, kernel), g \in {{}, {"ipv4_forwarding"}, Fwd} }
    BY DEF Update, ReadBy
  <2>2. u = out(r, got)
    OBVIOUS
  <2> HIDE DEF u, out
  <2> QED BY <1>2, <2>1, <2>2
<1> QED BY <1>2, <1>3, <1>4

\* What RouteStore allows the readers.
LEMMA Outcomes ==
  ASSUME NEW st, NEW k
  PROVE  /\ Untouched(st) \in UpdateByNetlink(st, k)
         /\ \A os \in Fetched(k), links \in BOOLEAN :
              Reading(Of(os, {"arp"}) # {} /\ links, os, {}) \in UpdateByNetlink(st, k)
         /\ \A r \in UpdateByNetlink(st, k) : r.ok => r \in ReadBy(st, k)
         /\ \A r \in UpdateByNetlink(st, k) : ~r.ok => r \in ReadBy(st, k)
         /\ \A cs \in { {"inet"}, {"inet", "inet6"}, {"inet", "inet6", "arp"} } :
              Reading(cs = {"inet", "inet6", "arp"}, Of(k, cs), Of(k, cs)) \in ReadBy(st, k)
<1>1. Untouched(st) \in UpdateByNetlink(st, k) /\ ~Untouched(st).ok
  BY DEF UpdateByNetlink, Untouched
<1>2. ASSUME NEW r \in UpdateByNetlink(st, k), NEW q \in IF r.ok THEN {r} ELSE UpdateByProcNet(r, k)
      PROVE  q \in ReadBy(st, k)
  BY <1>2 DEF ReadBy
<1>3. ASSUME NEW r, ~r.ok PROVE r \in UpdateByProcNet(r, k)
  BY DEF UpdateByProcNet
<1>4. ASSUME NEW cs \in { {"inet"}, {"inet", "inet6"}, {"inet", "inet6", "arp"} }
      PROVE  Reading(cs = {"inet", "inet6", "arp"}, Of(k, cs), Of(k, cs))
               \in UpdateByProcNet(Untouched(st), k)
  BY DEF UpdateByProcNet
<1>5. \A os \in Fetched(k), links \in BOOLEAN :
        Reading(Of(os, {"arp"}) # {} /\ links, os, {}) \in UpdateByNetlink(st, k)
  BY DEF UpdateByNetlink
<1> QED BY <1>1, <1>2, <1>3, <1>4, <1>5

LEMMA QuietStep ==
  ASSUME Proceed
  PROVE  UNCHANGED << kernel, kernelFwd, before, quiet >>
<1> USE DEF world, history, others
<1>1. CASE OpenNetlink
  BY <1>1 DEF OpenNetlink
<1>2. CASE ByNetlink
  BY <1>2 DEF ByNetlink, GetRoutes, WalkRoute, EndRoutes, GetRules, GetNeighbors,
              GetProxies, GetLinks, NoLinks
<1>3. CASE ByProcNet
  BY <1>3 DEF ByProcNet, ReadRoute, ReadMore, Fail
<1>4. CASE Forwarding
  BY <1>4 DEF Forwarding, ReadForwarding, Fail
<1> QED BY <1>1, <1>2, <1>3, <1>4 DEF Proceed

\* A store that is left alone is still the same outcome.
LEMMA HeldStill ==
  ASSUME UNCHANGED << kernel, kernelFwd, before, quiet >>, nrts' = nrts
  PROVE  /\ \A r, got : Holds(r, got) => Holds(r, got)'
         /\ GaveUp => GaveUp'
         /\ \A cs : Parsed(cs) => Parsed(cs)'
         /\ \A got : ReadWell(got) => ReadWell(got)'
BY DEF Holds, GaveUp, Parsed, ReadWell

\* The netlink reader stores what it asks for, class by class.
LEMMA RequestedStep ==
  ASSUME TypeOK, Requested, pc \in Netlink, ByNetlink, Walks
  PROVE  /\ pc' \in Netlink => Requested'
         /\ pc' = "route" => GaveUp'
         /\ pc' = "ip_forward" => ReadWell({})'
<1> USE DEF Netlink
<1>0. UNCHANGED << kernel, kernelFwd, before, quiet >>
  BY QuietStep DEF Proceed
<1>1. ASSUME NEW cs, NEW os, os \subseteq Of(kernel, cs), PushBack(os)
      PROVE  /\ nrts'.objs = nrts.objs \cup os /\ nrts'.objs \subseteq kernel
             /\ nrts'.bare = {} /\ nrts'.fwd = before.fwd
             /\ "arp" \notin cs => Of(nrts'.objs, {"arp"}) = Of(nrts.objs, {"arp"})
  <2>1. nrts'.objs = nrts.objs \cup os /\ nrts'.bare = nrts.bare /\ nrts'.fwd = nrts.fwd
    BY <1>1 DEF PushBack, TypeOK, Stores
  <2> QED BY <1>1, <2>1 DEF Requested, Of
<1>2. CASE GetRoutes
  <2>1. todo' \subseteq Of(kernel, {"inet", "inet6"}) \cup Alien /\ nrts' = nrts
        /\ pc = "routes" /\ pc' = "walk"
    BY <1>2 DEF GetRoutes, Dump, copy, Goto
  <2>2. todo' \cap Obj \subseteq Of(kernel, {"inet", "inet6"})
    BY <2>1, LoadAssumption
  <2> QED BY <1>0, <2>1, <2>2 DEF Requested
<1>3. CASE WalkRoute
  <2>0. pc = "walk" /\ pc' = "walk"
    BY <1>3 DEF WalkRoute
  <2>1. ASSUME NEW o \in todo \cap Obj,
               todo' = todo \ {o}, nrts' = [nrts EXCEPT !.objs = @ \cup {o}]
        PROVE  Requested'
    <3>1. nrts'.objs = nrts.objs \cup {o} /\ nrts'.bare = nrts.bare /\ nrts'.fwd = nrts.fwd
      BY <2>1 DEF TypeOK, Stores
    <3>2. o \in kernel /\ Class[o] \in {"inet", "inet6"}
      BY <2>1 DEF Requested, Of
    <3>3. Of(nrts'.objs, {"arp"}) = {}
      BY <2>0, <3>1, <3>2 DEF Requested, Of
    <3> QED BY <1>0, <2>0, <2>1, <3>1, <3>2, <3>3 DEF Requested
  <2>2. ASSUME NEW o \in todo \cap Alien, todo' = {o}, nrts' = nrts
        PROVE  Requested'
    <3>1. todo' \cap Obj = {}
      BY <2>2, LoadAssumption
    <3> QED BY <1>0, <2>0, <2>2, <3>1 DEF Requested
  <2> QED BY <1>3, <2>0, <2>1, <2>2 DEF WalkRoute
<1>4. CASE EndRoutes
  BY <1>0, <1>4 DEF EndRoutes, Goto, copy, Requested
<1>5. CASE GetRules
  <2>1. PICK os \in Dump(Of(kernel, Rules)) : PushBack(os)
    BY <1>5 DEF GetRules
  <2>2. pc = "rules" /\ pc' = "neighbours" /\ todo' = todo
    BY <1>5 DEF GetRules, Goto
  <2>3. "arp" \notin Rules /\ os \subseteq Of(kernel, Rules)
    BY <2>1 DEF Rules, Dump
  <2> QED BY <1>0, <1>1, <2>1, <2>2, <2>3 DEF Requested
<1>6. CASE GetNeighbors
  <2>1. PICK os \in Dump(Of(kernel, {"arp"}) \ Proxy) :
          /\ IF os = {} THEN Goto("neighbours", "route") ELSE Goto("neighbours", "proxies")
          /\ PushBack(os) /\ todo' = todo
    BY <1>6 DEF GetNeighbors
  <2>2. os \subseteq Of(kernel, {"arp"}) /\ os \cap Proxy = {} /\ pc = "neighbours"
    BY <2>1 DEF Dump, Goto
  <2>3. Of(nrts.objs, {"arp"}) = {}
    BY <2>2 DEF Requested
  <2>4. Of(nrts'.objs, {"arp"}) = os
    <3>1. nrts'.objs = nrts.objs \cup os
      BY <1>1, <2>1, <2>2
    <3>2. \A o : o \in Of(nrts'.objs, {"arp"}) <=> o \in os
      BY <2>2, <2>3, <3>1 DEF Of
    <3> QED BY <3>2
  <2>5. CASE os = {}
    <3> DEFINE r == Reading(FALSE, nrts.objs, {})
    <3>0. nrts'.objs = nrts.objs
      BY <1>1, <2>1, <2>2, <2>5
    <3>1. pc' = "route"
      BY <2>1, <2>5 DEF Goto
    <3>2. nrts'.objs \in Fetched(kernel)
      BY <1>1, <2>1, <2>2, <2>4, <2>5 DEF Fetched
    <3>3. r \in UpdateByNetlink(before, kernel)
      <4>1. (Of(nrts.objs, {"arp"}) # {} /\ FALSE) = FALSE
        OBVIOUS
      <4> QED BY <3>0, <3>2, <4>1, Outcomes
    <3>4. ~r.ok /\ nrts'.objs = r.objs /\ nrts'.bare = r.bare /\ nrts'.fwd = before.fwd
      BY <1>1, <2>1, <2>2, <3>0 DEF Reading
    <3> HIDE DEF r
    <3> QED BY <1>0, <3>1, <3>3, <3>4 DEF GaveUp, Holds
  <2>6. CASE os # {}
    <3>1. pc' = "proxies"
      BY <2>1, <2>6 DEF Goto
    <3>2. ~(Of(nrts'.objs, {"arp"}) \subseteq Proxy)
      BY <2>2, <2>4, <2>6
    <3> QED BY <1>0, <1>1, <2>1, <2>2, <3>1, <3>2 DEF Requested
  <2> QED BY <2>5, <2>6
<1>7. CASE GetProxies
  <2>1. PICK os \in Dump(Of(kernel, {"arp"}) \cap Proxy) : PushBack(os)
    BY <1>7 DEF GetProxies
  <2>2. pc = "proxies" /\ pc' = "links" /\ todo' = todo /\ os \subseteq Of(kernel, {"arp"})
    BY <1>7, <2>1 DEF GetProxies, Goto, Dump
  <2>3. nrts.objs \subseteq nrts'.objs /\ ~(Of(nrts.objs, {"arp"}) \subseteq Proxy)
    BY <1>1, <2>1, <2>2 DEF Requested
  <2>4. ~(Of(nrts'.objs, {"arp"}) \subseteq Proxy)
    <3>1. PICK o \in nrts.objs : Class[o] \in {"arp"} /\ o \notin Proxy
      BY <2>3 DEF Of
    <3>2. o \in Of(nrts'.objs, {"arp"})
      BY <2>3, <3>1 DEF Of
    <3> QED BY <3>1, <3>2
  <2> QED BY <1>0, <1>1, <2>1, <2>2, <2>4 DEF Requested
<1>8. CASE GetLinks \/ NoLinks
  <2>1. pc = "links" /\ nrts' = nrts
    BY <1>8 DEF GetLinks, NoLinks, Goto, copy
  <2>2. nrts.objs \in Fetched(kernel) /\ Of(nrts.objs, {"arp"}) # {}
    BY <2>1 DEF Requested, Fetched
  <2>3. ASSUME NEW b \in BOOLEAN
        PROVE  \E r \in UpdateByNetlink(before, kernel) :
                 r.ok = b /\ nrts'.objs = r.objs /\ nrts'.bare = r.bare /\ nrts'.fwd = before.fwd
    <3> DEFINE r == Reading(b, nrts.objs, {})
    <3>1. r \in UpdateByNetlink(before, kernel)
      <4>1. Reading(Of(nrts.objs, {"arp"}) # {} /\ b, nrts.objs, {})
              \in UpdateByNetlink(before, kernel)
        BY <2>2, Outcomes
      <4>2. (Of(nrts.objs, {"arp"}) # {} /\ b) = b
        BY <2>2
      <4> QED BY <4>1, <4>2
    <3>2. r.ok = b /\ nrts'.objs = r.objs /\ nrts'.bare = r.bare /\ nrts'.fwd = before.fwd
      BY <2>1 DEF Requested, Reading
    <3> HIDE DEF r
    <3> QED BY <3>1, <3>2
  <2>5. CASE GetLinks
    <3>1. PICK r \in UpdateByNetlink(before, kernel) :
            r.ok = TRUE /\ nrts'.objs = r.objs /\ nrts'.bare = r.bare /\ nrts'.fwd = before.fwd
      BY <2>3
    <3>2. pc' = "ip_forward"
      BY <2>5 DEF GetLinks, Goto
    <3>3. r \in ReadBy(before, kernel)
      BY <3>1, Outcomes
    <3> QED BY <1>0, <3>1, <3>2, <3>3 DEF ReadWell, Holds
  <2>6. CASE NoLinks
    <3>1. PICK r \in UpdateByNetlink(before, kernel) :
            r.ok = FALSE /\ nrts'.objs = r.objs /\ nrts'.bare = r.bare /\ nrts'.fwd = before.fwd
      BY <2>3
    <3>2. pc' = "route"
      BY <2>6 DEF NoLinks, Goto
    <3> QED BY <1>0, <3>1, <3>2 DEF GaveUp, Holds
  <2> QED BY <1>8, <2>5, <2>6
<1> QED BY <1>2, <1>3, <1>4, <1>5, <1>6, <1>7, <1>8 DEF ByNetlink

\* Each file read makes the outcome that of the next kind.
LEMMA ParsedStep ==
  ASSUME TypeOK, Atomic, quiet, ByProcNet
  PROVE  Atomic'
<1>0. UNCHANGED << kernel, kernelFwd, before, quiet >>
  BY QuietStep DEF Proceed
<1> USE DEF Netlink
<1>1. CASE ReadRoute
  <2>1. /\ nrts'.objs = Of(kernel, {"inet"}) /\ nrts'.bare = Of(kernel, {"inet"})
        /\ nrts'.fwd = nrts.fwd /\ pc = "route" /\ pc' = "route6"
    BY <1>1 DEF ReadRoute, TypeOK, Stores, Goto
  <2>2. \A f \in Fwd : nrts.fwd[f] = before.fwd[f]
    BY <2>1 DEF Atomic, GaveUp, Holds
  <2> QED BY <1>0, <2>1, <2>2 DEF Atomic, Parsed, Holds, Reading
<1>2. ASSUME NEW from, NEW class, NEW to, ReadMore(from, class, to)
      PROVE  /\ nrts'.objs = nrts.objs \cup Of(kernel, {class})
             /\ nrts'.bare = nrts.bare \cup Of(kernel, {class})
             /\ nrts'.fwd = nrts.fwd /\ pc = from /\ pc' = to
  BY <1>2 DEF ReadMore, TypeOK, Stores, Goto
<1>3. ASSUME NEW class, NEW cs PROVE Of(kernel, cs) \cup Of(kernel, {class}) = Of(kernel, cs \cup {class})
  BY DEF Of
<1>4. CASE ReadMore("route6", "inet6", "arp")
  <2>1. Parsed({"inet"}) /\ pc' = "arp"
    BY <1>2, <1>4 DEF Atomic
  <2>2. {"inet"} \cup {"inet6"} = {"inet", "inet6"}
    OBVIOUS
  <2>3. nrts'.objs = Of(kernel, {"inet", "inet6"}) /\ nrts'.bare = Of(kernel, {"inet", "inet6"})
    <3>1. nrts.objs = Of(kernel, {"inet"}) /\ nrts.bare = Of(kernel, {"inet"})
      BY <2>1 DEF Parsed, Holds, Reading
    <3>2. Of(kernel, {"inet"}) \cup Of(kernel, {"inet6"}) = Of(kernel, {"inet", "inet6"})
      BY <1>3, <2>2
    <3>3. /\ nrts'.objs = nrts.objs \cup Of(kernel, {"inet6"})
          /\ nrts'.bare = nrts.bare \cup Of(kernel, {"inet6"})
      BY <1>2, <1>4
    <3> QED BY <3>1, <3>2, <3>3
  <2>4. \A f \in Fwd : nrts'.fwd[f] = before.fwd[f]
    BY <1>2, <1>4, <2>1 DEF Parsed, Holds, Reading
  <2> QED BY <1>0, <2>1, <2>3, <2>4 DEF Atomic, Parsed, Holds, Reading
<1>5. CASE ReadMore("arp", "arp", "ip_forward")
  <2> DEFINE all == {"inet", "inet6", "arp"}
             r   == Reading(all = {"inet", "inet6", "arp"}, Of(kernel, all), Of(kernel, all))
  <2>1. Parsed({"inet", "inet6"}) /\ pc' = "ip_forward"
    BY <1>2, <1>5 DEF Atomic
  <2>2. {"inet", "inet6"} \cup {"arp"} = all
    OBVIOUS
  <2>3. nrts'.objs = Of(kernel, all) /\ nrts'.bare = Of(kernel, all)
    <3>1. /\ nrts.objs = Of(kernel, {"inet", "inet6"})
          /\ nrts.bare = Of(kernel, {"inet", "inet6"})
      BY <2>1 DEF Parsed, Holds, Reading
    <3>2. Of(kernel, {"inet", "inet6"}) \cup Of(kernel, {"arp"}) = Of(kernel, all)
      BY <1>3, <2>2
    <3>3. /\ nrts'.objs = nrts.objs \cup Of(kernel, {"arp"})
          /\ nrts'.bare = nrts.bare \cup Of(kernel, {"arp"})
      BY <1>2, <1>5
    <3> QED BY <3>1, <3>2, <3>3
  <2>4. \A f \in Fwd : nrts'.fwd[f] = before.fwd[f]
    BY <1>2, <1>5, <2>1 DEF Parsed, Holds, Reading
  <2>5. r \in ReadBy(before, kernel)
    BY Outcomes
  <2>6. r.ok /\ r.objs = Of(kernel, all) /\ r.bare = Of(kernel, all)
    BY DEF Reading
  <2> HIDE DEF r, all
  <2> QED BY <1>0, <2>1, <2>3, <2>4, <2>5, <2>6 DEF Atomic, ReadWell, Holds
<1>6. ASSUME NEW from \in {"route", "route6", "arp"}, Fail(from) PROVE Atomic'
  <2>1. pc = from /\ pc' = "idle" /\ ~ok' /\ ok' \in BOOLEAN /\ nrts' = nrts
    BY <1>6 DEF Fail, Goto, copy
  <2>2. ASSUME NEW r \in ReadBy(before, kernel), ~r.ok, Holds(r, {}) PROVE Ended'
    BY <1>0, <2>1, <2>2, HeldStill DEF Ended
  <2>3. CASE from = "route"
    <3>1. PICK r \in UpdateByNetlink(before, kernel) : ~r.ok /\ Holds(r, {})
      BY <2>1, <2>3 DEF Atomic, GaveUp
    <3>2. r \in ReadBy(before, kernel)
      BY <3>1, Outcomes
    <3> QED BY <2>1, <2>2, <3>1, <3>2 DEF Atomic
  <2>4. ASSUME NEW cs \in { {"inet"}, {"inet", "inet6"} }, Parsed(cs) PROVE Ended'
    <3> DEFINE r == Reading(cs = {"inet", "inet6", "arp"}, Of(kernel, cs), Of(kernel, cs))
    <3>1. (cs = {"inet", "inet6", "arp"}) = FALSE
      OBVIOUS
    <3>2. r \in ReadBy(before, kernel)
      BY Outcomes
    <3>3. ~r.ok /\ Holds(r, {})
      BY <2>4, <3>1 DEF Parsed, Reading
    <3> HIDE DEF r
    <3> QED BY <2>2, <3>2, <3>3
  <2>5. CASE from # "route"
    BY <2>1, <2>4, <2>5 DEF Atomic
  <2> QED BY <2>3, <2>5
<1> QED BY <1>1, <1>4, <1>5, <1>6 DEF ByProcNet

LEMMA ForwardingStep ==
  ASSUME TypeOK, Atomic, quiet, Forwarding
  PROVE  Atomic'
<1>0. UNCHANGED << kernel, kernelFwd, before, quiet >>
  BY QuietStep DEF Proceed
<1> USE DEF Netlink
<1>1. ASSUME NEW from, NEW f \in Fwd, NEW to, ReadForwarding(from, f, to)
      PROVE  /\ nrts'.objs = nrts.objs /\ nrts'.bare = nrts.bare
             /\ \A g \in Fwd : nrts'.fwd[g] = IF g = f THEN kernelFwd[g] ELSE nrts.fwd[g]
             /\ pc = from /\ pc' = to /\ ok' = (to = "idle")
  BY <1>1 DEF ReadForwarding, TypeOK, Stores, Goto
<1>2. CASE ReadForwarding("ip_forward", "ipv4_forwarding", "ip6_forward")
  <2>1. PICK r \in ReadBy(before, kernel) : r.ok /\ Holds(r, {})
    BY <1>1, <1>2 DEF Atomic, ReadWell, Fwd
  <2>2. /\ nrts'.objs = r.objs /\ nrts'.bare = r.bare
        /\ \A g \in Fwd : nrts'.fwd[g] = IF r.ok /\ g \in {"ipv4_forwarding"} THEN kernelFwd[g]
                                         ELSE before.fwd[g]
    BY <1>1, <1>2, <2>1 DEF Holds, Fwd
  <2> QED BY <1>0, <1>1, <1>2, <2>1, <2>2 DEF Atomic, ReadWell, Holds, Fwd
<1>3. CASE ReadForwarding("ip6_forward", "ipv6_forwarding", "idle")
  <2>1. PICK r \in ReadBy(before, kernel) : r.ok /\ Holds(r, {"ipv4_forwarding"})
    BY <1>1, <1>3 DEF Atomic, ReadWell, Fwd
  <2>2. /\ nrts'.objs = r.objs /\ nrts'.bare = r.bare
        /\ \A g \in Fwd : nrts'.fwd[g] = IF r.ok /\ g \in Fwd THEN kernelFwd[g]
                                         ELSE before.fwd[g]
    BY <1>1, <1>3, <2>1 DEF Holds, Fwd
  <2>3. pc' = "idle" /\ ok' = (r.ok /\ Fwd = Fwd)
    BY <1>1, <1>3, <2>1 DEF Fwd
  <2> QED BY <1>0, <2>1, <2>2, <2>3 DEF Atomic, Ended, Holds
<1>4. ASSUME NEW from \in Ending, Fail(from) PROVE Atomic'
  <2>1. pc = from /\ pc' = "idle" /\ ok' = FALSE /\ nrts' = nrts
    BY <1>4 DEF Fail, Goto, copy
  <2>2. ASSUME NEW got \in {{}, {"ipv4_forwarding"}}, ReadWell(got) PROVE Ended'
    <3>1. PICK r \in ReadBy(before, kernel) : r.ok /\ Holds(r, got)
      BY <2>2 DEF ReadWell
    <3>2. got # Fwd
      BY DEF Fwd
    <3>3. Holds(r, got)'
      BY <1>0, <2>1, <3>1, HeldStill
    <3>4. ok' = (r.ok /\ got = Fwd)
      BY <2>1, <3>2
    <3> QED BY <1>0, <3>3, <3>4 DEF Ended
  <2> QED BY <2>1, <2>2 DEF Atomic, Ending
<1> QED BY <1>2, <1>3, <1>4 DEF Forwarding, Ending

LEMMA AtomicStep == ASSUME TypeOK, Walks, Atomic, [Next]_vars PROVE Atomic'
<1>1. CASE Begin
  BY <1>1 DEF Begin, Goto, Atomic, Netlink, copy
<1>2. CASE Proceed
  <2>0. UNCHANGED << kernel, kernelFwd, before, quiet >>
    BY <1>2, QuietStep
  <2>1. CASE ~quiet
    BY <2>0, <2>1 DEF Atomic
  <2>2. CASE quiet /\ OpenNetlink
    <3>1. pc = "open" /\ nrts = before
      BY <2>2 DEF OpenNetlink, Goto, Atomic
    <3>2. CASE Clear /\ Goto("open", "routes") /\ UNCHANGED << todo, ok, world, history >>
      <4>1. nrts'.objs = {} /\ nrts'.bare = {} /\ nrts'.fwd = nrts.fwd
        BY <3>2 DEF Clear, TypeOK, Stores
      <4>2. pc' = "routes" /\ todo' = {}
        BY <3>1, <3>2 DEF Goto, Walks
      <4>3. Requested'
        BY <2>0, <3>1, <4>1, <4>2 DEF Requested, Of
      <4> QED BY <4>2, <4>3 DEF Atomic, Netlink
    <3>3. CASE Goto("open", "route") /\ UNCHANGED << todo, ok, copy, world, history >>
      <4> DEFINE r == Untouched(before)
      <4>1. r \in UpdateByNetlink(before, kernel)
        BY Outcomes
      <4>2. ~r.ok /\ r.objs = nrts.objs /\ r.bare = nrts.bare
        BY <3>1 DEF Untouched
      <4>3. pc' = "route" /\ nrts' = nrts
        BY <3>3 DEF Goto, copy
      <4> HIDE DEF r
      <4>4. GaveUp'
        BY <2>0, <3>1, <4>1, <4>2, <4>3 DEF GaveUp, Holds
      <4> QED BY <4>3, <4>4 DEF Atomic, Netlink
    <3> QED BY <2>2, <3>2, <3>3 DEF OpenNetlink
  <2>3. CASE quiet /\ ByNetlink
    <3>1. pc \in Netlink /\ pc' \in Netlink \cup {"route", "ip_forward"}
      BY <2>3, NetlinkStep DEF GetLinks, Goto, Netlink
    <3>2. Requested
      BY <2>3, <3>1 DEF Atomic
    <3> QED BY <2>3, <3>1, <3>2, RequestedStep DEF Atomic, Netlink
  <2>4. CASE quiet /\ (ByProcNet \/ Forwarding)
    BY <2>4, ParsedStep, ForwardingStep
  <2> QED BY <1>2, <2>1, <2>2, <2>3, <2>4 DEF Proceed
<1>3. CASE KernelEvent
  <2>1. ~quiet'
    BY <1>3 DEF KernelEvent, RecordComes, RecordGoes, InterfaceRenamed, InterfaceGoes,
                ForwardingSwitched, Changed
  <2> QED BY <2>1 DEF Atomic
<1>4. CASE UNCHANGED vars
  <2>1. UNCHANGED << pc, todo, ok, nrts, kernel, kernelFwd, before, quiet >>
    BY <1>4 DEF vars, copy, world, history, others
  <2>2. Requested => Requested'
    BY <2>1 DEF Requested
  <2>3. Ended => Ended'
    BY <2>1, HeldStill DEF Ended
  <2> QED BY <2>1, <2>2, <2>3, HeldStill DEF Atomic
<1> QED BY <1>1, <1>2, <1>3, <1>4 DEF Next

-----------------------------------------------------------------------------
(***************************************************************************)
(* Theorems.                                                               *)
(***************************************************************************)

LoadSafe == TypeOK /\ Walks /\ World /\ Fresh /\ Names /\ Cover /\ Atomic

LEMMA LoadStart == ASSUME Init PROVE LoadSafe
<1>1. TypeOK
  <2>1. [objs |-> {}, bare |-> {}, fwd |-> [f \in Fwd |-> FALSE]] \in Stores
    BY DEF Stores
  <2>2. events \in 0 .. MaxEvents
    BY LoadAssumption DEF Init
  <2>3. nrts \in Stores /\ before \in Stores
    BY <2>1 DEF Init
  <2>4. iface \in [Obj -> Name \cup {None}] /\ ifs \in [Index -> Name \cup {None}]
    BY NoneType DEF Init
  <2> QED BY <2>2, <2>3, <2>4 DEF Init, TypeOK, Pcs
<1>2. Walks /\ World /\ Fresh /\ Names /\ Cover /\ Atomic
  BY DEF Init, Atomic, Walks, World, Fresh, Names, Cover, Complete, Succeeded, Netlink, ProcNet,
         Ending
<1> QED BY <1>1, <1>2 DEF LoadSafe

\* The invariant of where a call stands.
LEMMA LoadSafeAlways == Spec => []LoadSafe
<1>1. ASSUME LoadSafe, [Next]_vars PROVE LoadSafe'
  BY <1>1, TypeStep, WalksStep, WorldStep, FreshStep, NamesStep, CoverStep,
     AtomicStep DEF LoadSafe
<1> QED BY <1>1, LoadStart, PTL DEF Spec

\* The variables keep their types through every load.
THEOREM LoadTypeCorrect == Spec => []TypeOK
<1>1. LoadSafe => TypeOK
  BY DEF LoadSafe
<1> QED BY <1>1, LoadSafeAlways, PTL

\* A call during which nothing happens ends, in the store and in what it returns,
\* as one of the outcomes RouteStore gives Update, which RoutesPanel and its proofs
\* take for the whole call.
THEOREM CallsAreAtomic == Spec => []AtomicWhenQuiet
<1>1. LoadSafe => AtomicWhenQuiet
  BY AtomicEnds DEF LoadSafe
<1> QED BY <1>1, LoadSafeAlways, PTL

\* A load that succeeds leaves no record of an earlier load, or of a reader that
\* gave up, that the kernel has not had since the call began.
THEOREM LoadedAlwaysFresh == Spec => []FreshRecords
<1>1. LoadSafe => FreshRecords
  BY DEF LoadSafe, Fresh, FreshRecords, Complete
<1> QED BY <1>1, LoadSafeAlways, PTL

\* However often interfaces were renamed during a load that succeeds, the names of
\* the records are those of the map the dialogs offer.
THEOREM NamesAlwaysAgree == Spec => []NamesAgree
<1>1. LoadSafe => NamesAgree
  BY DEF LoadSafe, Names, NamesAgree, Complete
<1> QED BY <1>1, LoadSafeAlways, PTL

\* Every interface of a record the netlink reader has stored is in the map, or has
\* gone since: the order of the requests is what guarantees it.
THEOREM LinksAlwaysCover == Spec => []LinksCover
<1>1. LoadSafe => LinksCover
  BY DEF LoadSafe, Cover, LinksCover, Complete
<1> QED BY <1>1, LoadSafeAlways, PTL
=============================================================================
