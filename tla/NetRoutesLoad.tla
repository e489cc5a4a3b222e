---------------------------- MODULE NetRoutesLoad ----------------------------
(***************************************************************************)
(* One call of NetRoutes::Update after another, each as the sequence of    *)
(* dumps and files it really is, while the kernel goes on changing: the    *)
(* records and interface names of one load come from different moments.    *)
(* A dump is one step here, whole or broken off; NetlinkDump has its       *)
(* datagrams.                                                              *)
(***************************************************************************)
EXTENDS RouteStore, Naturals

CONSTANTS
  Index,     \* interface indices
  Name,      \* interface names
  None,      \* no name: there is no such interface, or it has not been asked
  Oif,       \* [Obj -> index of the interface of a route or neighbour]
  Alien,     \* records of other families the kernel's dump of routes holds
  Switches,  \* bound: forwarding switches other programs flip
  MaxEvents  \* bound: changes of the kernel in a behaviour

ASSUME LoadAssumption ==
  /\ None \notin Name /\ Oif \in [Obj -> Index]
  /\ Alien \cap Obj = {} /\ Switches \subseteq Fwd /\ MaxEvents \in Nat

VARIABLES
  pc,        \* where the call stands, "idle" between calls
  todo,      \* records of the route dump the walk has not stored yet
  ok,        \* what the last call returned
  nrts,      \* the store, as in RoutesPanel
  iface,     \* iface of the stored records
  ifs,       \* the store's map from indices to names
  kernel, kernelFwd,
  name,      \* the kernel's interface names
  before,    \* history: the store when the call began, ...
  seen,      \* ... the records the kernel has had since,
  lost,      \* ... the interfaces it has lost since,
  quiet,     \* ... nothing has happened since
  intact,    \* ... the dump of the links was whole
  events     \* history: changes so far

world   == << kernel, kernelFwd, name >>
others  == << before, seen, lost, quiet, events >>
history == << others, intact >>
copy    == << nrts, iface, ifs >>
vars    == << pc, todo, ok, copy, world, history >>

Pcs == {"idle", "open", "routes", "walk", "rules", "neighbours", "proxies", "links",
        "route", "route6", "arp", "ip_forward", "ip6_forward"}

\* The type invariant.
TypeOK ==
  /\ pc \in Pcs /\ todo \subseteq Obj \cup Alien /\ ok \in BOOLEAN
  /\ nrts \in Stores /\ before \in Stores
  /\ iface \in [Obj -> Name \cup {None}]
  /\ ifs \in [Index -> Name \cup {None}] /\ name \in [Index -> Name \cup {None}]
  /\ kernel \subseteq Obj /\ kernelFwd \in [Fwd -> BOOLEAN]
  /\ seen \subseteq Obj /\ lost \subseteq Index
  /\ quiet \in BOOLEAN /\ intact \in BOOLEAN /\ events \in 0 .. MaxEvents

\* The records that belong to an interface.
Linked(os) == Of(os, {"inet", "inet6", "arp"})

NoNames == [i \in Index |-> None]
NoIface == [o \in Obj |-> None]

-----------------------------------------------------------------------------
(***************************************************************************)
(* The steps of a call.                                                    *)
(***************************************************************************)

\* What a request brings back: all the kernel has, the part received before the
\* dump broke off, or nothing.
Dump(os) == SUBSET os

Clear ==
  /\ nrts' = [nrts EXCEPT !.objs = {}, !.bare = {}]
  /\ iface' = NoIface /\ ifs' = NoNames

\* push_back of records that come without the name of their interface.
PushBack(os) ==
  /\ nrts' = [nrts EXCEPT !.objs = @ \cup os]
  /\ UNCHANGED << iface, ifs >>

Goto(from, to) == pc = from /\ pc' = to

Fail(from) ==
  /\ Goto(from, "idle") /\ ok' = FALSE
  /\ UNCHANGED << todo, copy, world, history >>

Begin ==
  /\ Goto("idle", "open") /\ todo' = {}
  /\ before' = nrts /\ seen' = kernel /\ lost' = {} /\ quiet' = TRUE /\ intact' = TRUE
  /\ UNCHANGED << ok, copy, world, events >>

\* Slip: the netlink reader keeps the records of the load before.
Slip_OpenNetlink ==
  \/ /\ Goto("open", "routes")
     /\ UNCHANGED << todo, ok, copy, world, history >>
  \/ /\ Goto("open", "route")
     /\ UNCHANGED << todo, ok, copy, world, history >>

OpenNetlink ==
  \/ /\ Goto("open", "routes") /\ Clear
     /\ UNCHANGED << todo, ok, world, history >>
  \/ /\ Goto("open", "route")
     /\ UNCHANGED << todo, ok, copy, world, history >>

GetRoutes ==
  /\ Goto("routes", "walk")
  /\ todo' \in Dump(Of(kernel, {"inet", "inet6"}) \cup Alien)
  /\ UNCHANGED << ok, copy, world, history >>

\* Slip: a record of an unsupported family is stored as well.
Slip_StoreAlien ==
  /\ pc = "walk" /\ UNCHANGED pc
  /\ \E o \in todo : /\ todo' = todo \ {o}
                      /\ nrts' = [nrts EXCEPT !.objs = @ \cup {o}]
  /\ UNCHANGED << ok, iface, ifs, world, history >>

\* Slip: no record is stepped over.
Slip_WalkRoute ==
  /\ pc = "walk" /\ UNCHANGED << pc, todo >>
  /\ \E o \in todo \cap Obj :
       /\ nrts' = [nrts EXCEPT !.objs = @ \cup {o}]
       /\ iface' = [iface EXCEPT ![o] = name[Oif[o]]]
  /\ UNCHANGED << ok, ifs, world, history >>

\* if_indextoname asks the kernel again for each route.  At a record of a family
\* it does not support the walk starts over with the same record.
WalkRoute ==
  /\ pc = "walk" /\ UNCHANGED pc
  /\ \/ \E o \in todo \cap Obj :
          /\ todo' = todo \ {o}
          /\ nrts' = [nrts EXCEPT !.objs = @ \cup {o}]
          /\ iface' = [iface EXCEPT ![o] = name[Oif[o]]]
     \/ \E o \in todo \cap Alien : todo' = {o} /\ UNCHANGED << nrts, iface >>
  /\ UNCHANGED << ok, ifs, world, history >>

EndRoutes ==
  /\ Goto("walk", "rules") /\ todo = {}
  /\ UNCHANGED << todo, ok, copy, world, history >>

GetRules ==
  /\ Goto("rules", "neighbours")
  /\ \E os \in Dump(Of(kernel, Rules)) : PushBack(os)
  /\ UNCHANGED << todo, ok, world, history >>

GetNeighbors ==
  \E os \in Dump(Of(kernel, {"arp"}) \ Proxy) :
    /\ IF os = {} THEN Goto("neighbours", "route") ELSE Goto("neighbours", "proxies")
    /\ PushBack(os)
    /\ UNCHANGED << todo, ok, world, history >>

GetProxies ==
  /\ Goto("proxies", "links")
  /\ \E os \in Dump(Of(kernel, {"arp"}) \cap Proxy) : PushBack(os)
  /\ UNCHANGED << todo, ok, world, history >>

Links == { i \in Index : name[i] # None }

\* Slip: the links are remembered, but the records keep the names they have.
Slip_GetLinks ==
  /\ Goto("links", "ip_forward")
  /\ \E got \in Dump(Links) \ {{}} :
       /\ ifs' = [i \in Index |-> IF i \in got THEN name[i] ELSE None]
       /\ intact' = (got = Links)
  /\ UNCHANGED << todo, ok, nrts, iface, world, others >>

\* Slip: only the interfaces of routes are remembered.
Slip_RouteLinks ==
  LET got == { Oif[o] : o \in Of(nrts.objs, {"inet", "inet6"}) }
  IN  /\ Goto("links", "ip_forward")
      /\ ifs' = [i \in Index |-> IF i \in got THEN name[i] ELSE None]
      /\ iface' = [o \in Obj |->
                     IF o \in Linked(nrts.objs) /\ Oif[o] \in got THEN name[Oif[o]]
                     ELSE iface[o]]
      /\ UNCHANGED << todo, ok, nrts, world, history >>

\* SetNameByIndex, for each link received.
GetLinks ==
  /\ Goto("links", "ip_forward")
  /\ \E got \in Dump(Links) \ {{}} :
       /\ intact' = (got = Links)
       /\ ifs' = [i \in Index |-> IF i \in got THEN name[i] ELSE None]
       /\ iface' = [o \in Obj |->
                      IF o \in Linked(nrts.objs) /\ Oif[o] \in got THEN name[Oif[o]]
                      ELSE iface[o]]
  /\ UNCHANGED << todo, ok, nrts, world, others >>

NoLinks ==
  /\ Goto("links", "route")
  /\ UNCHANGED << todo, ok, copy, world, history >>

(***************************************************************************)
(* The /proc reader: three files, each naming the interfaces.  Only after  *)
(* the first has been opened it forgets what the netlink reader has left.  *)
(***************************************************************************)

\* Slip: what an aborted netlink load has stored stays.
Slip_ReadRoute ==
  LET os == Of(kernel, {"inet"})
  IN  /\ Goto("route", "route6")
      /\ nrts' = [nrts EXCEPT !.objs = @ \cup os, !.bare = os]
      /\ iface' = [o \in Obj |-> IF o \in os THEN name[Oif[o]] ELSE iface[o]]
      /\ ifs' = NoNames
      /\ UNCHANGED << todo, ok, world, history >>

ReadRoute ==
  LET os == Of(kernel, {"inet"})
  IN  /\ Goto("route", "route6")
      /\ nrts' = [nrts EXCEPT !.objs = os, !.bare = os]
      /\ iface' = [o \in Obj |-> IF o \in os THEN name[Oif[o]] ELSE None]
      /\ ifs' = NoNames
      /\ UNCHANGED << todo, ok, world, history >>

ReadMore(from, class, to) ==
  LET os == Of(kernel, {class})
  IN  /\ Goto(from, to)
      /\ nrts' = [nrts EXCEPT !.objs = @ \cup os, !.bare = @ \cup os]
      /\ iface' = [o \in Obj |-> IF o \in os THEN name[Oif[o]] ELSE iface[o]]
      /\ UNCHANGED << todo, ok, ifs, world, history >>

ByProcNet ==
  \/ ReadRoute \/ ReadMore("route6", "inet6", "arp") \/ ReadMore("arp", "arp", "ip_forward")
  \/ \E from \in {"route", "route6", "arp"} : Fail(from)

\* Last, the two forwarding files.
ReadForwarding(from, f, to) ==
  /\ Goto(from, to) /\ ok' = (to = "idle")
  /\ nrts' = [nrts EXCEPT !.fwd[f] = kernelFwd[f]]
  /\ UNCHANGED << todo, iface, ifs, world, history >>

Forwarding ==
  \/ ReadForwarding("ip_forward", "ipv4_forwarding", "ip6_forward")
  \/ ReadForwarding("ip6_forward", "ipv6_forwarding", "idle")
  \/ Fail("ip_forward") \/ Fail("ip6_forward")

ByNetlink ==
  \/ GetRoutes \/ WalkRoute \/ EndRoutes \/ GetRules
  \/ GetNeighbors \/ GetProxies \/ GetLinks \/ NoLinks

Proceed == OpenNetlink \/ ByNetlink \/ ByProcNet \/ Forwarding

-----------------------------------------------------------------------------
(***************************************************************************)
(* The kernel.                                                             *)
(***************************************************************************)

\* A record has an interface that exists; an interface takes its records along.
Changed(k, fw, nm) ==
  /\ events < MaxEvents /\ events' = events + 1
  /\ << k, fw, nm >> # world
  /\ \A o \in Linked(k) : nm[Oif[o]] # None
  /\ \A i, j \in Index : i # j /\ nm[i] = nm[j] => nm[i] = None
  /\ kernel' = k /\ kernelFwd' = fw /\ name' = nm
  /\ seen' = IF pc = "idle" THEN seen ELSE seen \cup k
  /\ lost' = IF pc = "idle" THEN lost
             ELSE lost \cup { i \in Index : name[i] # None /\ nm[i] = None }
  /\ quiet' = FALSE
  /\ UNCHANGED << pc, todo, ok, copy, before, intact >>

RecordComes == \E o \in Obj : Changed(kernel \cup {o}, kernelFwd, name)
RecordGoes  == \E o \in Obj : Changed(kernel \ {o}, kernelFwd, name)

\* Also how one appears.
InterfaceRenamed ==
  \E i \in Index, n \in Name : Changed(kernel, kernelFwd, [name EXCEPT ![i] = n])

InterfaceGoes ==
  \E i \in Index :
    Changed({ o \in kernel : o \in Linked(kernel) => Oif[o] # i }, kernelFwd,
            [name EXCEPT ![i] = None])

ForwardingSwitched ==
  \E f \in Switches : Changed(kernel, [kernelFwd EXCEPT ![f] = ~@], name)

KernelEvent ==
  RecordComes \/ RecordGoes \/ InterfaceRenamed \/ InterfaceGoes \/ ForwardingSwitched

-----------------------------------------------------------------------------
Init ==
  /\ pc = "idle" /\ todo = {} /\ ok = FALSE
  /\ nrts = [objs |-> {}, bare |-> {}, fwd |-> [f \in Fwd |-> FALSE]]
  /\ iface = NoIface /\ ifs = NoNames
  /\ name \in [Index -> Name \cup {None}]
  /\ \A i, j \in Index : i # j /\ name[i] = name[j] => name[i] = None
  /\ kernel \in { k \in SUBSET Obj : \A o \in Linked(k) : name[Oif[o]] # None }
  /\ kernelFwd = [f \in Fwd |-> FALSE]
  /\ before = nrts /\ seen = {} /\ lost = {} /\ quiet = FALSE
  /\ intact = TRUE /\ events = 0

Next == Begin \/ Proceed \/ KernelEvent

\* The call runs on (a step that only repeats itself is no progress); nothing
\* obliges the host to make one, or the kernel to change.
Spec == Init /\ [][Next]_vars /\ WF_vars(Proceed)
-----------------------------------------------------------------------------
(***************************************************************************)
(* Properties.                                                             *)
(***************************************************************************)

Succeeded == pc = "idle" /\ ok

\* With nothing happening meanwhile, the steps of a call amount to one of the
\* outcomes RouteStore gives Update, which is what RoutesPanel relies on.
AtomicWhenQuiet ==
  pc = "idle" /\ quiet =>
    \E u \in Update(before, kernel, kernelFwd) : ok = u.ok /\ nrts = u.nrts

\* The names the panels show and put into commands are those in the map the
\* dialogs offer, however often an interface was renamed between a route and
\* the links (SetNameByIndex).
NamesAgree ==
  Succeeded => \A o \in Linked(nrts.objs) :
    ifs[Oif[o]] # None => iface[o] = ifs[Oif[o]]

\* When their dump was whole, every interface a stored record refers to is in the
\* map, unless it has gone: the links are asked for last.
LinksCover ==
  Succeeded /\ intact => \A o \in Linked(nrts.objs) \ nrts.bare :
    ifs[Oif[o]] # None \/ Oif[o] \in lost

\* A successful call leaves no record that the kernel has not had since it
\* began, whatever was stored before and however often the source changed.
FreshRecords == Succeeded => nrts.objs \subseteq seen

\* A call comes back unless the dump of routes holds one of another family.
LoadEndsAmongKnown == pc # "idle" ~> pc = "idle" \/ todo \cap Alien # {}

\* A call comes back.
LoadEnds == pc # "idle" ~> pc = "idle"
=============================================================================
