----------------------------- MODULE RouteStore -----------------------------
(***************************************************************************)
(* struct NetRoutes: the copy of the kernel's routing data the panels      *)
(* show, and what one call of NetRoutes::Update makes of it when nothing   *)
(* else happens meanwhile.  RoutesPanel takes this as one step of a        *)
(* handler; NetRoutesLoad has the call's own steps.                        *)
(***************************************************************************)

CONSTANTS
  Obj,    \* values of kernel records: routes, rules, neighbours
  Class,  \* [Obj -> record class]
  Proxy   \* the neighbours that are proxy entries

Rules   == {"rule", "rule6", "mcrule", "mcrule6"}

\* The classes Update fills; mcinet and mcinet6 stay empty.
Loaded  == {"inet", "inet6", "arp"} \cup Rules
Fwd     == {"ipv4_forwarding", "ipv6_forwarding"}

ASSUME StoreAssumption == Class \in [Obj -> Loaded] /\ Proxy \subseteq Obj

Stores == [objs : SUBSET Obj, bare : SUBSET Obj, fwd : [Fwd -> BOOLEAN]]

Of(os, cs) == { o \in os : Class[o] \in cs }

-----------------------------------------------------------------------------
(***************************************************************************)
(* NetRoutes::Update: every way one call can end.  The netlink reader      *)
(* fetches routes, rules, neighbours and links in this order; missing      *)
(* routes or rules are skipped, missing neighbours (a dump without any is  *)
(* one) or links are a failure and send it to the /proc reader, which      *)
(* fetches neither rules nor tables.  Each reader forgets all records      *)
(* (Clear) once its first source is open, and what it has stored before    *)
(* failing stays.  A forwarding file that opens holds a number.            *)
(***************************************************************************)

Reading(ok, os, bare) == [ok |-> ok, cleared |-> TRUE, objs |-> os, bare |-> bare]

Untouched(st) ==
  [ok |-> FALSE, cleared |-> FALSE, objs |-> st.objs, bare |-> st.bare]

\* A dump that breaks off ends with the records received until then.  The
\* proxies are asked for once there are neighbours; a dump of them that fails
\* is not noticed.
Fetched(k) ==
  { os \in SUBSET k : Of(os, {"arp"}) \subseteq Proxy => Of(os, {"arp"}) = {} }

UpdateByNetlink(st, k) ==
  {Untouched(st)} \cup
  { Reading(Of(os, {"arp"}) # {} /\ links, os, {}) :
      os \in Fetched(k), links \in BOOLEAN }

\* Slip: the records of an earlier reading are not cleared.  Each Slip_ operator
\* is a plausible mistake some property must notice; no action uses one.
Slip_UpdateByProcNet(r, k) ==
  {r} \cup { Reading(cs = {"inet", "inet6", "arp"}, r.objs \cup Of(k, cs), {}) :
               cs \in { {"inet"}, {"inet", "inet6"}, {"inet", "inet6", "arp"} } }

UpdateByProcNet(r, k) ==
  {r} \cup { Reading(cs = {"inet", "inet6", "arp"}, Of(k, cs), Of(k, cs)) :
               cs \in { {"inet"}, {"inet", "inet6"}, {"inet", "inet6", "arp"} } }

\* Slip: a forwarding file that cannot be read does not count as a failure.
Slip_Update(st, k, kfwd) ==
  LET read == UNION { IF r.ok THEN {r} ELSE UpdateByProcNet(r, k) :
                        r \in UpdateByNetlink(st, k) }
  IN  { [ok      |-> r.ok,
         cleared |-> r.cleared,
         nrts    |-> [objs |-> r.objs, bare |-> r.bare,
                      fwd  |-> [f \in Fwd |-> IF r.ok /\ f \in got THEN kfwd[f]
                                              ELSE st.fwd[f]]]] :
        r \in read, got \in {{}, {"ipv4_forwarding"}, Fwd} }

\* The forwarding files are read last; one that cannot be read fails the call.
Update(st, k, kfwd) ==
  LET read == UNION { IF r.ok THEN {r} ELSE UpdateByProcNet(r, k) :
                        r \in UpdateByNetlink(st, k) }
  IN  { [ok      |-> r.ok /\ got = Fwd,
         cleared |-> r.cleared,
         nrts    |-> [objs |-> r.objs, bare |-> r.bare,
                      fwd  |-> [f \in Fwd |-> IF r.ok /\ f \in got THEN kfwd[f]
                                              ELSE st.fwd[f]]]] :
        r \in read, got \in {{}, {"ipv4_forwarding"}, Fwd} }

Kept(st) == [ok |-> FALSE, cleared |-> FALSE, nrts |-> st]
=============================================================================
