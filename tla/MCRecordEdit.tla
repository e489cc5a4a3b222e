---------------------------- MODULE MCRecordEdit -----------------------------
(* Records for RecordEdit: each attribute some of them has is one that the   *)
(* dialogs treat in a way of their own.                                      *)
EXTENDS RecordEdit, TLC

Enc(type, fields) ==
  [type |-> type, valid |-> {Route!Bit[f] : f \in DOMAIN fields},
   val |-> fields @@ Route!NoEncap.val]

Plain == << [dest |-> 1, gateway |-> 1, type |-> 1, family |-> 1, dev |-> 1, table |-> 1,
             scope |-> 2, proto |-> 2, metric |-> 1, prefsrc |-> 1] @@ Route!Main >>

Multipath ==
  << [dest |-> 2, type |-> 1, family |-> 1, table |-> 1, tos |-> 1] @@ Route!Main,
     [nexthop |-> 1, gateway |-> 1, dev |-> 1] @@ Route!Hop,
     [nexthop |-> 1, rtvia |-> 2, family |-> 2, dev |-> 2, weight |-> 1, onlink |-> 1,
      encap |-> 1, enc |-> Enc("mpls", [label |-> 2, mttl |-> 1])] @@ Route!Hop >>

Tunnel == << [dest |-> 1, rtvia |-> 1, type |-> 1, family |-> 2, dev |-> 1, table |-> 2,
              pref |-> 1, src |-> 1, encap |-> 1,
              enc |-> Enc("ip6", [id |-> 1, hoplimit |-> 1, addr |-> 2])] @@ Route!Main >>

Object == << [dest |-> 1, nhid |-> 1, gateway |-> 1, dev |-> 1, type |-> 1, family |-> 1,
              table |-> 1] @@ Route!Main >>

RuleOf(fields) == << fields @@ [Rule!Blank(0)[1] EXCEPT !.fwmark = 0] >>

Lookup == RuleOf([pref |-> 1, from |-> 1, iif |-> 1, ipproto |-> 2, table |-> 1, proto |-> 2,
                  suppress_prefixlength |-> 1, action |-> "table"])
Jump   == RuleOf([pref |-> 2, goto |-> 1, uid_begin |-> 1, uid_end |-> 2, fwmark |-> 1,
                  fwmask |-> 2, realms_from |-> 1, realms_to |-> 2, action |-> "goto"])
Drop   == RuleOf([pref |-> 1, not |-> 1, oif |-> 2, l3mdev |-> 1, action |-> "other"])

NeighOf(fields) == << fields @@ Neigh!Blank[1] >>

Host  == NeighOf([ip |-> 1, mac |-> 1, dev |-> 1, state |-> 1, proto |-> 2, router |-> 1])
Proxy == NeighOf([ip |-> 2, dev |-> 2, proxy |-> 1, family |-> 2, managed |-> 1])

MCSamples == [route |-> {Plain, Multipath, Tunnel, Object}, rule |-> {Lookup, Jump, Drop},
              neigh |-> {Host, Proxy}]
=============================================================================
