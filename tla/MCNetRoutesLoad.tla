--------------------------- MODULE MCNetRoutesLoad ---------------------------
(***************************************************************************)
(* Small instances of NetRoutesLoad: an IPv4 and an IPv6 route, a          *)
(* neighbour, a proxy entry, a rule and a multicast route, on two          *)
(* interfaces.                                                             *)
(***************************************************************************)
EXTENDS NetRoutesLoad

CONSTANTS r4, r6, n1, p1, u1, m1, first, second

MCClass == [o \in Obj |-> CASE o = r4 -> "inet" [] o = r6 -> "inet6"
                             [] o = u1 -> "rule" [] OTHER -> "arp"]
MCProxy == Obj \cap {p1}
MCOif   == [o \in Obj |-> IF o \in {r4, p1} THEN first ELSE second]
=============================================================================
