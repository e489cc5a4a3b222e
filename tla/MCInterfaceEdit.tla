--------------------------- MODULE MCInterfaceEdit ---------------------------
(* Instances of InterfaceEdit: two IPv4 addresses (rows 1 and 2, 3 adds one) *)
(* and one IPv6 address (row 4, 5 adds one); a word of three bits.           *)
EXTENDS InterfaceEdit

At(a, b, broadcast) == [ip |-> a, bits |-> b, bc |-> broadcast]

\* One address; the same with another broadcast address; two, one of which has
\* the empty prefix, and an IPv6 one.
MCInitially == { {At(1, 1, "own")}, {At(1, 1, "limited")},
                 {At(1, 1, "own"), At(2, 0, "limited"), At(4, 2, Blank)} }
=============================================================================
