---------------------------- MODULE MCRoutesPanel ----------------------------
(***************************************************************************)
(* Small instances of RoutesPanel.  The objects a cfg puts in Obj come     *)
(* from IPv4 routes r1 and r3 with one destination in one table, r2 in     *)
(* another, an IPv4 rule and a neighbour.                                  *)
(***************************************************************************)
EXTENDS RoutesPanel, TLC

CONSTANTS left, right, r1, r2, r3, u1, a1

MCClass == [o \in Obj |-> CASE o = u1 -> "rule" [] o = a1 -> "arp"
                             [] OTHER -> "inet"]
MCTable == [o \in Obj |-> IF o = r2 THEN 2 ELSE 1]
MCNamed == [o \in Obj |-> IF o = r3 THEN r1 ELSE o]

\* Views are interchangeable; used by runs of safety properties only.
MCSymmetry == Permutations(Views)
=============================================================================
