------------------------------ MODULE MCPlugin -------------------------------
(* Two interfaces, the name of one the beginning of the other's.            *)
EXTENDS Plugin

CONSTANTS br0, br01

MCLonger == [n \in {br0, br01} |-> IF n = br0 THEN {br0, br01} ELSE {n}]
=============================================================================
