------------------------------ MODULE MCIPPool ------------------------------
(* Small instances of IPPool for TLC. *)
EXTENDS IPPool

CONSTANTS p1, p2, p3

TwoProcs == {p1, p2}
ThreeProcs == {p1, p2, p3}
OneStarter == {p1}
=============================================================================
