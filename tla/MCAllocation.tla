---------------------------- MODULE MCAllocation ----------------------------
(* Small instances of Allocation for TLC. *)
EXTENDS Allocation, TLC

CONSTANTS a1, a2, r1, r2, r3, d1, d2

TwoAllocs == {a1, a2}
ThreeAdds == {r1, r2, r3}
TwoDels == {d1, d2}

\* a1 has two ADD requests.
MCAllocOf ==
    [x \in AddReqs \cup DelReqs |-> IF x \in {r1, r2, d1} THEN a1 ELSE a2]
=============================================================================
