------------------------------ MODULE MCPlugin ------------------------------
(* Small instances of Plugin for TLC. *)
EXTENDS Plugin

CONSTANTS a1, r1, r2, d1, d2

OneAlloc == {a1}
TwoAdds == {r1, r2}
TwoDels == {d1, d2}

\* Both ADD requests and both DEL requests are for a1.
MCAllocOf == [x \in AddReqs \cup DelReqs |-> a1]
=============================================================================
