----------------------------- MODULE MCCluster -----------------------------
(* Small instances of Cluster for TLC. *)
EXTENDS Cluster

CONSTANTS a1, a2, r1, r2, d1, n1, n2

OneAlloc == {a1}
TwoAllocs == {a1, a2}
OneAdd == {r1}
TwoAdds == {r1, r2}
MCOneDel == {d1}
NoDels == {}
OneNode == {n1}
TwoNodes == {n1, n2}

MCAllocOf == [x \in AddReqs \cup DelReqs |-> IF x \in {r1, d1} THEN a1 ELSE a2]

\* Where there are two nodes, each has one allocation.
MCNodeOf == [a \in Allocs |-> IF a = a2 /\ n2 \in Nodes THEN n2 ELSE n1]
=============================================================================
