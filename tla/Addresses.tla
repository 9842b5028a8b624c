----------------------------- MODULE Addresses -----------------------------
(***************************************************************************)
(* The range of the IP pool and the choice of the next address,            *)
(* findNextAvailableIP of pkg/agent/consul.go.  An address is the integer  *)
(* the code compares; the /mask suffix it carries as text is cut off on    *)
(* both sides of every comparison.                                         *)
(***************************************************************************)
EXTENDS Naturals

CONSTANTS
    First, Last,  \* RangeStart and RangeEnd
    NoIP          \* "no address"

Addrs == First .. Last

ASSUME RangeAssumption == First \in Nat /\ Last \in Nat
ASSUME NoIPAssumption == NoIP \notin Addrs

\* The addresses that are not in S.
Free(S) == Addrs \ S

\* The address a pool with S allocated hands out next: the scan goes up from
\* RangeStart and takes the first one that is not allocated.
LowestFree(S) == CHOOSE a \in Free(S) : \A b \in Free(S) : a <= b
=============================================================================
