---------------------------- MODULE AddressPool ----------------------------
(***************************************************************************)
(* What the IP pool promises its callers, with every call a single step:   *)
(* an address is handed to one caller at a time, always the lowest free    *)
(* one, and it stays leased until somebody gives it back.  A caller may    *)
(* also lose an address: then it stays leased with no holder until it is   *)
(* reclaimed.  IPPool.tla, the code's read-and-compare-and-set loops over  *)
(* Consul, is shown to implement this.                                     *)
(***************************************************************************)
EXTENDS Addresses

CONSTANTS
    Procs,       \* the goroutines that call the pool, of all agents
    OwnersOnly   \* TRUE: an address is reclaimed only when nobody holds it

VARIABLES
    leased,      \* the addresses the pool counts as allocated
    held         \* held[p]: the addresses p was given and still relies on

vars == <<leased, held>>

Init ==
    /\ leased = {}
    /\ held = [p \in Procs |-> {}]

\* p is given the lowest free address.
Acquire(p) ==
    /\ Free(leased) # {}
    /\ leased' = leased \cup {LowestFree(leased)}
    /\ held' = [held EXCEPT ![p] = @ \cup {LowestFree(leased)}]

\* An address is taken for a caller that never learns of it.
Leak ==
    /\ Free(leased) # {}
    /\ leased' = leased \cup {LowestFree(leased)}
    /\ UNCHANGED held

\* p stops relying on some of its addresses; they stay leased.
GiveUp(p) ==
    /\ \E kept \in SUBSET held[p] : held' = [held EXCEPT ![p] = kept]
    /\ UNCHANGED leased

\* An address becomes free again.
Reclaim(a) ==
    /\ a \in leased
    /\ OwnersOnly => \A p \in Procs : a \notin held[p]
    /\ leased' = leased \ {a}
    /\ UNCHANGED held

Next ==
    \/ \E p \in Procs : Acquire(p) \/ GiveUp(p)
    \/ Leak
    \/ \E a \in Addrs : Reclaim(a)

Spec == Init /\ [][Next]_vars
=============================================================================
