------------------------------ MODULE IPSearch ------------------------------
(***************************************************************************)
(* The search for a free address, findNextAvailableIP of                   *)
(* pkg/agent/consul.go: the loop that IPPool.tla and Allocation.tla take   *)
(* as the one step LowestFree.  Its counter is an unsigned 32-bit integer, *)
(* and an address that is not IPv4 counts as 0.                            *)
(*                                                                         *)
(* One pool, used by one caller at a time: what IPPool.tla shows of the    *)
(* callers' interleavings is not repeated here.                            *)
(***************************************************************************)
EXTENDS Integers

CONSTANTS
    Top,   \* the largest address, 2^32 - 1
    IPv6,  \* an address that is not IPv4
    NoIP   \* "no available IPs"

Words == 0 .. Top

ASSUME TopAssumption == Top \in Nat
ASSUME IPv6Assumption == IPv6 \notin Words
ASSUME NoIPAssumption == NoIP \notin Words

VARIABLES
    start, end,  \* RangeStart and RangeEnd of the pool
    allocated,   \* the addresses of the pool that are taken
    ip,          \* the counter of the loop
    pc,          \* "idle" or "scan"
    result       \* what the last search found

pool == <<start, end, allocated>>
vars == <<pool, ip, pc, result>>

\* ipToInt.
ToInt(a) == IF a = IPv6 THEN 0 ELSE a

\* The ranges InitializeIPPool writes: both ends lie in one network, hence
\* are of one kind, and are in order as integers.
Accepted(s, e) == (s = IPv6 <=> e = IPv6) /\ ToInt(s) <= ToInt(e)

Init ==
    /\ start \in Words \cup {IPv6} /\ end \in Words \cup {IPv6}
    /\ Accepted(start, end)
    /\ allocated = {}
    /\ ip = 0
    /\ pc = "idle"
    /\ result = NoIP

\* A call of findNextAvailableIP, up to the loop.
Begin ==
    /\ pc = "idle"
    /\ pc' = "scan"
    /\ ip' = ToInt(start)
    /\ UNCHANGED <<pool, result>>

\* Mutant of InLoop: the last address of the range is not looked at.
StopsBeforeEnd == ip < ToInt(end)

\* Mutant of InLoop: the loop has no bound.
NeverStops == TRUE

\* The condition of the loop.
InLoop == ip <= ToInt(end)

\* ipInt++ of a uint32.
Succ(i) == IF i = Top THEN 0 ELSE i + 1

\* Mutant of Skip: the loop passes over every other address.
SkipTwo ==
    /\ pc = "scan" /\ InLoop
    /\ ip \in allocated
    /\ ip' = Succ(Succ(ip))
    /\ UNCHANGED <<pool, pc, result>>

Skip ==
    /\ pc = "scan" /\ InLoop
    /\ ip \in allocated
    /\ ip' = Succ(ip)
    /\ UNCHANGED <<pool, pc, result>>

\* The address is free: it is returned, and AllocateIP appends it.
Take ==
    /\ pc = "scan" /\ InLoop
    /\ ip \notin allocated
    /\ allocated' = allocated \cup {ip}
    /\ result' = ip
    /\ pc' = "idle"
    /\ UNCHANGED <<start, end, ip>>

GiveUp ==
    /\ pc = "scan" /\ ~InLoop
    /\ result' = NoIP
    /\ pc' = "idle"
    /\ UNCHANGED <<pool, ip>>

\* ReleaseIP, between two searches.
Release(a) ==
    /\ pc = "idle"
    /\ allocated' = allocated \ {a}
    /\ UNCHANGED <<start, end, ip, pc, result>>

Next ==
    \/ Begin \/ Skip \/ Take \/ GiveUp
    \/ \E a \in allocated : Release(a)

Spec == Init /\ [][Next]_vars

\* A search that has begun goes on.
FairSpec == Spec /\ WF_vars(Skip \/ Take \/ GiveUp)
-----------------------------------------------------------------------------
(* Properties.  They hold for a range of IPv4 addresses that does not end  *)
(* at the top of the address space.  An IPv6 range hands out 0.0.0.0, and  *)
(* a range that ends at 255.255.255.255 and is full goes on at 0.0.0.0:    *)
(* InLoop holds whatever the counter is.                                   *)

InBounds == end # IPv6 /\ end # Top

Range == start .. end

\* The variables hold values of their types.
TypeOK ==
    /\ start \in Words \cup {IPv6} /\ end \in Words \cup {IPv6}
    /\ Accepted(start, end)
    /\ allocated \in SUBSET Words
    /\ ip \in Words
    /\ pc \in {"idle", "scan"}
    /\ result \in Words \cup {NoIP}

\* "findNextAvailableIP finds the next available IP in the range that's not
\* allocated" (consul.go:357): however the pool was filled and emptied, it
\* holds addresses of its range only.
StaysInRange == InBounds => allocated \subseteq Range

\* A search hands out the lowest free address, and gives up only when every
\* address of the range is taken, the last one included: the search does what
\* LowestFree of Addresses.tla says (consul.go:391).
FindsLowest ==
    [][ InBounds =>
          /\ allocated' \ allocated # {} =>
                \A a \in Range : a < result' => a \in allocated
          /\ GiveUp => Range \subseteq allocated ]_vars

\* A search ends (consul.go:394).
SearchEnds == InBounds /\ pc = "scan" ~> pc = "idle"
-----------------------------------------------------------------------------
(* The inductive invariant of IPSearchProofs.tla.                          *)

\* Whatever the search has passed is taken, and it is not past the end by
\* more than one.
PassedTaken ==
    InBounds /\ pc = "scan" =>
        /\ start <= ip /\ ip <= end + 1
        /\ \A a \in Range : a < ip => a \in allocated

IInv ==
    /\ TypeOK
    /\ StaysInRange
    /\ PassedTaken
=============================================================================
