------------------------------- MODULE IPPool -------------------------------
(***************************************************************************)
(* The IP pool of pkg/agent/consul.go: InitializeIPPool, AllocateIP and    *)
(* ReleaseIP, called concurrently by the goroutines of every agent of the  *)
(* cluster.  The pool is one Consul key.  A call reads it, computes a new  *)
(* value from what it read and writes that back with a compare-and-set on  *)
(* the key's ModifyIndex; a call that loses the race reads again, up to    *)
(* MaxRetries times.  InitializeIPPool writes unconditionally.             *)
(*                                                                         *)
(* The answer of a write may be lost: the call returns an error, and the   *)
(* request it sent is applied then, later, or never.                       *)
(***************************************************************************)
EXTENDS Addresses

CONSTANTS
    Procs,        \* the goroutines that call ConsulManager, of all agents
    Starters,     \* those that are agents booting: they call InitializeIPPool
    MaxRetries,   \* maxRetries, 10 in both loops
    MaxCalls,     \* bound: calls made by one process
    PoolExists,   \* TRUE: the key is in Consul from the beginning
    LatePuts,     \* TRUE: the Put of a boot may arrive after its caller gave up
    OwnersOnly    \* TRUE: only the holder of an address releases it

ASSUME MaxRetriesAssumption == MaxRetries \in Nat \ {0}
ASSUME MaxCallsAssumption == MaxCalls \in Nat
ASSUME FlagsAssumption == {PoolExists, LatePuts, OwnersOnly} \subseteq BOOLEAN
ASSUME StartersAssumption == Starters \subseteq Procs

VARIABLES
    kv,       \* the Consul key: its ModifyIndex and the allocated addresses
    delayed,  \* writes whose caller already got an error; NoKey is the Put of
              \*   a boot, and any other a compare-and-set
    pc,       \* pc[p]: where p is in the call it makes
    target,   \* the address p is releasing
    attempt,  \* the loop counter i of p's call
    snap,     \* what p's last Get returned
    began,    \* history: the ModifyIndex when p's call began
    result,   \* how p's last call returned
    held,     \* the addresses p was given and has not begun to release
    calls     \* number of calls p has begun

vars == <<kv, delayed, pc, target, attempt, snap, began, result, held, calls>>

\* ModifyIndex 0 is a key that does not exist.
Values == [index : Nat, allocated : SUBSET Addrs]
NoKey == [index |-> 0, allocated |-> {}]
Exists(v) == v.index > 0

Control == {"idle", "init_get", "init_put", "alloc_get", "alloc_cas",
            "release_get", "release_cas"}
Results == {"none", "ok", "error", "contention", "full", "missing", "absent"}

Releasing(p) == pc[p] \in {"release_get", "release_cas"}

Init ==
    /\ kv = IF PoolExists THEN [index |-> 1, allocated |-> {}] ELSE NoKey
    /\ delayed = {}
    /\ pc = [p \in Procs |-> "idle"]
    /\ target = [p \in Procs |-> NoIP]
    /\ attempt = [p \in Procs |-> 0]
    /\ snap = [p \in Procs |-> NoKey]
    /\ began = [p \in Procs |-> 0]
    /\ result = [p \in Procs |-> "none"]
    /\ held = [p \in Procs |-> {}]
    /\ calls = [p \in Procs |-> 0]
-----------------------------------------------------------------------------
(* Consul.                                                                 *)

\* PUT of the key: it takes a new ModifyIndex.
Put(S) == kv' = [index |-> kv.index + 1, allocated |-> S]

\* Mutant of Matches: the value is written whatever the key holds.
MatchesAnything(index) == kv.index >= index

\* PUT ?cas=index succeeds iff the key still has that ModifyIndex.
Matches(index) == kv.index = index
-----------------------------------------------------------------------------
(* A call begins and returns.                                              *)

Goto(p, l) == pc' = [pc EXCEPT ![p] = l]

Begin(p, l) ==
    /\ pc[p] = "idle"
    /\ calls[p] < MaxCalls
    /\ calls' = [calls EXCEPT ![p] = @ + 1]
    /\ Goto(p, l)
    /\ began' = [began EXCEPT ![p] = kv.index]
    /\ result' = [result EXCEPT ![p] = "none"]
    /\ UNCHANGED <<kv, delayed, attempt, snap>>

Return(p, r) ==
    /\ Goto(p, "idle")
    /\ result' = [result EXCEPT ![p] = r]
    /\ target' = [target EXCEPT ![p] = NoIP]
    /\ attempt' = [attempt EXCEPT ![p] = 0]
    /\ snap' = [snap EXCEPT ![p] = NoKey]
    /\ UNCHANGED <<began, calls>>

\* A call that returns and leaves Consul and the addresses held alone.
ReturnOnly(p, r) ==
    /\ Return(p, r)
    /\ UNCHANGED <<kv, delayed, held>>

\* The Get at the top of the loop, when the key is there.
ReadPool(p, l) ==
    /\ Goto(p, l)
    /\ snap' = [snap EXCEPT ![p] = kv]
    /\ UNCHANGED <<kv, delayed, target, attempt, began, result, held, calls>>

\* Mutant of Retry: the loop tries the value it has computed again.
RetryWithoutReading(p, l) ==
    IF attempt[p] + 1 < MaxRetries
    THEN /\ attempt' = [attempt EXCEPT ![p] = @ + 1]
         /\ UNCHANGED <<kv, delayed, pc, target, snap, began, result, held, calls>>
    ELSE ReturnOnly(p, "contention")

\* The compare-and-set lost the race: sleep and go round again, or give up.
Retry(p, l) ==
    IF attempt[p] + 1 < MaxRetries
    THEN /\ Goto(p, l)
         /\ attempt' = [attempt EXCEPT ![p] = @ + 1]
         /\ snap' = [snap EXCEPT ![p] = NoKey]
         /\ UNCHANGED <<kv, delayed, target, began, result, held, calls>>
    ELSE ReturnOnly(p, "contention")

\* The answer of p's compare-and-set to S is lost.
Unanswered(p, S) ==
    /\ Return(p, "error")
    /\ delayed' = delayed \cup {[index |-> snap[p].index, allocated |-> S]}
    /\ UNCHANGED <<kv, held>>

\* A Get fails, or finds no key: every call returns an error at once.
GetFails(p) ==
    /\ pc[p] \in {"init_get", "alloc_get", "release_get"}
    /\ ReturnOnly(p, "error")

\* Mutant of GetFindsNoKey: the loop waits until somebody creates the pool.
WaitsForKey(p) ==
    /\ pc[p] \in {"alloc_get", "release_get"}
    /\ ~Exists(kv)
    /\ UNCHANGED vars

GetFindsNoKey(p) ==
    /\ pc[p] \in {"alloc_get", "release_get"}
    /\ ~Exists(kv)
    /\ ReturnOnly(p, "missing")
-----------------------------------------------------------------------------
(* InitializeIPPool, called once by main when an agent boots.  The checks  *)
(* on the configured range fail before anything is written.                *)

InitializeIPPool(p) ==
    /\ p \in Starters
    /\ Begin(p, "init_get")
    /\ UNCHANGED <<target, held>>

\* Mutant of InitGet: an agent that boots always starts with a fresh pool.
InitGetAlwaysFresh(p) ==
    /\ pc[p] = "init_get"
    /\ IF First <= Last THEN ReadPool(p, "init_put") ELSE ReturnOnly(p, "error")

InitGet(p) ==
    /\ pc[p] = "init_get"
    /\ IF Exists(kv)
       THEN ReturnOnly(p, "ok")
       ELSE IF First <= Last THEN ReadPool(p, "init_put")
                             ELSE ReturnOnly(p, "error")

\* An unconditional Put of an empty pool, whatever the key holds by now.
InitPut(p) ==
    /\ pc[p] = "init_put"
    /\ Put({})
    /\ \E r \in {"ok", "error"} : Return(p, r)
    /\ UNCHANGED <<delayed, held>>

InitPutFails(p) ==
    /\ pc[p] = "init_put"
    /\ Return(p, "error")
    /\ UNCHANGED delayed \/ (LatePuts /\ delayed' = delayed \cup {NoKey})
    /\ UNCHANGED <<kv, held>>
-----------------------------------------------------------------------------
(* AllocateIP.                                                             *)

AllocateIP(p) ==
    /\ Begin(p, "alloc_get")
    /\ UNCHANGED <<target, held>>

AllocGet(p) ==
    /\ pc[p] = "alloc_get"
    /\ Exists(kv)
    /\ IF Free(kv.allocated) = {} THEN ReturnOnly(p, "full")
                                  ELSE ReadPool(p, "alloc_cas")

NextIP(p) == LowestFree(snap[p].allocated)

\* Mutant of AllocValue: the value is marshalled before the append.
AllocValueForgets(p) == snap[p].allocated

AllocValue(p) == snap[p].allocated \cup {NextIP(p)}

AllocCAS(p) ==
    /\ pc[p] = "alloc_cas"
    /\ IF Matches(snap[p].index)
       THEN /\ Put(AllocValue(p))
            /\ held' = [held EXCEPT ![p] = @ \cup {NextIP(p)}]
            /\ Return(p, "ok")
            /\ UNCHANGED delayed
       ELSE Retry(p, "alloc_get")

AllocUnanswered(p) ==
    /\ pc[p] = "alloc_cas"
    /\ Unanswered(p, AllocValue(p))
-----------------------------------------------------------------------------
(* ReleaseIP.  Its callers have stopped using the address before the call  *)
(* and ignore its error, so p gives the address up when the call begins.   *)

ReleaseIP(p, a) ==
    /\ OwnersOnly => a \in held[p]
    /\ Begin(p, "release_get")
    /\ target' = [target EXCEPT ![p] = a]
    /\ held' = [held EXCEPT ![p] = @ \ {a}]

ReleaseGet(p) ==
    /\ pc[p] = "release_get"
    /\ Exists(kv)
    /\ IF target[p] \in kv.allocated THEN ReadPool(p, "release_cas")
                                     ELSE ReturnOnly(p, "absent")

ReleaseValue(p) == snap[p].allocated \ {target[p]}

ReleaseCAS(p) ==
    /\ pc[p] = "release_cas"
    /\ IF Matches(snap[p].index)
       THEN /\ Put(ReleaseValue(p))
            /\ Return(p, "ok")
            /\ UNCHANGED <<delayed, held>>
       ELSE Retry(p, "release_get")

ReleaseUnanswered(p) ==
    /\ pc[p] = "release_cas"
    /\ Unanswered(p, ReleaseValue(p))
-----------------------------------------------------------------------------
(* The environment.                                                        *)

\* A request whose caller is gone reaches Consul after all.  The Put of a boot
\* has no condition.
Deliver(w) ==
    /\ w \in delayed
    /\ delayed' = delayed \ {w}
    /\ IF w = NoKey \/ Matches(w.index) THEN Put(w.allocated) ELSE UNCHANGED kv
    /\ UNCHANGED <<pc, target, attempt, snap, began, result, held, calls>>

\* p's agent dies between two requests: the call is never finished and what
\* p held in memory is forgotten.  (A request in flight is Unanswered.)
Crash(p) ==
    /\ pc[p] # "idle" \/ held[p] # {}
    /\ Return(p, "none")
    /\ held' = [held EXCEPT ![p] = {}]
    /\ UNCHANGED <<kv, delayed>>

\* The steps p takes by itself once it is in a call, its requests answered.
Step(p) ==
    \/ GetFindsNoKey(p)
    \/ InitGet(p) \/ InitPut(p)
    \/ AllocGet(p) \/ AllocCAS(p)
    \/ ReleaseGet(p) \/ ReleaseCAS(p)

\* A request of p fails or its answer is lost.
Fault(p) ==
    \/ GetFails(p)
    \/ InitPutFails(p)
    \/ AllocUnanswered(p)
    \/ ReleaseUnanswered(p)

Call(p) ==
    \/ InitializeIPPool(p)
    \/ AllocateIP(p)
    \/ \E a \in Addrs : ReleaseIP(p, a)

Next ==
    \/ \E p \in Procs : Call(p) \/ Step(p) \/ Fault(p) \/ Crash(p)
    \/ \E w \in delayed : Deliver(w)

Spec == Init /\ [][Next]_vars

\* A goroutine inside a call is scheduled again and its requests return.  No
\* process has to make a call, no request has to fail, and a delayed request
\* may never arrive.
FairSpec == Spec /\ \A p \in Procs : WF_vars(Step(p))
-----------------------------------------------------------------------------
(* Properties.                                                             *)

\* The variables hold values of their types, and a call in the middle of its
\* loop has the loop counter in range.
TypeOK ==
    /\ kv \in Values
    /\ delayed \subseteq Values
    /\ pc \in [Procs -> Control]
    /\ target \in [Procs -> Addrs \cup {NoIP}]
    /\ attempt \in [Procs -> 0 .. MaxRetries - 1]
    /\ snap \in [Procs -> Values]
    /\ began \in [Procs -> Nat]
    /\ result \in [Procs -> Results]
    /\ held \in [Procs -> SUBSET Addrs]
    /\ calls \in [Procs -> Nat]

\* The pool is there before the first agent boots, or a single agent ever
\* boots into an empty Consul and its Put does not arrive after it gave up (and
\* was started again).
SequentialBoot ==
    PoolExists \/ (~LatePuts /\ \A p, q \in Starters : p = q)

\* The addresses p has not finished giving back.
Owned(p) == held[p] \cup {a \in {target[p]} : Releasing(p)}

\* No address is held by two callers at once, and the pool counts every held
\* address as allocated, whatever compare-and-sets fail, get lost or arrive
\* late ("AllocateIP atomically allocates an IP address", consul.go:140).
Exclusive ==
    \A p \in Procs :
        /\ held[p] \subseteq kv.allocated
        /\ \A q \in Procs \ {p} : held[p] \cap held[q] = {}

\* "Too much contention" (consul.go:197) is said only of a call that was
\* overtaken by MaxRetries writes of others: a retry never loses to itself
\* or to a value it has already seen.
ContentionGenuine ==
    \A p \in Procs :
        result[p] = "contention" => kv.index >= began[p] + MaxRetries

\* Every call on the pool returns: the loops of AllocateIP and ReleaseIP end
\* however the other callers interfere.
CallsReturn == \A p \in Procs : pc[p] # "idle" ~> pc[p] = "idle"

\* The pool as its callers see it: each call takes effect in one step.
Abs == INSTANCE AddressPool WITH leased <- kv.allocated

\* The loops over Consul implement the abstract pool of AddressPool.tla: no
\* update is lost and no address is allocated that was not free.
ImplementsAddressPool == Abs!Spec

\* "InitializeIPPool initializes the IP pool in Consul if it doesn't exist"
\* (consul.go:51): its write leaves the allocations of an existing pool.
InitKeepsExistingPool ==
    [][\A p \in Procs : InitPut(p) /\ Exists(kv)
            => kv'.allocated = kv.allocated]_vars
-----------------------------------------------------------------------------
(* The inductive invariant of IPPoolProofs.tla.                            *)

\* What p read is still what the key holds, if the index has not moved, and
\* it lets p's call write.
ReadsVersioned ==
    \A p \in Procs : pc[p] \in {"alloc_cas", "release_cas"} =>
        /\ Exists(snap[p])
        /\ snap[p].index <= kv.index
        /\ Matches(snap[p].index) => snap[p] = kv
        /\ pc[p] = "alloc_cas" => Free(snap[p].allocated) # {}
        /\ pc[p] = "release_cas" => target[p] \in snap[p].allocated

\* What a delayed write may do to the pool: take one free address, or give
\* back one allocated address that nobody owns.
SafeValue(S) ==
    \/ /\ Free(kv.allocated) # {}
       /\ S = kv.allocated \cup {LowestFree(kv.allocated)}
    \/ \E a \in kv.allocated :
           /\ S = kv.allocated \ {a}
           /\ OwnersOnly => \A p \in Procs : a \notin Owned(p)

\* A delayed write that can still succeed does one of these.
DelayedSafe ==
    \A w \in delayed :
        /\ Exists(w)
        /\ w.index <= kv.index
        /\ Matches(w.index) => SafeValue(w.allocated)

\* Owned addresses are allocated, have one owner, and a call that releases
\* one has given it up.
OwnedApart ==
    OwnersOnly => \A p \in Procs :
        /\ Owned(p) \subseteq kv.allocated
        /\ Releasing(p) => target[p] \in Addrs \ held[p]
        /\ \A q \in Procs \ {p} : Owned(p) \cap Owned(q) = {}

\* A release knows its address.
TargetsKnown == \A p \in Procs : Releasing(p) => target[p] \in Addrs

\* Nobody writes an empty pool over an existing one.
BootOnce ==
    /\ PoolExists => Exists(kv)
    /\ ~Exists(kv) => kv.allocated = {}
    /\ \A p \in Procs :
          /\ pc[p] \in {"init_get", "init_put"} => p \in Starters
          /\ pc[p] = "init_put" => ~Exists(kv)

\* Each round of a call's loop was lost to a write made during the call.
RoundsLost ==
    \A p \in Procs :
        /\ pc[p] \in {"idle", "init_get", "init_put"} => attempt[p] = 0
        /\ pc[p] \in {"alloc_get", "release_get"} =>
              kv.index >= began[p] + attempt[p]
        /\ pc[p] \in {"alloc_cas", "release_cas"} =>
              snap[p].index >= began[p] + attempt[p]

IInv ==
    /\ TypeOK
    /\ BootOnce
    /\ ReadsVersioned
    /\ TargetsKnown
    /\ OwnedApart
    /\ DelayedSafe
    /\ RoundsLost
    /\ ContentionGenuine
=============================================================================
