----------------------------- MODULE Allocation -----------------------------
(***************************************************************************)
(* The request handlers of the agent, pkg/agent/agent.go: handleAllocate   *)
(* (the CNI ADD of an allocation) and handleDeallocate (its DEL), over the *)
(* state they share: the IP pool and the allocation records in Consul, the *)
(* instances NebulaManager remembers, and the systemd units that run.      *)
(*                                                                         *)
(* Every request has its own goroutine and nothing serialises two requests *)
(* for one allocation: a client gives up after 30 seconds while its        *)
(* handler goes on (pkg/client/client.go:18), and Nomad repeats an ADD     *)
(* that failed and sends the DEL when the task is over.  A handler makes   *)
(* one call after another on the shared state, and each call is one step   *)
(* here.  (That AllocateIP and ReleaseIP may be taken as single steps is   *)
(* what IPPool.tla shows.)                                                 *)
(***************************************************************************)
EXTENDS Addresses

CONSTANTS
    Allocs,      \* the Nomad allocations
    AddReqs,     \* bound: the ADD requests that may arrive, and for DEL;
    DelReqs,     \*   an ADD repeated by Nomad is one more request
    AllocOf,     \* AllocOf[r]: the alloc_id of request r
    Faults       \* the calls that may fail, a subset of FaultKinds

FaultKinds == {
    "metadata",       \* the Nomad API does not answer
    "lookup",         \* GetAllocationRecord fails
    "allocate",       \* AllocateIP fails; an address may be lost in the pool
    "sign",           \* GetCACertificate or SignCertificate fails
    "start",          \* StartInstance fails after it has looked at the map
    "start_applied",  \* it fails although systemd has started the unit
    "store",          \* StoreAllocationRecord fails and nothing is stored
    "store_applied",  \* it fails although the record is stored
    "stop_unit",      \* StopInstance cannot stop the unit and forgets it
    "release",        \* ReleaseIP fails and the address stays allocated
    "delete" }        \* DeleteAllocationRecord fails, applied or not

ASSUME RequestsAssumption == AllocOf \in [AddReqs \cup DelReqs -> Allocs]
ASSUME FaultsAssumption == Faults \subseteq FaultKinds

VARIABLES
    pool,        \* the addresses the pool counts as allocated
    records,     \* records[a]: the IP in a's allocation record, or NoIP
    instances,   \* the allocations in NebulaManager.instances
    units,       \* units[a]: the IP in the certificate of a's unit, or NoIP;
                 \*   a unit that was told to stop counts as stopped
    nomad,       \* nomad[a]: what Nomad knows of the allocation
    addPc,       \* addPc[r]: where the handler of ADD request r is
    addIP,       \* addIP[r]: the address it has from AllocateIP
    delPc,       \* delPc[d]: where the handler of DEL request d is
    delIP        \* delIP[d]: the IP in the record it has read

shared == <<pool, records, instances, units>>
adds == <<addPc, addIP>>
dels == <<delPc, delIP>>
vars == <<shared, nomad, adds, dels>>

IPOrNone == Addrs \cup {NoIP}

AddControl == {"idle", "check", "allocate", "sign", "start", "store",
               "undo_stop", "undo_release", "ok", "failed"}
DelControl == {"idle", "stop", "release", "delete", "ok", "failed"}

Init ==
    /\ pool = {}
    /\ records = [a \in Allocs |-> NoIP]
    /\ instances = {}
    /\ units = [a \in Allocs |-> NoIP]
    /\ nomad = [a \in Allocs |-> "running"]
    /\ addPc = [r \in AddReqs |-> "idle"]
    /\ addIP = [r \in AddReqs |-> NoIP]
    /\ delPc = [d \in DelReqs |-> "idle"]
    /\ delIP = [d \in DelReqs |-> NoIP]
-----------------------------------------------------------------------------
(* The calls the handlers make.                                            *)

MayFail(f) == f \in Faults

\* ReleaseIP: it does nothing when the address is not allocated.
ReleaseIP(ip) ==
    \/ pool' = pool \ {ip}
    \/ MayFail("release") /\ UNCHANGED pool

StoreAllocationRecord(a, ip) == records' = [records EXCEPT ![a] = ip]
DeleteAllocationRecord(a) == records' = [records EXCEPT ![a] = NoIP]

\* Mutant of StartInstance: the map is not looked at.
StartInstanceAgain(a, ip) ==
    /\ instances' = instances \cup {a}
    /\ units' = [units EXCEPT ![a] = ip]

\* StartInstance(a, ip) that creates the unit.
StartInstance(a, ip) ==
    /\ a \notin instances
    /\ instances' = instances \cup {a}
    /\ units' = [units EXCEPT ![a] = ip]

\* StartInstance(a, ip) that fails: the map is checked first, then an existing
\* unit of that name may be stopped before the failure, and the new one may run
\* in spite of it.
StartInstanceFails(a, ip) ==
    /\ UNCHANGED instances
    /\ \/ a \in instances /\ UNCHANGED units
       \/ /\ a \notin instances /\ MayFail("start")
          /\ UNCHANGED units \/ units' = [units EXCEPT ![a] = NoIP]
       \/ /\ a \notin instances /\ MayFail("start_applied")
          /\ units' = [units EXCEPT ![a] = ip]

\* StopInstance, whose error every caller ignores: it does nothing for an
\* allocation that is not in the map, and a unit that systemd would not stop
\* is forgotten all the same.  (An instance in the map was started over the
\* connection to systemd that is cached, so getSystemdConnection succeeds.)
StopInstance(a) ==
    \/ /\ a \in instances
       /\ instances' = instances \ {a}
       /\ \/ units' = [units EXCEPT ![a] = NoIP]
          \/ MayFail("stop_unit") /\ UNCHANGED units
    \/ a \notin instances /\ UNCHANGED <<instances, units>>

AddGoto(r, l) == addPc' = [addPc EXCEPT ![r] = l]
DelGoto(d, l) == delPc' = [delPc EXCEPT ![d] = l]
-----------------------------------------------------------------------------
(* handleAllocate.                                                         *)

\* The request arrives and GetTaskMetadata answers.
AddMetadata(r) ==
    /\ addPc[r] = "idle"
    /\ nomad[AllocOf[r]] = "running"
    /\ AddGoto(r, "check") \/ (MayFail("metadata") /\ AddGoto(r, "failed"))
    /\ UNCHANGED <<shared, nomad, addIP, dels>>

\* An allocation that has a record is refused with a conflict.
AddCheck(r) ==
    /\ addPc[r] = "check"
    /\ IF records[AllocOf[r]] = NoIP
       THEN AddGoto(r, "allocate") \/ (MayFail("lookup") /\ AddGoto(r, "failed"))
       ELSE AddGoto(r, "failed")
    /\ UNCHANGED <<shared, nomad, addIP, dels>>

AddAllocate(r) ==
    /\ addPc[r] = "allocate"
    /\ Free(pool) # {}
    /\ pool' = pool \cup {LowestFree(pool)}
    /\ addIP' = [addIP EXCEPT ![r] = LowestFree(pool)]
    /\ AddGoto(r, "sign")
    /\ UNCHANGED <<records, instances, units, nomad, dels>>

AddAllocateFails(r) ==
    /\ addPc[r] = "allocate"
    /\ \/ (Free(pool) = {} \/ MayFail("allocate")) /\ UNCHANGED pool
       \/ /\ MayFail("allocate") /\ Free(pool) # {}
          /\ pool' = pool \cup {LowestFree(pool)}
    /\ AddGoto(r, "failed")
    /\ UNCHANGED <<records, instances, units, nomad, addIP, dels>>

\* Mutant of AddSign: the address is forgotten when signing fails.
AddSignForgets(r) ==
    /\ addPc[r] = "sign"
    /\ AddGoto(r, "start") \/ (MayFail("sign") /\ AddGoto(r, "failed"))
    /\ UNCHANGED <<shared, nomad, addIP, dels>>

AddSign(r) ==
    /\ addPc[r] = "sign"
    /\ AddGoto(r, "start") \/ (MayFail("sign") /\ AddGoto(r, "undo_release"))
    /\ UNCHANGED <<shared, nomad, addIP, dels>>

AddStart(r) ==
    /\ addPc[r] = "start"
    /\ \/ StartInstance(AllocOf[r], addIP[r]) /\ AddGoto(r, "store")
       \/ StartInstanceFails(AllocOf[r], addIP[r]) /\ AddGoto(r, "undo_release")
    /\ UNCHANGED <<pool, records, nomad, addIP, dels>>

\* Mutant of AddStore: the deferred roll-back runs after a success, too.
AddStoreReleases(r) ==
    /\ addPc[r] = "store"
    /\ StoreAllocationRecord(AllocOf[r], addIP[r])
    /\ ReleaseIP(addIP[r])
    /\ AddGoto(r, "ok")
    /\ UNCHANGED <<instances, units, nomad, addIP, dels>>

\* The record is written whatever the key holds by now.
AddStore(r) ==
    /\ addPc[r] = "store"
    /\ StoreAllocationRecord(AllocOf[r], addIP[r])
    /\ AddGoto(r, "ok")
    /\ UNCHANGED <<pool, instances, units, nomad, addIP, dels>>

\* Mutant of AddStoreFails: the unit is left running.
AddStoreFailsLeavesUnit(r) ==
    /\ addPc[r] = "store"
    /\ MayFail("store")
    /\ AddGoto(r, "undo_release")
    /\ UNCHANGED <<shared, nomad, addIP, dels>>

AddStoreFails(r) ==
    /\ addPc[r] = "store"
    /\ \/ MayFail("store") /\ UNCHANGED records
       \/ MayFail("store_applied") /\ StoreAllocationRecord(AllocOf[r], addIP[r])
    /\ AddGoto(r, "undo_stop")
    /\ UNCHANGED <<pool, instances, units, nomad, addIP, dels>>

AddUndoStop(r) ==
    /\ addPc[r] = "undo_stop"
    /\ StopInstance(AllocOf[r])
    /\ AddGoto(r, "undo_release")
    /\ UNCHANGED <<pool, records, nomad, addIP, dels>>

AddUndoRelease(r) ==
    /\ addPc[r] = "undo_release"
    /\ ReleaseIP(addIP[r])
    /\ addIP' = [addIP EXCEPT ![r] = NoIP]
    /\ AddGoto(r, "failed")
    /\ UNCHANGED <<records, instances, units, nomad, dels>>
-----------------------------------------------------------------------------
(* handleDeallocate.                                                       *)

\* The request arrives and the record is read; without one, all is well.
DelLookup(d) ==
    /\ delPc[d] = "idle"
    /\ nomad[AllocOf[d]] # "running"
    /\ \/ /\ records[AllocOf[d]] = NoIP
          /\ DelGoto(d, "ok")
          /\ UNCHANGED delIP
       \/ /\ records[AllocOf[d]] # NoIP
          /\ delIP' = [delIP EXCEPT ![d] = records[AllocOf[d]]]
          /\ DelGoto(d, "stop")
       \/ MayFail("lookup") /\ DelGoto(d, "failed") /\ UNCHANGED delIP
    /\ UNCHANGED <<shared, nomad, adds>>

DelStop(d) ==
    /\ delPc[d] = "stop"
    /\ StopInstance(AllocOf[d])
    /\ DelGoto(d, "release")
    /\ UNCHANGED <<pool, records, nomad, adds, delIP>>

DelRelease(d) ==
    /\ delPc[d] = "release"
    /\ ReleaseIP(delIP[d])
    /\ DelGoto(d, "delete")
    /\ UNCHANGED <<records, instances, units, nomad, adds, delIP>>

\* Whatever record the allocation has by now is deleted.
DelDelete(d) ==
    /\ delPc[d] = "delete"
    /\ \/ /\ DeleteAllocationRecord(AllocOf[d])
          /\ DelGoto(d, "ok") \/ (MayFail("delete") /\ DelGoto(d, "failed"))
       \/ /\ MayFail("delete")
          /\ DelGoto(d, "failed")
          /\ UNCHANGED records
    /\ delIP' = [delIP EXCEPT ![d] = NoIP]
    /\ UNCHANGED <<pool, instances, units, nomad, adds>>
-----------------------------------------------------------------------------
(* Nomad.                                                                  *)

TaskStops(a) ==
    /\ nomad[a] = "running"
    /\ nomad' = [nomad EXCEPT ![a] = "complete"]
    /\ UNCHANGED <<shared, adds, dels>>

\* The allocation is garbage-collected.
TaskForgotten(a) ==
    /\ nomad[a] = "complete"
    /\ nomad' = [nomad EXCEPT ![a] = "gone"]
    /\ UNCHANGED <<shared, adds, dels>>

Add(r) ==
    \/ AddMetadata(r) \/ AddCheck(r)
    \/ AddAllocate(r) \/ AddAllocateFails(r)
    \/ AddSign(r) \/ AddStart(r)
    \/ AddStore(r) \/ AddStoreFails(r)
    \/ AddUndoStop(r) \/ AddUndoRelease(r)

Del(d) == DelLookup(d) \/ DelStop(d) \/ DelRelease(d) \/ DelDelete(d)

Next ==
    \/ \E r \in AddReqs : Add(r)
    \/ \E d \in DelReqs : Del(d)
    \/ \E a \in Allocs : TaskStops(a) \/ TaskForgotten(a)

Spec == Init /\ [][Next]_vars
-----------------------------------------------------------------------------
(* Properties.                                                             *)

\* The variables hold values of their types.
TypeOK ==
    /\ pool \subseteq Addrs
    /\ records \in [Allocs -> IPOrNone]
    /\ instances \subseteq Allocs
    /\ units \in [Allocs -> IPOrNone]
    /\ nomad \in [Allocs -> {"running", "complete", "gone"}]
    /\ addPc \in [AddReqs -> AddControl]
    /\ addIP \in [AddReqs -> IPOrNone]
    /\ delPc \in [DelReqs -> DelControl]
    /\ delIP \in [DelReqs -> IPOrNone]

\* The handler of ADD r has an address it has neither passed on to a record
\* nor given back.
InHand(r) == addPc[r] \in {"sign", "start", "store", "undo_stop", "undo_release"}

\* The handler of DEL d is about to give back the address it has read.
GivingBack(d) == delPc[d] \in {"stop", "release"}

\* Two running Nebula units never have certificates for the same address,
\* and the pool does not hand out the address of a running unit: the order of
\* the calls in the handlers, StopInstance before ReleaseIP on every path.
ExclusiveIP ==
    \A a \in Allocs : units[a] # NoIP =>
        /\ units[a] \in pool
        /\ \A b \in Allocs \ {a} : units[b] # units[a]

\* While the task runs, an ADD that was answered with success stays backed by
\* a record, a unit and an allocated address, all the same, however many more
\* ADDs for that allocation come, overlap and are rolled back.
SuccessBacked ==
    \A r \in AddReqs :
        LET a == AllocOf[r] IN
        addPc[r] = "ok" /\ nomad[a] = "running" =>
            /\ addIP[r] # NoIP /\ addIP[r] \in pool
            /\ records[a] = addIP[r]
            /\ units[a] = addIP[r]
            /\ a \in instances

\* Every allocated address is in a record or in the hands of a handler that
\* will record it or give it back: no path of the two handlers leaks one.
NoLeak ==
    \A ip \in pool :
        \/ \E r \in AddReqs : InHand(r) /\ addIP[r] = ip
        \/ \E a \in Allocs : records[a] = ip
        \/ \E d \in DelReqs : GivingBack(d) /\ delIP[d] = ip

\* The handler of ADD r relies on its address, and after it the task that was
\* answered with success.
Relies(r) ==
    \/ addPc[r] \in {"sign", "start", "store", "undo_stop"}
    \/ addPc[r] = "ok" /\ nomad[AllocOf[r]] = "running"

Relied(a) == {addIP[r] : r \in {s \in AddReqs : AllocOf[s] = a /\ Relies(s)}}

Pool == INSTANCE AddressPool WITH
    leased <- pool, held <- [a \in Allocs |-> Relied(a)],
    Procs <- Allocs, OwnersOnly <- TRUE

\* The handlers are callers as IPPool.tla assumes them: a call takes the lowest
\* free address, and none is given back that a handler or a running task
\* still relies on.
UsesAddressPool == Pool!Spec
-----------------------------------------------------------------------------
(* The inductive invariant of AllocationProofs.tla.                        *)

\* systemd obeys, a failed call has started or stored nothing, and an
\* allocation gets one DEL.  Without any one of these an address is released
\* under a live unit.
QuietFaults ==
    Faults \cap {"stop_unit", "start_applied", "store_applied"} = {}
OneDel ==
    \A d, e \in DelReqs : AllocOf[d] = AllocOf[e] => d = e

\* DELs come when the task is over.
DelsWait ==
    \A d \in DelReqs : nomad[AllocOf[d]] = "running" => delPc[d] = "idle"

\* Somebody may still act on a's record.
RecordLive(a) ==
    \/ nomad[a] = "running"
    \/ \E d \in DelReqs : AllocOf[d] = a /\ delPc[d] = "idle"

\* Allocation a has a claim on the address.
Claims(a, ip) ==
    \/ \E r \in AddReqs : AllocOf[r] = a /\ InHand(r) /\ addIP[r] = ip
    \/ \E d \in DelReqs : AllocOf[d] = a /\ GivingBack(d) /\ delIP[d] = ip
    \/ units[a] = ip
    \/ RecordLive(a) /\ records[a] = ip

\* Every claimed address is allocated, to one allocation.
ClaimsApart ==
    \A a \in Allocs, ip \in Addrs : Claims(a, ip) =>
        /\ ip \in pool
        /\ \A b \in Allocs \ {a} : ~Claims(b, ip)

\* NebulaManager's map and the units agree.
UnitsTracked ==
    \A a \in Allocs : units[a] # NoIP <=> a \in instances

\* An address in hand belongs to no other request, not even of the same
\* allocation, to no live record and, but for the unit of the request itself,
\* to no unit.
HandsApart ==
    \A r \in AddReqs : InHand(r) =>
        /\ addIP[r] \in Addrs
        /\ \A s \in AddReqs \ {r} : InHand(s) => addIP[s] # addIP[r]
        /\ RecordLive(AllocOf[r]) => records[AllocOf[r]] # addIP[r]
        /\ addPc[r] \in {"sign", "start", "undo_release"} =>
              units[AllocOf[r]] # addIP[r]

\* The address a DEL is about to give back is in no hand, and once its unit
\* is stopped in no unit.
GivingBackApart ==
    \A d \in DelReqs : GivingBack(d) =>
        /\ delIP[d] \in Addrs
        /\ \A r \in AddReqs :
              InHand(r) /\ AllocOf[r] = AllocOf[d] => addIP[r] # delIP[d]
        /\ delPc[d] = "release" => units[AllocOf[d]] # delIP[d]

\* Until the task stops, the unit is that of the request that started it.
StarterOwnsUnit ==
    \A r \in AddReqs :
        addPc[r] \in {"store", "undo_stop"} /\ nomad[AllocOf[r]] = "running"
            => units[AllocOf[r]] = addIP[r]

IInv ==
    /\ TypeOK
    /\ DelsWait
    /\ ClaimsApart
    /\ UnitsTracked
    /\ HandsApart
    /\ GivingBackApart
    /\ StarterOwnsUnit
    /\ SuccessBacked
=============================================================================
