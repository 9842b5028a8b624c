------------------------------ MODULE Cluster ------------------------------
(***************************************************************************)
(* The agents of a cluster: Start, Stop, cleanupStaleAllocations and       *)
(* restartLocalInstances of pkg/agent/agent.go, StopAll and                *)
(* StopOrphanedUnits of pkg/agent/nebula.go, and agents that die.          *)
(*                                                                         *)
(* Every agent cleans up when it starts and every hour after that, beside  *)
(* its own request handlers (Allocation.tla) and all other agents.  A      *)
(* cleanup pass works from lists it has read earlier: the records, then    *)
(* the pool, then the units.                                               *)
(***************************************************************************)
EXTENDS Allocation

CONSTANTS
    Nodes,
    NodeOf,        \* NodeOf[a]: the node Nomad has placed allocation a on
    CleanerFaults, \* the calls of the background work that may fail
    MaxDowns       \* bound: agents that stop or die, in all

CleanerFaultKinds == {
    "list",        \* GetAllAllocations or getLocalNodeID fails
    "nomad",       \* the Nomad API does not answer
    "pending",     \* Nomad does not report a task it has started as running
    "release",     \* ReleaseIP fails
    "delete",      \* DeleteAllocationRecord fails and deletes nothing
    "pool",        \* GetIPPool fails
    "units" }      \* systemd does not list, or does not stop, a unit

ASSUME NodesAssumption == NodeOf \in [Allocs -> Nodes]
ASSUME CleanerFaultsAssumption == CleanerFaults \subseteq CleanerFaultKinds
ASSUME MaxDownsAssumption == MaxDowns \in Nat

VARIABLES
    agent,   \* agent[n]: the agent process of node n
    clean,   \* clean[n]: its cleanup pass, or its restart of instances
    closing, \* closing[n]: the instances StopAll has yet to stop
    downs    \* how often an agent has stopped or died

cluster == <<agent, clean, closing, downs>>
clusterVars == <<vars, cluster>>

Here(n) == {a \in Allocs : NodeOf[a] = n}
CleanerMayFail(f) == f \in CleanerFaults

\* The control states of a cleanup pass and of restartLocalInstances.
CleanControl == {"list", "check", "stop", "release", "delete", "orphans",
                 "units", "forget"}
RestartControl == {"restart_list", "restart_filter", "restart", "restart_start"}

\* No pass is under way, and the agent listens.
Off == [pc |-> "off",
        boot |-> FALSE,                    \* the agent is still in Start
        recs |-> [a \in Allocs |-> NoIP],  \* the records it has listed
        todo |-> {},                       \* records, then units, to look at
        cur |-> {},                        \* the allocation it is busy with
        cleaned |-> {},                    \* cleanedAllocIDs
        orphans |-> {}]                    \* the addresses yet to reclaim

ClusterInit ==
    /\ Init
    /\ agent = [n \in Nodes |-> "up"]
    /\ clean = [n \in Nodes |-> Off]
    /\ closing = [n \in Nodes |-> {}]
    /\ downs = 0

\* The agent of n listens on its socket.
Serving(n) == agent[n] # "down" /\ ~clean[n].boot

\* A handler is at work on request r.
InFlight(pc, r) == pc[r] \notin {"idle", "ok", "failed"}

CleanBecomes(n, pass) == clean' = [clean EXCEPT ![n] = pass]
CleanGoto(n, l) == CleanBecomes(n, [clean[n] EXCEPT !.pc = l])
-----------------------------------------------------------------------------
(* cleanupStaleAllocations.                                                *)

\* The pass is over; the first one of an agent is followed by the restart of
\* the instances.
CleanEnds(n) ==
    CleanBecomes(n, IF clean[n].boot
                    THEN [Off EXCEPT !.boot = TRUE, !.pc = "restart_list"]
                    ELSE Off)

\* The hourly tick.
CleanBegins(n) ==
    /\ Serving(n)
    /\ clean[n].pc = "off"
    /\ CleanGoto(n, "list")
    /\ UNCHANGED <<vars, agent, closing, downs>>

CleanList(n) ==
    /\ clean[n].pc = "list"
    /\ \/ CleanBecomes(n, [clean[n] EXCEPT !.pc = "check", !.recs = records,
                               !.todo = {a \in Allocs : records[a] # NoIP}])
       \/ CleanerMayFail("list") /\ CleanEnds(n)
    /\ UNCHANGED <<vars, agent, closing, downs>>

\* Whatever error Nomad returns for a record makes it dangling.
CleanCheck(n) ==
    /\ clean[n].pc = "check"
    /\ \E a \in clean[n].todo :
          \/ /\ nomad[a] = "gone" \/ CleanerMayFail("nomad")
             /\ CleanBecomes(n, [clean[n] EXCEPT !.pc = "stop", !.cur = {a}])
          \/ /\ nomad[a] # "gone"
             /\ CleanBecomes(n, [clean[n] EXCEPT !.todo = @ \ {a}])
    /\ UNCHANGED <<vars, agent, closing, downs>>

\* n's NebulaManager knows the instances of n only.
CleanStop(n) ==
    /\ clean[n].pc = "stop"
    /\ \E a \in clean[n].cur :
          IF NodeOf[a] = n THEN StopInstance(a) ELSE UNCHANGED <<instances, units>>
    /\ CleanGoto(n, "release")
    /\ UNCHANGED <<pool, records, nomad, adds, dels, agent, closing, downs>>

CleanReleaseIP(ip) ==
    \/ pool' = pool \ {ip}
    \/ CleanerMayFail("release") /\ UNCHANGED pool

CleanRelease(n) ==
    /\ clean[n].pc = "release"
    /\ \E a \in clean[n].cur : CleanReleaseIP(clean[n].recs[a])
    /\ CleanGoto(n, "delete")
    /\ UNCHANGED <<records, instances, units, nomad, adds, dels, agent, closing, downs>>

CleanDelete(n) ==
    /\ clean[n].pc = "delete"
    /\ \E a \in clean[n].cur :
          \/ DeleteAllocationRecord(a)
          \/ CleanerMayFail("delete") /\ UNCHANGED records
    /\ CleanBecomes(n, [clean[n] EXCEPT !.pc = "check", !.cur = {},
          !.todo = @ \ clean[n].cur, !.cleaned = @ \cup clean[n].cur])
    /\ UNCHANGED <<pool, instances, units, nomad, adds, dels, agent, closing, downs>>

\* Mutant of CleanReadPool: recordIPs is filled for dangling records only.
CleanReadPoolDanglingOnly(n) ==
    /\ clean[n].pc = "check"
    /\ clean[n].todo = {}
    /\ CleanBecomes(n, [clean[n] EXCEPT !.pc = "orphans",
          !.orphans = pool \ {clean[n].recs[a] : a \in clean[n].cleaned}])
    /\ UNCHANGED <<vars, agent, closing, downs>>

\* The records are done; the pool is read and compared with that list.
CleanReadPool(n) ==
    /\ clean[n].pc = "check"
    /\ clean[n].todo = {}
    /\ \/ CleanBecomes(n, [clean[n] EXCEPT !.pc = "orphans",
             !.orphans = pool \ {clean[n].recs[a] : a \in Allocs}])
       \/ CleanerMayFail("pool") /\ CleanEnds(n)
    /\ UNCHANGED <<vars, agent, closing, downs>>

CleanOrphan(n) ==
    /\ clean[n].pc = "orphans"
    /\ \E ip \in clean[n].orphans :
          /\ CleanReleaseIP(ip)
          /\ CleanBecomes(n, [clean[n] EXCEPT !.orphans = @ \ {ip}])
    /\ UNCHANGED <<records, instances, units, nomad, adds, dels, agent, closing, downs>>

\* Mutant of CleanListUnits: NebulaManager's map is asked instead of systemd.
CleanListInstances(n) ==
    /\ clean[n].pc = "orphans"
    /\ clean[n].orphans = {}
    /\ CleanBecomes(n, [clean[n] EXCEPT !.pc = "units",
          !.todo = {a \in Here(n) \cap instances :
                       clean[n].recs[a] = NoIP \/ a \in clean[n].cleaned}])
    /\ UNCHANGED <<vars, agent, closing, downs>>

\* StopOrphanedUnits: the units that run on n and are not in the list of
\* records, or were cleaned away.
CleanListUnits(n) ==
    /\ clean[n].pc = "orphans"
    /\ clean[n].orphans = {}
    /\ \/ CleanBecomes(n, [clean[n] EXCEPT !.pc = "units",
             !.todo = {a \in Here(n) : /\ units[a] # NoIP
                                       /\ \/ clean[n].recs[a] = NoIP
                                          \/ a \in clean[n].cleaned}])
       \/ CleanerMayFail("units") /\ CleanEnds(n)
    /\ UNCHANGED <<vars, agent, closing, downs>>

CleanStopUnit(n) ==
    /\ clean[n].pc = "units"
    /\ \E a \in clean[n].todo :
          \/ /\ units' = [units EXCEPT ![a] = NoIP]
             /\ CleanBecomes(n, [clean[n] EXCEPT !.pc = "forget", !.cur = {a}])
          \/ /\ CleanerMayFail("units")
             /\ CleanBecomes(n, [clean[n] EXCEPT !.todo = @ \ {a}])
             /\ UNCHANGED units
    /\ UNCHANGED <<pool, records, instances, nomad, adds, dels, agent, closing, downs>>

CleanForget(n) ==
    /\ clean[n].pc = "forget"
    /\ instances' = instances \ clean[n].cur
    /\ CleanBecomes(n, [clean[n] EXCEPT !.pc = "units", !.cur = {},
          !.todo = @ \ clean[n].cur])
    /\ UNCHANGED <<pool, records, units, nomad, adds, dels, agent, closing, downs>>

CleanDone(n) ==
    /\ clean[n].pc = "units"
    /\ clean[n].todo = {}
    /\ CleanEnds(n)
    /\ UNCHANGED <<vars, agent, closing, downs>>
-----------------------------------------------------------------------------
(* restartLocalInstances, before the agent listens on its socket.          *)

RestartList(n) ==
    /\ clean[n].pc = "restart_list"
    /\ \/ CleanBecomes(n, [clean[n] EXCEPT !.pc = "restart_filter", !.recs = records,
                               !.todo = {a \in Here(n) : records[a] # NoIP}])
       \/ CleanerMayFail("list") /\ CleanBecomes(n, Off)
    /\ UNCHANGED <<vars, agent, closing, downs>>

\* Mutant of RestartFilter: the test is the wrong way round.
RestartFilterInverted(n) ==
    /\ clean[n].pc = "restart_filter"
    /\ CleanBecomes(n, [clean[n] EXCEPT !.pc = "restart",
          !.todo = {a \in @ : nomad[a] # "running"}])
    /\ UNCHANGED <<vars, agent, closing, downs>>

\* Without an answer from Nomad every local record is taken.  An allocation
\* that Nomad does not report as running yet is passed over for good.
RestartFilter(n) ==
    /\ clean[n].pc = "restart_filter"
    /\ \/ CleanBecomes(n, [clean[n] EXCEPT !.pc = "restart",
             !.todo = {a \in @ : nomad[a] = "running"}])
       \/ CleanerMayFail("nomad") /\ CleanGoto(n, "restart")
       \/ /\ CleanerMayFail("pending")
          /\ \E S \in SUBSET {a \in clean[n].todo : nomad[a] = "running"} :
                CleanBecomes(n, [clean[n] EXCEPT !.pc = "restart", !.todo = S])
    /\ UNCHANGED <<vars, agent, closing, downs>>

\* A record is skipped when its instance runs, its network namespace is gone
\* (it lasts as long as the task), Nomad does not answer or signing fails.
RestartCheck(n) ==
    /\ clean[n].pc = "restart"
    /\ \E a \in clean[n].todo :
          \/ /\ \/ a \in instances
                \/ nomad[a] # "running"
                \/ CleanerMayFail("nomad") \/ MayFail("sign")
             /\ CleanBecomes(n, [clean[n] EXCEPT !.todo = @ \ {a}])
          \/ /\ a \notin instances
             /\ nomad[a] # "gone"
             /\ CleanBecomes(n, [clean[n] EXCEPT !.pc = "restart_start", !.cur = {a}])
    /\ UNCHANGED <<vars, agent, closing, downs>>

RestartStart(n) ==
    /\ clean[n].pc = "restart_start"
    /\ \E a \in clean[n].cur :
          StartInstance(a, clean[n].recs[a]) \/ StartInstanceFails(a, clean[n].recs[a])
    /\ CleanBecomes(n, [clean[n] EXCEPT !.pc = "restart", !.cur = {},
          !.todo = @ \ clean[n].cur])
    /\ UNCHANGED <<pool, records, nomad, adds, dels, agent, closing, downs>>

RestartDone(n) ==
    /\ clean[n].pc = "restart"
    /\ clean[n].todo = {}
    /\ CleanBecomes(n, Off)
    /\ UNCHANGED <<vars, agent, closing, downs>>
-----------------------------------------------------------------------------
(* The life of an agent process.                                           *)

\* Mutant of AgentStarts: the next process is there before the last is gone.
AgentStartsTooSoon(n) ==
    /\ agent[n] # "up"
    /\ agent' = [agent EXCEPT ![n] = "up"]
    /\ CleanBecomes(n, [Off EXCEPT !.boot = TRUE, !.pc = "list"])
    /\ UNCHANGED <<vars, closing, downs>>

AgentStarts(n) ==
    /\ agent[n] = "down"
    /\ agent' = [agent EXCEPT ![n] = "up"]
    /\ CleanBecomes(n, [Off EXCEPT !.boot = TRUE, !.pc = "list"])
    /\ UNCHANGED <<vars, closing, downs>>

\* The process is gone: what it kept in memory is lost, the requests in
\* flight fail; Consul and the units of systemd stay as they are.
Exit(n) ==
    /\ agent' = [agent EXCEPT ![n] = "down"]
    /\ clean' = [clean EXCEPT ![n] = Off]
    /\ closing' = [closing EXCEPT ![n] = {}]
    /\ instances' = instances \ Here(n)
    /\ LET lost(pc, r) == AllocOf[r] \in Here(n) /\ InFlight(pc, r)
       IN  /\ addPc' = [r \in AddReqs |-> IF lost(addPc, r) THEN "failed" ELSE addPc[r]]
           /\ addIP' = [r \in AddReqs |-> IF lost(addPc, r) THEN NoIP ELSE addIP[r]]
           /\ delPc' = [d \in DelReqs |-> IF lost(delPc, d) THEN "failed" ELSE delPc[d]]
           /\ delIP' = [d \in DelReqs |-> IF lost(delPc, d) THEN NoIP ELSE delIP[d]]
    /\ UNCHANGED <<pool, records, units, nomad>>

Crash(n) ==
    /\ agent[n] # "down"
    /\ downs < MaxDowns
    /\ downs' = downs + 1
    /\ Exit(n)

\* Stop: StopAll visits the instances that were there when it began, beside
\* the handlers and the cleanup, which go on until the process exits; one that
\* they add meanwhile may be visited, too, as Go leaves it open.
Stop(n) ==
    /\ agent[n] = "up"
    /\ downs < MaxDowns
    /\ downs' = downs + 1
    /\ agent' = [agent EXCEPT ![n] = "stopping"]
    /\ closing' = [closing EXCEPT ![n] = instances \cap Here(n)]
    /\ UNCHANGED <<vars, clean>>

StopAll(n) ==
    /\ agent[n] = "stopping" /\ closing[n] # {}
    /\ \E a \in closing[n] \cup (instances \cap Here(n)) :
          /\ StopInstance(a)
          /\ closing' = [closing EXCEPT ![n] = @ \ {a}]
    /\ UNCHANGED <<pool, records, nomad, adds, dels, agent, clean, downs>>

StopDone(n) ==
    /\ agent[n] = "stopping"
    /\ closing[n] = {}
    /\ Exit(n)
    /\ UNCHANGED downs

\* A DEL that finds no agent fails in the client, and is not repeated.
DelLost(d) ==
    /\ delPc[d] = "idle"
    /\ nomad[AllocOf[d]] # "running"
    /\ ~Serving(NodeOf[AllocOf[d]])
    /\ DelGoto(d, "failed")
    /\ UNCHANGED <<shared, nomad, adds, delIP, cluster>>
-----------------------------------------------------------------------------
CleanStep(n) ==
    \/ CleanList(n) \/ CleanCheck(n)
    \/ CleanStop(n) \/ CleanRelease(n) \/ CleanDelete(n)
    \/ CleanReadPool(n) \/ CleanOrphan(n)
    \/ CleanListUnits(n) \/ CleanStopUnit(n) \/ CleanForget(n) \/ CleanDone(n)

RestartStep(n) ==
    \/ RestartList(n) \/ RestartFilter(n)
    \/ RestartCheck(n) \/ RestartStart(n) \/ RestartDone(n)

\* What an agent does by itself, once it is there.
AgentStep(n) ==
    \/ CleanStep(n) \/ RestartStep(n)
    \/ StopAll(n) \/ StopDone(n)

\* A request is handled by the agent of its node.
Handle(r) ==
    /\ Serving(NodeOf[AllocOf[r]])
    /\ (r \in AddReqs /\ Add(r)) \/ (r \in DelReqs /\ Del(r))
    /\ UNCHANGED cluster

ClusterNext ==
    \/ \E r \in AddReqs \cup DelReqs : Handle(r)
    \/ \E d \in DelReqs : DelLost(d)
    \/ \E a \in Allocs : (TaskStops(a) \/ TaskForgotten(a)) /\ UNCHANGED cluster
    \/ \E n \in Nodes :
          \/ AgentStep(n) \/ CleanBegins(n)
          \/ AgentStarts(n) \/ Stop(n) \/ Crash(n)

ClusterSpec == ClusterInit /\ [][ClusterNext]_clusterVars

\* Handlers and agents go on with what they have begun, the hourly tick comes,
\* and systemd starts the agent again (README.md:53, Restart=always).  No
\* request has to arrive and no task has to stop.
Begun(r) == (r \in AddReqs /\ addPc[r] # "idle") \/ (r \in DelReqs /\ delPc[r] # "idle")

ClusterFairSpec ==
    /\ ClusterSpec
    /\ \A r \in AddReqs \cup DelReqs : WF_clusterVars(Begun(r) /\ Handle(r))
    /\ \A n \in Nodes :
          /\ WF_clusterVars(AgentStep(n))
          /\ WF_clusterVars(CleanBegins(n))
          /\ WF_clusterVars(AgentStarts(n))
-----------------------------------------------------------------------------
(* Properties.                                                             *)

Pass == [pc : {"off"} \cup CleanControl \cup RestartControl, boot : BOOLEAN,
         recs : [Allocs -> IPOrNone], todo : SUBSET Allocs,
         cur : SUBSET Allocs, cleaned : SUBSET Allocs, orphans : SUBSET Addrs]

\* The variables hold values of their types, and requests are in flight only
\* at an agent that listens.
ClusterTypeOK ==
    /\ TypeOK
    /\ agent \in [Nodes -> {"down", "up", "stopping"}]
    /\ clean \in [Nodes -> Pass]
    /\ closing \in [Nodes -> SUBSET Allocs]
    /\ downs \in 0 .. MaxDowns
    /\ \A r \in AddReqs : InFlight(addPc, r) => Serving(NodeOf[AllocOf[r]])
    /\ \A d \in DelReqs : InFlight(delPc, d) => Serving(NodeOf[AllocOf[d]])

\* Nomad knows allocation a, the pass of n has listed its record as it still
\* is, and no other listed record has the same address.
Listed(n, a) ==
    /\ clean[n].pc \in CleanControl
    /\ nomad[a] # "gone"
    /\ clean[n].recs[a] = records[a]
    /\ \A b \in Allocs \ {a} : clean[n].recs[b] # records[a]

\* A cleanup pass leaves what it has listed and Nomad knows alone: its steps
\* take neither the record, nor the unit, nor the address of such an
\* allocation, whatever handlers, agents and other passes do in between.
CleanupSparesListed ==
    [][\A n \in Nodes, a \in Allocs :
          records[a] # NoIP /\ Listed(n, a) /\ CleanStep(n) =>
              /\ records'[a] = records[a]
              /\ units'[a] = units[a]
              /\ records[a] \in pool => records[a] \in pool']_clusterVars

\* When a starting agent that could list the records has come to listen, every
\* allocation of its node that has a record and a running task has its
\* instance: a unit with the certificate for the address of the record.  (An
\* agent that is told to stop before that stops what it has restarted:
\* main.go:92 takes the signals beside Start.)
RestartRestores ==
    [][\A n \in Nodes, a \in Allocs :
          RestartDone(n) /\ agent[n] = "up"
              /\ a \in Here(n) /\ records[a] # NoIP /\ nomad[a] = "running"
          => units[a] = records[a] /\ a \in instances]_clusterVars

\* Nothing is left behind for ever by crashes, lost DELs, failed calls and
\* handlers that overlap: once requests and crashes are over, the pool counts
\* no address as allocated but those of records, every record belongs to an
\* allocation Nomad knows, and no unit runs without a record.
EventuallyTidy ==
    <>[](/\ \A ip \in pool : \E a \in Allocs : records[a] = ip
         /\ \A a \in Allocs :
               /\ nomad[a] = "gone" => records[a] = NoIP
               /\ records[a] = NoIP => units[a] = NoIP /\ a \notin instances)

\* "Clean up orphaned IPs (Pool says allocated, but no Consul record exists)"
\* (agent.go:365): an address that is reclaimed is in no record.
ReclaimsOnlyOrphans ==
    [][\A n \in Nodes, ip \in Addrs :
          CleanOrphan(n) /\ ip \in pool /\ ip \notin pool'
              => \A a \in Allocs : records[a] # ip]_clusterVars
-----------------------------------------------------------------------------
(* The inductive invariant of ClusterProofs.tla.                           *)

\* What a pass is about to act on is not what it has listed and Nomad knows:
\* its allocations are gone, its addresses in none of the records, its units
\* without a listed record or cleaned away.
PassApart(p) ==
    /\ p.pc \in {"stop", "release", "delete"} => \A a \in p.cur : nomad[a] = "gone"
    /\ \A a \in p.cleaned : nomad[a] = "gone"
    /\ p.pc = "orphans" => \A a \in Allocs : p.recs[a] \notin p.orphans
    /\ p.pc \in {"units", "forget"} =>
          \A a \in p.todo : p.recs[a] = NoIP \/ nomad[a] = "gone"

PassesApart == \A n \in Nodes : PassApart(clean[n])

\* Nomad answers the cleanup.
NomadAnswers == "nomad" \notin CleanerFaults

\* No restart of an instance fails, and Nomad reports every allocation that
\* has its network as running.
RestartsSucceed ==
    /\ Faults \cap {"sign", "start", "start_applied"} = {}
    /\ "pending" \notin CleanerFaults

\* An agent stops units of its own node only, and restarts only those.
KeepsToItsNode(n) ==
    /\ clean[n].pc \in {"units", "forget"} \cup RestartControl =>
          clean[n].todo \subseteq Here(n)
    /\ clean[n].pc = "forget" => clean[n].cur \subseteq Here(n)
    /\ clean[n].pc = "restart_start" => \E a \in clean[n].todo : clean[n].cur = {a}
    /\ closing[n] \subseteq Here(n)

\* A process that is gone, or has yet to restart instances, has none.
StartsEmpty(n) ==
    /\ agent[n] = "down" => clean[n].pc = "off"
    /\ clean[n].pc \in RestartControl => clean[n].boot
    /\ agent[n] = "down" \/ (/\ agent[n] = "up" /\ clean[n].boot
                             /\ clean[n].pc \in CleanControl \cup {"restart_list"}) =>
          Here(n) \cap instances = {}

\* The restart knows the records of the running tasks of its node as they are:
\* it has restored each or still has it on its list.
RestoresListed(n) ==
    agent[n] = "up" /\ clean[n].pc \in {"restart_filter", "restart", "restart_start"} =>
        \A a \in Here(n) : nomad[a] = "running" =>
            /\ clean[n].recs[a] = records[a]
            /\ a \in instances => units[a] = records[a]
            /\ records[a] # NoIP => a \in instances \cup clean[n].todo

RestartInv ==
    \A n \in Nodes : KeepsToItsNode(n) /\ StartsEmpty(n) /\ RestoresListed(n)
=============================================================================
