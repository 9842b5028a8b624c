----------------------------- MODULE ClusterProofs -----------------------------
(***************************************************************************)
(* Proofs about Cluster for every set of nodes, allocations and requests:  *)
(* type correctness with any failure and any crash, and that a cleanup     *)
(* pass, where Nomad answers it, leaves alone what it has listed and Nomad *)
(* knows, whatever runs beside it.                                         *)
(***************************************************************************)
EXTENDS Cluster, AllocationProofs

USE RangeAssumption, NoIPAssumption, RequestsAssumption, NodesAssumption,
    MaxDownsAssumption

\* The types of Cluster's variables.
Types ==
    /\ TypeOK
    /\ agent \in [Nodes -> {"down", "up", "stopping"}]
    /\ clean \in [Nodes -> Pass]
    /\ closing \in [Nodes -> SUBSET Allocs]
    /\ downs \in 0 .. MaxDowns
-----------------------------------------------------------------------------
(* Passes.                                                                 *)

LEMMA OffIsPass == Off \in Pass /\ Off.pc = "off" /\ Off.boot = FALSE /\ Off.cleaned = {}
BY DEF Off, Pass, CleanControl, RestartControl, IPOrNone

\* The pass with which an agent starts, and the restart that follows it.
LEMMA BootIsPass ==
    ASSUME NEW l \in {"list", "restart_list"}
    PROVE  /\ [Off EXCEPT !.boot = TRUE, !.pc = l] \in Pass
           /\ [Off EXCEPT !.boot = TRUE, !.pc = l].pc = l
           /\ [Off EXCEPT !.boot = TRUE, !.pc = l].cleaned = {}
BY DEF Off, Pass, CleanControl, RestartControl, IPOrNone

\* A pass that is changed stays one.
LEMMA PassChange ==
    ASSUME NEW p \in Pass, NEW l \in {"off"} \cup CleanControl \cup RestartControl,
           NEW f \in [Allocs -> IPOrNone], NEW S \in SUBSET Allocs,
           NEW T \in SUBSET Allocs, NEW U \in SUBSET Allocs, NEW V \in SUBSET Addrs
    PROVE  /\ [p EXCEPT !.pc = l] \in Pass
           /\ [p EXCEPT !.todo = S] \in Pass
           /\ [p EXCEPT !.orphans = V] \in Pass
           /\ [p EXCEPT !.pc = l, !.todo = S] \in Pass
           /\ [p EXCEPT !.pc = l, !.cur = T] \in Pass
           /\ [p EXCEPT !.pc = l, !.orphans = V] \in Pass
           /\ [p EXCEPT !.pc = l, !.recs = f, !.todo = S] \in Pass
           /\ [p EXCEPT !.pc = l, !.cur = T, !.todo = S] \in Pass
           /\ [p EXCEPT !.pc = l, !.cur = T, !.todo = S, !.cleaned = U] \in Pass
BY DEF Pass

\* What a step of n makes of its pass.
Moves(n) == \E q \in Pass :
    /\ CleanBecomes(n, q)
    /\ NomadAnswers /\ PassApart(clean[n]) => PassApart(q)
    /\ clean[n].boot \/ agent[n] = "down" \/ q.boot = FALSE \/ q.boot = clean[n].boot

LEMMA PassMoves ==
    ASSUME Types, NEW n \in Nodes,
           CleanBegins(n) \/ CleanStep(n) \/ RestartStep(n) \/ AgentStarts(n)
    PROVE  Moves(n)
<1> DEFINE p == clean[n]
<1>p. /\ p \in Pass /\ p.recs \in [Allocs -> IPOrNone] /\ p.todo \in SUBSET Allocs
      /\ p.cur \in SUBSET Allocs /\ p.cleaned \in SUBSET Allocs
      /\ p.orphans \in SUBSET Addrs
  BY DEF Types, Pass
<1>o. ASSUME NEW l \in {"list", "restart_list"}
      PROVE  PassApart(Off) /\ PassApart([Off EXCEPT !.boot = TRUE, !.pc = l])
  BY OffIsPass, BootIsPass DEF PassApart
<1>e. CleanEnds(n) => Moves(n)
  BY <1>o, OffIsPass, BootIsPass DEF CleanEnds, Moves
\* A step that only goes on to l, or takes allocations off the list.
<1>g. ASSUME NEW l \in {"list", "release", "restart"}, CleanGoto(n, l),
             l = "release" => p.pc = "stop"
      PROVE  Moves(n)
  <2> DEFINE q == [p EXCEPT !.pc = l]
  <2>1. q \in Pass
    BY <1>p, PassChange DEF CleanControl, RestartControl
  <2>2. (NomadAnswers /\ PassApart(p) => PassApart(q)) /\ q.boot = p.boot
    BY <1>p, <1>g DEF PassApart, Pass
  <2> QED
    BY <1>g, <2>1, <2>2 DEF CleanGoto, Moves
<1>t. ASSUME NEW S \in SUBSET p.todo, CleanBecomes(n, [p EXCEPT !.todo = S])
      PROVE  Moves(n)
  <2> DEFINE q == [p EXCEPT !.todo = S]
  <2>1. q \in Pass
    BY <1>p, PassChange
  <2>2. (NomadAnswers /\ PassApart(p) => PassApart(q)) /\ q.boot = p.boot
    BY <1>p DEF PassApart, Pass
  <2> QED
    BY <1>t, <2>1, <2>2 DEF Moves
<1>2. CASE CleanList(n) \/ RestartList(n)
  <2>1. CASE \E l \in {"check", "restart_filter"}, S \in SUBSET Allocs :
                CleanBecomes(n, [p EXCEPT !.pc = l, !.recs = records, !.todo = S])
    <3>1. PICK l \in {"check", "restart_filter"}, S \in SUBSET Allocs :
                CleanBecomes(n, [p EXCEPT !.pc = l, !.recs = records, !.todo = S])
      BY <2>1
    <3> DEFINE q == [p EXCEPT !.pc = l, !.recs = records, !.todo = S]
    <3>2. q \in Pass
      BY <1>p, PassChange DEF CleanControl, RestartControl, Types, TypeOK
    <3>3. (NomadAnswers /\ PassApart(p) => PassApart(q)) /\ q.boot = p.boot
      BY <1>p DEF PassApart, Pass
    <3> QED
      BY <3>1, <3>2, <3>3 DEF Moves
  <2>2. CASE CleanEnds(n) \/ CleanBecomes(n, Off)
    BY <1>e, <1>o, <2>2, OffIsPass DEF Moves
  <2>3. /\ {a \in Allocs : records[a] # NoIP} \in SUBSET Allocs
        /\ {a \in Here(n) : records[a] # NoIP} \in SUBSET Allocs
    BY DEF Here
  <2> QED
    BY <1>2, <2>1, <2>2, <2>3 DEF CleanList, RestartList
<1>3. CASE CleanCheck(n) \/ RestartCheck(n)
  <2>1. PICK a \in p.todo :
           \/ /\ nomad[a] = "gone" \/ ~NomadAnswers
              /\ CleanBecomes(n, [p EXCEPT !.pc = "stop", !.cur = {a}])
           \/ CleanBecomes(n, [p EXCEPT !.pc = "restart_start", !.cur = {a}])
           \/ CleanBecomes(n, [p EXCEPT !.todo = @ \ {a}])
    BY <1>3 DEF CleanCheck, RestartCheck, CleanerMayFail, NomadAnswers
  <2>2. ASSUME NEW l \in {"stop", "restart_start"},
               l = "stop" => nomad[a] = "gone" \/ ~NomadAnswers,
               CleanBecomes(n, [p EXCEPT !.pc = l, !.cur = {a}])
        PROVE  Moves(n)
    <3> DEFINE q == [p EXCEPT !.pc = l, !.cur = {a}]
    <3>1. {a} \in SUBSET Allocs
      BY <1>p
    <3>2. q \in Pass
      BY <1>p, <3>1, PassChange DEF CleanControl, RestartControl
    <3>3. (NomadAnswers /\ PassApart(p) => PassApart(q)) /\ q.boot = p.boot
      BY <1>p, <2>2 DEF PassApart, Pass
    <3> QED
      BY <2>2, <3>2, <3>3 DEF Moves
  <2>3. p.todo \ {a} \in SUBSET p.todo
    OBVIOUS
  <2> QED
    BY <1>t, <2>1, <2>2, <2>3
<1>4. CASE CleanDelete(n)
  <2> DEFINE q == [p EXCEPT !.pc = "check", !.cur = {}, !.todo = @ \ p.cur,
                   !.cleaned = @ \cup p.cur]
  <2>1. q \in Pass
    BY <1>p, PassChange DEF CleanControl
  <2>2. (NomadAnswers /\ PassApart(p) => PassApart(q)) /\ q.boot = p.boot
    BY <1>p, <1>4 DEF CleanDelete, PassApart, Pass
  <2> QED
    BY <1>4, <2>1, <2>2 DEF CleanDelete, Moves
<1>5. CASE CleanReadPool(n)
  <2> DEFINE V == pool \ {p.recs[a] : a \in Allocs}
             q == [p EXCEPT !.pc = "orphans", !.orphans = V]
  <2>1. V \in SUBSET Addrs /\ \A a \in Allocs : p.recs[a] \notin V
    BY DEF Types, TypeOK
  <2>2. q \in Pass
    BY <1>p, <2>1, PassChange DEF CleanControl
  <2>3. (NomadAnswers /\ PassApart(p) => PassApart(q)) /\ q.boot = p.boot
    BY <1>p, <2>1 DEF PassApart, Pass
  <2> QED
    BY <1>5, <1>e, <2>2, <2>3 DEF CleanReadPool, Moves
<1>6. CASE CleanOrphan(n)
  <2>1. PICK ip \in p.orphans : CleanBecomes(n, [p EXCEPT !.orphans = @ \ {ip}])
    BY <1>6 DEF CleanOrphan
  <2> DEFINE V == p.orphans \ {ip}
             q == [p EXCEPT !.orphans = V]
  <2>2. V \in SUBSET Addrs
    BY <1>p
  <2>3. q \in Pass
    <3> HIDE DEF V
    <3> QED
      BY <1>p, <2>2, PassChange
  <2>4. (NomadAnswers /\ PassApart(p) => PassApart(q)) /\ q.boot = p.boot
    BY <1>p DEF PassApart, Pass
  <2> QED
    BY <2>1, <2>3, <2>4 DEF Moves
<1>7. CASE CleanListUnits(n)
  <2> DEFINE S == {a \in Here(n) : /\ units[a] # NoIP
                                   /\ p.recs[a] = NoIP \/ a \in p.cleaned}
             q == [p EXCEPT !.pc = "units", !.todo = S]
  <2>1. S \in SUBSET Allocs
    BY DEF Here
  <2>2. q \in Pass
    BY <1>p, <2>1, PassChange DEF CleanControl
  <2>3. (NomadAnswers /\ PassApart(p) => PassApart(q)) /\ q.boot = p.boot
    <3>1. q.pc = "units" /\ q.todo = S /\ q.recs = p.recs /\ q.cleaned = p.cleaned
      BY <1>p DEF Pass
    <3> QED
      BY <3>1 DEF PassApart
  <2> QED
    BY <1>7, <1>e, <2>2, <2>3 DEF CleanListUnits, Moves
<1>8. CASE CleanStopUnit(n)
  <2>1. PICK a \in p.todo :
           \/ CleanBecomes(n, [p EXCEPT !.pc = "forget", !.cur = {a}])
           \/ CleanBecomes(n, [p EXCEPT !.todo = @ \ {a}])
    BY <1>8 DEF CleanStopUnit
  <2> DEFINE q == [p EXCEPT !.pc = "forget", !.cur = {a}]
  <2>2. {a} \in SUBSET Allocs
    BY <1>p
  <2>3. q \in Pass
    BY <1>p, <2>2, PassChange DEF CleanControl
  <2>4. (NomadAnswers /\ PassApart(p) => PassApart(q)) /\ q.boot = p.boot
    BY <1>p, <1>8 DEF CleanStopUnit, PassApart, Pass
  <2>5. p.todo \ {a} \in SUBSET p.todo
    OBVIOUS
  <2> QED
    BY <1>t, <2>1, <2>3, <2>4, <2>5 DEF Moves
<1>9. CASE CleanForget(n) \/ RestartStart(n)
  <2>1. PICK l \in {"units", "restart"} :
           /\ CleanBecomes(n, [p EXCEPT !.pc = l, !.cur = {}, !.todo = @ \ p.cur])
           /\ l = "units" => p.pc = "forget"
    BY <1>9 DEF CleanForget, RestartStart
  <2> DEFINE q == [p EXCEPT !.pc = l, !.cur = {}, !.todo = p.todo \ p.cur]
  <2>2. q \in Pass
    BY <1>p, PassChange DEF CleanControl, RestartControl
  <2>3. (NomadAnswers /\ PassApart(p) => PassApart(q)) /\ q.boot = p.boot
    BY <1>p, <2>1 DEF PassApart, Pass
  <2> QED
    BY <2>1, <2>2, <2>3 DEF Moves
<1>10. CASE RestartFilter(n)
  <2>1. \/ \E S \in SUBSET p.todo : CleanBecomes(n, [p EXCEPT !.pc = "restart", !.todo = S])
        \/ CleanGoto(n, "restart")
    <3>1. {a \in p.todo : nomad[a] = "running"} \in SUBSET p.todo
      OBVIOUS
    <3> QED
      BY <1>10, <3>1 DEF RestartFilter
  <2>2. ASSUME NEW S \in SUBSET p.todo,
               CleanBecomes(n, [p EXCEPT !.pc = "restart", !.todo = S])
        PROVE  Moves(n)
    <3> DEFINE q == [p EXCEPT !.pc = "restart", !.todo = S]
    <3>1. q \in Pass
      BY <1>p, PassChange DEF RestartControl
    <3>2. (NomadAnswers /\ PassApart(p) => PassApart(q)) /\ q.boot = p.boot
      BY <1>p DEF PassApart, Pass
    <3> QED
      BY <2>2, <3>1, <3>2 DEF Moves
  <2> QED
    BY <1>g, <2>1, <2>2
<1>11. CASE CleanBegins(n) \/ CleanStop(n) \/ CleanRelease(n)
  <2>1. ASSUME CleanRelease(n) PROVE Moves(n)
    <3> DEFINE q == [p EXCEPT !.pc = "delete"]
    <3>1. q \in Pass
      BY <1>p, PassChange DEF CleanControl
    <3>2. (NomadAnswers /\ PassApart(p) => PassApart(q)) /\ q.boot = p.boot
      BY <1>p, <2>1 DEF CleanRelease, PassApart, Pass
    <3> QED
      BY <2>1, <3>1, <3>2 DEF CleanRelease, CleanGoto, Moves
  <2> QED
    BY <1>11, <1>g, <2>1 DEF CleanBegins, CleanStop
<1>12. CASE CleanDone(n) \/ RestartDone(n) \/ AgentStarts(n)
  BY <1>12, <1>e, <1>o, OffIsPass, BootIsPass DEF CleanDone, RestartDone, AgentStarts, Moves
<1> QED
  BY <1>2, <1>3, <1>4, <1>5, <1>6, <1>7, <1>8, <1>9, <1>10, <1>11, <1>12
     DEF CleanStep, RestartStep
-----------------------------------------------------------------------------
(* Types.                                                                  *)

LEMMA TypesInit == ClusterInit => Types
BY TypeInit, OffIsPass DEF ClusterInit, Types

\* The calls a pass makes.
LEMMA CallsTyped ==
    ASSUME Types, NEW n \in Nodes, CleanBegins(n) \/ CleanStep(n) \/ RestartStep(n)
    PROVE  TypeOK' /\ UNCHANGED <<nomad, adds, dels, agent, closing, downs>>
<1> USE DEF Types, TypeOK, IPOrNone, shared, adds, dels, vars
<1>1. ASSUME NEW a \in Allocs,
             \/ StopInstance(a)
             \/ \E ip \in IPOrNone : StartInstance(a, ip) \/ StartInstanceFails(a, ip)
      PROVE  instances' \subseteq Allocs /\ units' \in [Allocs -> IPOrNone]
  BY <1>1 DEF StopInstance, StartInstanceFails, StartInstance
<1>2. /\ clean[n].recs \in [Allocs -> IPOrNone]
      /\ clean[n].cur \subseteq Allocs /\ clean[n].todo \subseteq Allocs
  BY DEF Pass
<1>3. CASE CleanStop(n)
  BY <1>1, <1>2, <1>3 DEF CleanStop
<1>4. CASE CleanRelease(n) \/ CleanOrphan(n)
  BY <1>4 DEF CleanRelease, CleanOrphan, CleanReleaseIP
<1>5. CASE CleanDelete(n)
  BY <1>2, <1>5 DEF CleanDelete, DeleteAllocationRecord
<1>6. CASE CleanStopUnit(n) \/ CleanForget(n)
  BY <1>2, <1>6 DEF CleanStopUnit, CleanForget
<1>7. CASE RestartStart(n)
  BY <1>1, <1>2, <1>7 DEF RestartStart
<1>8. CASE CleanBegins(n) \/ CleanList(n) \/ CleanCheck(n) \/ CleanReadPool(n)
             \/ CleanListUnits(n) \/ CleanDone(n)
  BY <1>8 DEF CleanBegins, CleanList, CleanCheck, CleanReadPool, CleanListUnits, CleanDone
<1>9. CASE RestartList(n) \/ RestartFilter(n) \/ RestartCheck(n) \/ RestartDone(n)
  BY <1>9 DEF RestartList, RestartFilter, RestartCheck, RestartDone
<1> QED
  BY <1>3, <1>4, <1>5, <1>6, <1>7, <1>8, <1>9 DEF CleanStep, RestartStep

\* The end of a process.
LEMMA ExitTyped ==
    ASSUME Types, NEW n \in Nodes, Exit(n), downs' \in 0 .. MaxDowns
    PROVE  Types'
<1> USE DEF Types, TypeOK, Exit, IPOrNone
<1>1. clean' \in [Nodes -> Pass]
  BY OffIsPass
<1>2. /\ addPc' \in [AddReqs -> AddControl] /\ addIP' \in [AddReqs -> IPOrNone]
      /\ delPc' \in [DelReqs -> DelControl] /\ delIP' \in [DelReqs -> IPOrNone]
  BY DEF AddControl, DelControl
<1> QED
  BY <1>1, <1>2

LEMMA TypesStep ==
    ASSUME Types, [ClusterNext]_clusterVars
    PROVE  Types'
<1> USE DEF Types
<1>1. ASSUME NEW r \in AddReqs \cup DelReqs, Handle(r) PROVE Types'
  BY <1>1, TypeStep DEF Handle, Next, cluster
<1>2. ASSUME NEW d \in DelReqs, DelLost(d) PROVE Types'
  BY <1>2 DEF DelLost, DelGoto, TypeOK, DelControl, shared, adds, cluster
<1>3. ASSUME NEW a \in Allocs, TaskStops(a) \/ TaskForgotten(a), UNCHANGED cluster
      PROVE  Types'
  BY <1>3, TypeStep DEF Next, cluster
<1>4. ASSUME NEW n \in Nodes, CleanBegins(n) \/ CleanStep(n) \/ RestartStep(n)
      PROVE  Types'
  BY <1>4, PassMoves, CallsTyped DEF Moves, CleanBecomes
<1>5. ASSUME NEW n \in Nodes, AgentStarts(n) PROVE Types'
  BY <1>5, PassMoves DEF AgentStarts, Moves, CleanBecomes, vars, shared, adds, dels, TypeOK
<1>6. ASSUME NEW n \in Nodes, Stop(n) PROVE Types'
  BY <1>6 DEF Stop, vars, shared, adds, dels, TypeOK
<1>7. ASSUME NEW n \in Nodes, StopAll(n) PROVE Types'
  BY <1>7 DEF StopAll, StopInstance, adds, dels, TypeOK, IPOrNone
<1>8. ASSUME NEW n \in Nodes, Crash(n) \/ StopDone(n) PROVE Types'
  BY <1>8, ExitTyped DEF Crash, StopDone
<1>9. CASE UNCHANGED clusterVars
  BY <1>9 DEF clusterVars, cluster, vars, shared, adds, dels, TypeOK
<1> QED
  BY <1>1, <1>2, <1>3, <1>4, <1>5, <1>6, <1>7, <1>8, <1>9 DEF ClusterNext, AgentStep
-----------------------------------------------------------------------------
(* Requests in flight.                                                     *)

Handled ==
    /\ \A r \in AddReqs : InFlight(addPc, r) => Serving(NodeOf[AllocOf[r]])
    /\ \A d \in DelReqs : InFlight(delPc, d) => Serving(NodeOf[AllocOf[d]])

\* An agent that listens does so until its process ends.
LEMMA ServesOn ==
    ASSUME Types, NEW n \in Nodes, NEW m \in Nodes, Serving(n),
           \/ CleanBegins(m) \/ CleanStep(m) \/ RestartStep(m)
           \/ AgentStarts(m) \/ Stop(m) \/ StopAll(m)
    PROVE  Serving(n)'
<1>1. CASE CleanBegins(m) \/ CleanStep(m) \/ RestartStep(m) \/ AgentStarts(m)
  <2>1. PICK q \in Pass :
           /\ CleanBecomes(m, q)
           /\ clean[m].boot \/ agent[m] = "down" \/ q.boot = FALSE \/ q.boot = clean[m].boot
    BY <1>1, PassMoves DEF Moves
  <2>2. clean'[n] = IF n = m THEN q ELSE clean[n]
    BY <2>1 DEF CleanBecomes, Types
  <2>3. agent'[n] = agent[n] \/ (n = m /\ agent[n] = "down")
    BY <1>1, CallsTyped DEF AgentStarts, Types
  <2>4. CASE n = m
    <3>1. clean'[n].boot = FALSE \/ clean'[n].boot = clean[n].boot
      BY <2>1, <2>2, <2>4 DEF Serving
    <3>2. ~clean'[n].boot
      BY <3>1, Zenon DEF Serving
    <3> QED
      BY <2>3, <3>2 DEF Serving
  <2>5. CASE n # m
    <3>1. clean'[n].boot = clean[n].boot
      BY <2>2, <2>5
    <3>2. ~clean'[n].boot
      BY <3>1, Zenon DEF Serving
    <3> QED
      BY <2>3, <2>5, <3>2 DEF Serving
  <2> QED
    BY <2>4, <2>5
<1>2. CASE Stop(m) \/ StopAll(m)
  <2>1. clean'[n] = clean[n] /\ (agent'[n] = agent[n] \/ agent'[n] = "stopping")
    BY <1>2 DEF Stop, StopAll, Types
  <2>2. ~clean'[n].boot
    BY <2>1, Zenon DEF Serving
  <2> QED
    BY <2>1, <2>2 DEF Serving
<1> QED
  BY <1>1, <1>2

LEMMA HandledStep ==
    ASSUME Types, Handled, [ClusterNext]_clusterVars
    PROVE  Handled'
<1> USE DEF Handled, Types, TypeOK, InFlight, adds, dels
<1>1. ASSUME NEW r \in AddReqs, Serving(NodeOf[AllocOf[r]]), Add(r), UNCHANGED cluster
      PROVE  Handled'
  <2>1. UNCHANGED dels /\ \A s \in AddReqs : s # r => addPc'[s] = addPc[s]
    BY <1>1 DEF Add, AddMetadata, AddCheck, AddAllocate, AddAllocateFails, AddSign,
       AddStart, AddStore, AddStoreFails, AddUndoStop, AddUndoRelease, AddGoto
  <2>2. \A n \in Nodes : Serving(n) => Serving(n)'
    BY <1>1 DEF cluster, Serving
  <2> QED
    BY <1>1, <2>1, <2>2
<1>2. ASSUME NEW d \in DelReqs, Serving(NodeOf[AllocOf[d]]), Del(d), UNCHANGED cluster
      PROVE  Handled'
  <2>1. UNCHANGED adds /\ \A e \in DelReqs : e # d => delPc'[e] = delPc[e]
    BY <1>2 DEF Del, DelLookup, DelStop, DelRelease, DelDelete, DelGoto
  <2>2. \A n \in Nodes : Serving(n) => Serving(n)'
    BY <1>2 DEF cluster, Serving
  <2> QED
    BY <1>2, <2>1, <2>2
<1>3. ASSUME NEW d \in DelReqs, DelLost(d) PROVE Handled'
  BY <1>3 DEF DelLost, DelGoto, cluster, Serving
<1>4. CASE \/ \E a \in Allocs : (TaskStops(a) \/ TaskForgotten(a)) /\ UNCHANGED cluster
           \/ UNCHANGED clusterVars
  <2>1. UNCHANGED <<adds, dels, cluster>>
    BY <1>4 DEF TaskStops, TaskForgotten, clusterVars, vars
  <2> QED
    BY <2>1 DEF cluster, Serving
<1>5. ASSUME NEW m \in Nodes,
             \/ CleanBegins(m) \/ CleanStep(m) \/ RestartStep(m)
             \/ AgentStarts(m) \/ Stop(m) \/ StopAll(m)
      PROVE  Handled'
  <2>1. UNCHANGED <<adds, dels>>
    BY <1>5, CallsTyped DEF AgentStarts, Stop, StopAll, vars
  <2>2. \A n \in Nodes : Serving(n) => Serving(n)'
    BY <1>5, ServesOn
  <2> QED
    BY <2>1, <2>2
<1>6. ASSUME NEW m \in Nodes, Exit(m) PROVE Handled'
  <2>1. \A n \in Nodes \ {m} : Serving(n) => Serving(n)'
    BY <1>6 DEF Exit, Serving
  <2>2. \A r \in AddReqs : IF NodeOf[AllocOf[r]] = m /\ InFlight(addPc, r)
                           THEN addPc'[r] = "failed" ELSE addPc'[r] = addPc[r]
    BY <1>6 DEF Exit, Here
  <2>3. \A d \in DelReqs : IF NodeOf[AllocOf[d]] = m /\ InFlight(delPc, d)
                           THEN delPc'[d] = "failed" ELSE delPc'[d] = delPc[d]
    BY <1>6 DEF Exit, Here
  <2> QED
    BY <2>1, <2>2, <2>3
<1> QED
  BY <1>1, <1>2, <1>3, <1>4, <1>5, <1>6 DEF ClusterNext, AgentStep, Handle, Crash, StopDone
-----------------------------------------------------------------------------
(* What a pass has listed.                                                 *)

\* Nomad does not remember what it has forgotten.
LEMMA GoneForGood ==
    ASSUME Types, [ClusterNext]_clusterVars, NEW a \in Allocs, nomad[a] = "gone"
    PROVE  nomad'[a] = "gone"
<1> USE DEF Types, TypeOK
<1>1. ASSUME NEW r \in AddReqs, Add(r) PROVE UNCHANGED nomad
  BY <1>1 DEF Add, AddMetadata, AddCheck, AddAllocate, AddAllocateFails, AddSign,
     AddStart, AddStore, AddStoreFails, AddUndoStop, AddUndoRelease
<1>2. ASSUME NEW d \in DelReqs, Del(d) PROVE UNCHANGED nomad
  BY <1>2 DEF Del, DelLookup, DelStop, DelRelease, DelDelete
<1>3. ASSUME NEW n \in Nodes, CleanBegins(n) \/ AgentStep(n) PROVE UNCHANGED nomad
  BY <1>3, CallsTyped DEF AgentStep, StopAll, StopDone, Exit
<1>4. ASSUME NEW n \in Nodes, AgentStarts(n) \/ Stop(n) \/ Crash(n)
      PROVE  UNCHANGED nomad
  BY <1>4 DEF AgentStarts, Stop, Crash, Exit, vars
<1>5. ASSUME NEW b \in Allocs, TaskStops(b) \/ TaskForgotten(b)
      PROVE  nomad'[a] = "gone"
  BY <1>5 DEF TaskStops, TaskForgotten
<1> QED
  BY <1>1, <1>2, <1>3, <1>4, <1>5
     DEF ClusterNext, Handle, DelLost, clusterVars, vars

LEMMA PassesApartInit == ClusterInit => PassesApart
BY OffIsPass DEF ClusterInit, PassesApart, PassApart

LEMMA PassesApartStep ==
    ASSUME Types, NomadAnswers, PassesApart, [ClusterNext]_clusterVars
    PROVE  PassesApart'
<1> SUFFICES ASSUME NEW n \in Nodes PROVE PassApart(clean[n])'
  BY DEF PassesApart
<1>1. ASSUME NEW q \in Pass, clean'[n] = q, PassApart(q) PROVE PassApart(clean[n])'
  BY <1>1, GoneForGood DEF PassApart, Pass
<1>2. clean[n] \in Pass /\ PassApart(clean[n]) /\ Off \in Pass /\ PassApart(Off)
  BY OffIsPass DEF Types, PassesApart, PassApart
<1>3. ASSUME NEW m \in Nodes, CleanBegins(m) \/ CleanStep(m) \/ RestartStep(m) \/ AgentStarts(m)
      PROVE  PassApart(clean[n])'
  <2>1. PICK q \in Pass : CleanBecomes(m, q) /\ (PassApart(clean[m]) => PassApart(q))
    BY <1>3, PassMoves DEF Moves
  <2>2. clean'[n] = IF n = m THEN q ELSE clean[n]
    BY <2>1 DEF CleanBecomes, Types
  <2> QED
    BY <1>1, <1>2, <2>1, <2>2
<1>4. ASSUME NEW m \in Nodes, Exit(m) PROVE PassApart(clean[n])'
  <2>1. clean'[n] = IF n = m THEN Off ELSE clean[n]
    BY <1>4 DEF Exit, Types
  <2> QED
    BY <1>1, <1>2, <2>1
<1>5. CASE UNCHANGED clean
  BY <1>1, <1>2, <1>5
<1> QED
  BY <1>3, <1>4, <1>5 DEF ClusterNext, AgentStep, Handle, DelLost, Stop, StopAll, StopDone,
     Crash, cluster, clusterVars

\* A step of a pass takes nothing from what is listed.
LEMMA SparesStep ==
    ASSUME Types, PassesApart, NEW n \in Nodes, NEW a \in Allocs,
           records[a] # NoIP, Listed(n, a), CleanStep(n)
    PROVE  /\ records'[a] = records[a]
           /\ units'[a] = units[a]
           /\ records[a] \in pool => records[a] \in pool'
<1> USE DEF Types, TypeOK, Listed, shared, vars
<1>1. PassApart(clean[n]) /\ clean[n] \in Pass
  BY DEF PassesApart
<1>2. CASE CleanStop(n)
  BY <1>1, <1>2 DEF CleanStop, PassApart, StopInstance
<1>3. CASE CleanRelease(n)
  <2>1. PICK b \in clean[n].cur : CleanReleaseIP(clean[n].recs[b])
    BY <1>3 DEF CleanRelease
  <2>2. b \in Allocs /\ nomad[b] = "gone"
    BY <1>1, <1>3 DEF CleanRelease, PassApart, Pass
  <2>3. clean[n].recs[b] # records[a]
    BY <2>2
  <2> QED
    BY <1>3, <2>1, <2>3 DEF CleanRelease, CleanReleaseIP
<1>4. CASE CleanDelete(n)
  BY <1>1, <1>4 DEF CleanDelete, PassApart, DeleteAllocationRecord
<1>5. CASE CleanOrphan(n)
  BY <1>1, <1>5 DEF CleanOrphan, PassApart, CleanReleaseIP
<1>6. CASE CleanStopUnit(n)
  BY <1>1, <1>6 DEF CleanStopUnit, PassApart
<1>7. CASE CleanForget(n) \/ CleanList(n) \/ CleanCheck(n) \/ CleanReadPool(n)
             \/ CleanListUnits(n) \/ CleanDone(n)
  BY <1>7 DEF CleanForget, CleanList, CleanCheck, CleanReadPool, CleanListUnits, CleanDone
<1> QED
  BY <1>2, <1>3, <1>4, <1>5, <1>6, <1>7 DEF CleanStep
-----------------------------------------------------------------------------
(* The restart of instances.                                               *)

\* What a step of a cleanup pass makes of it: a pass of an agent that starts
\* ends with the restart, and the others never come to it.
CleansOn(n) ==
    LET q == clean'[n] IN
    /\ q.pc \in {"off", "restart_list"} \cup CleanControl
    /\ q.pc # "off" /\ q.boot => clean[n].boot
    /\ q.pc = "restart_list" => q.boot
    /\ q.pc \in {"units", "forget", "restart_list"} => q.todo \subseteq Here(n)
    /\ q.pc = "forget" => q.cur \subseteq Here(n)

LEMMA CleanStepCleansOn ==
    ASSUME Types, NEW n \in Nodes, KeepsToItsNode(n), CleanBegins(n) \/ CleanStep(n)
    PROVE  CleansOn(n)
<1> DEFINE p == clean[n]
<1>p. p \in Pass /\ clean \in [Nodes -> Pass]
  BY DEF Types
<1>e. CleanEnds(n) => CleansOn(n)
  <2> SUFFICES ASSUME CleanEnds(n) PROVE CleansOn(n)
    OBVIOUS
  <2>1. CASE p.boot
    BY <1>p, <2>1 DEF CleansOn, CleanEnds, CleanBecomes, Off
  <2>2. CASE ~p.boot
    BY <1>p, <2>2 DEF CleansOn, CleanEnds, CleanBecomes, Off
  <2> QED
    BY <2>1, <2>2
<1>b. ASSUME NEW q, CleanBecomes(n, q) PROVE clean'[n] = q
  BY <1>p, <1>b DEF CleanBecomes
<1>1. CASE CleanBegins(n) \/ CleanStop(n) \/ CleanRelease(n)
  BY <1>p, <1>1 DEF CleanBegins, CleanStop, CleanRelease, CleanGoto, CleanBecomes,
     CleansOn, CleanControl, Pass
\* A step to l that is not about the lists.
<1>2. ASSUME NEW q, CleanBecomes(n, q), q.pc \in {"check", "stop", "orphans", "units", "forget"},
             q.boot = p.boot,
             q.pc = "units" => q.todo \subseteq Here(n),
             q.pc = "forget" => q.todo \subseteq Here(n) /\ q.cur \subseteq Here(n)
      PROVE  CleansOn(n)
  BY <1>b, <1>2, Zenon DEF CleansOn, CleanControl
<1>3. CASE CleanList(n)
  <2> DEFINE q == [p EXCEPT !.pc = "check", !.recs = records,
                            !.todo = {a \in Allocs : records[a] # NoIP}]
  <2>1. q.pc = "check" /\ q.boot = p.boot
    BY <1>p DEF Pass
  <2>2. CleanBecomes(n, q) \/ CleanEnds(n)
    BY <1>3 DEF CleanList
  <2> HIDE DEF q
  <2> QED
    BY <1>e, <1>2, <2>1, <2>2
<1>4. CASE CleanCheck(n)
  <2>1. PICK a : \/ CleanBecomes(n, [p EXCEPT !.pc = "stop", !.cur = {a}])
                 \/ CleanBecomes(n, [p EXCEPT !.todo = @ \ {a}])
    BY <1>4 DEF CleanCheck
  <2> DEFINE q == [p EXCEPT !.pc = "stop", !.cur = {a}]
             r == [p EXCEPT !.todo = @ \ {a}]
  <2>2. q.pc = "stop" /\ q.boot = p.boot /\ r.pc = "check" /\ r.boot = p.boot
    BY <1>p, <1>4 DEF Pass, CleanCheck
  <2> HIDE DEF q, r
  <2> QED
    BY <1>2, <2>1, <2>2 DEF q, r
<1>5. CASE CleanDelete(n)
  <2> DEFINE q == [p EXCEPT !.pc = "check", !.cur = {}, !.todo = @ \ p.cur,
                            !.cleaned = @ \cup p.cur]
  <2>1. q.pc = "check" /\ q.boot = p.boot
    BY <1>p DEF Pass
  <2>2. CleanBecomes(n, q)
    BY <1>5 DEF CleanDelete
  <2> HIDE DEF q
  <2> QED
    BY <1>2, <2>1, <2>2
<1>6. CASE CleanReadPool(n)
  <2> DEFINE q == [p EXCEPT !.pc = "orphans", !.orphans = pool \ {p.recs[a] : a \in Allocs}]
  <2>1. q.pc = "orphans" /\ q.boot = p.boot
    BY <1>p DEF Pass
  <2>2. CleanBecomes(n, q) \/ CleanEnds(n)
    BY <1>6 DEF CleanReadPool
  <2> HIDE DEF q
  <2> QED
    BY <1>e, <1>2, <2>1, <2>2
<1>7. CASE CleanOrphan(n)
  <2>1. PICK ip : CleanBecomes(n, [p EXCEPT !.orphans = @ \ {ip}])
    BY <1>7 DEF CleanOrphan
  <2> DEFINE q == [p EXCEPT !.orphans = @ \ {ip}]
  <2>2. q.pc = "orphans" /\ q.boot = p.boot
    BY <1>p, <1>7 DEF Pass, CleanOrphan
  <2> HIDE DEF q
  <2> QED
    BY <1>2, <2>1, <2>2 DEF q
<1>8. CASE CleanListUnits(n)
  <2> DEFINE S == {a \in Here(n) : /\ units[a] # NoIP
                                   /\ p.recs[a] = NoIP \/ a \in p.cleaned}
             q == [p EXCEPT !.pc = "units", !.todo = S]
  <2>1. q.pc = "units" /\ q.boot = p.boot /\ q.todo = S /\ S \subseteq Here(n)
    BY <1>p DEF Pass
  <2>2. CleanBecomes(n, q) \/ CleanEnds(n)
    BY <1>8 DEF CleanListUnits
  <2> HIDE DEF q, S
  <2> QED
    BY <1>e, <1>2, <2>1, <2>2
<1>9. CASE CleanStopUnit(n)
  <2>1. PICK a \in p.todo : \/ CleanBecomes(n, [p EXCEPT !.pc = "forget", !.cur = {a}])
                            \/ CleanBecomes(n, [p EXCEPT !.todo = @ \ {a}])
    BY <1>9 DEF CleanStopUnit
  <2> DEFINE q == [p EXCEPT !.pc = "forget", !.cur = {a}]
             r == [p EXCEPT !.todo = @ \ {a}]
  <2>2. p.todo \subseteq Here(n) /\ p.pc = "units"
    BY <1>9 DEF CleanStopUnit, KeepsToItsNode
  <2>3. /\ q.pc = "forget" /\ q.boot = p.boot /\ q.cur = {a} /\ q.todo = p.todo
        /\ r.pc = "units" /\ r.boot = p.boot /\ r.todo = p.todo \ {a}
    BY <1>p, <2>2 DEF Pass
  <2> HIDE DEF q, r
  <2>4. q.cur \subseteq Here(n) /\ q.todo \subseteq Here(n) /\ r.todo \subseteq Here(n)
    BY <2>2, <2>3
  <2> QED
    BY <1>2, <2>1, <2>3, <2>4 DEF q, r
<1>10. CASE CleanForget(n)
  <2> DEFINE q == [p EXCEPT !.pc = "units", !.cur = {}, !.todo = @ \ p.cur]
  <2>1. p.todo \subseteq Here(n)
    BY <1>10 DEF CleanForget, KeepsToItsNode
  <2>2. q.pc = "units" /\ q.boot = p.boot /\ q.todo = p.todo \ p.cur
    BY <1>p DEF Pass
  <2>3. CleanBecomes(n, q)
    BY <1>10 DEF CleanForget
  <2> HIDE DEF q
  <2>4. q.todo \subseteq Here(n)
    BY <2>1, <2>2
  <2> QED
    BY <1>2, <2>2, <2>3, <2>4
<1>11. CASE CleanDone(n)
  BY <1>e, <1>11 DEF CleanDone
<1> QED
  BY <1>1, <1>3, <1>4, <1>5, <1>6, <1>7, <1>8, <1>9, <1>10, <1>11 DEF CleanStep

\* A step of an agent leaves what is on the other nodes alone, and the records
\* of the allocations Nomad knows.
LEMMA AgentsKeepToTheirNodes ==
    ASSUME Types, NomadAnswers, PassesApart, NEW m \in Nodes, KeepsToItsNode(m),
           \/ CleanBegins(m) \/ AgentStep(m)
           \/ AgentStarts(m) \/ Stop(m) \/ Crash(m),
           NEW n \in Nodes \ {m}
    PROVE  /\ agent'[n] = agent[n] /\ clean'[n] = clean[n] /\ closing'[n] = closing[n]
           /\ UNCHANGED nomad
           /\ \A a \in Here(n) :
                 /\ a \in instances' <=> a \in instances
                 /\ units'[a] = units[a]
                 /\ nomad[a] # "gone" => records'[a] = records[a]
<1> USE DEF Types, TypeOK, vars, shared, CleanBecomes, CleanGoto
<1>h. Here(n) \cap Here(m) = {} /\ Here(m) \subseteq Allocs
  BY DEF Here
<1>p. clean[m] \in Pass /\ PassApart(clean[m])
  BY DEF PassesApart
<1>s. ASSUME NEW a \in Here(m), \/ StopInstance(a)
                                \/ \E ip : \/ StartInstance(a, ip)
                                           \/ StartInstanceFails(a, ip)
      PROVE  \A b \in Here(n) : /\ b \in instances' <=> b \in instances
                                /\ units'[b] = units[b]
  BY <1>h, <1>s DEF StopInstance, StartInstance, StartInstanceFails, Here
<1>1. CASE CleanBegins(m) \/ CleanList(m) \/ CleanCheck(m) \/ CleanReadPool(m)
             \/ CleanListUnits(m) \/ CleanDone(m)
  BY <1>1 DEF CleanBegins, CleanList, CleanCheck, CleanReadPool, CleanListUnits,
     CleanDone, CleanEnds
<1>2. CASE RestartList(m) \/ RestartFilter(m) \/ RestartCheck(m) \/ RestartDone(m)
  BY <1>2 DEF RestartList, RestartFilter, RestartCheck, RestartDone
<1>3. CASE CleanStop(m)
  <2>1. PICK a \in clean[m].cur :
           IF NodeOf[a] = m THEN StopInstance(a) ELSE UNCHANGED <<instances, units>>
    BY <1>3 DEF CleanStop
  <2>2. a \in Allocs
    BY <1>p DEF Pass
  <2> QED
    BY <1>3, <1>s, <2>1, <2>2 DEF CleanStop, Here
<1>4. CASE CleanRelease(m) \/ CleanOrphan(m)
  BY <1>4 DEF CleanRelease, CleanOrphan
<1>5. CASE CleanDelete(m)
  <2>1. PICK a \in clean[m].cur : DeleteAllocationRecord(a) \/ UNCHANGED records
    BY <1>5 DEF CleanDelete
  <2>2. nomad[a] = "gone"
    BY <1>p, <1>5 DEF PassApart, CleanDelete
  <2> QED
    BY <1>5, <2>1, <2>2 DEF CleanDelete, DeleteAllocationRecord, Here
<1>6. CASE CleanStopUnit(m) \/ CleanForget(m)
  BY <1>h, <1>6 DEF CleanStopUnit, CleanForget, KeepsToItsNode, Here
<1>7. CASE RestartStart(m)
  <2>1. PICK a \in clean[m].cur :
           StartInstance(a, clean[m].recs[a])
             \/ StartInstanceFails(a, clean[m].recs[a])
    BY <1>7 DEF RestartStart
  <2>2. a \in Here(m)
    BY <1>7, <2>1 DEF RestartStart, KeepsToItsNode, RestartControl
  <2> QED
    BY <1>7, <1>s, <2>1, <2>2 DEF RestartStart
<1>8. CASE StopAll(m)
  <2>1. PICK a \in closing[m] \cup (instances \cap Here(m)) :
           StopInstance(a) /\ closing' = [closing EXCEPT ![m] = @ \ {a}]
    BY <1>8 DEF StopAll
  <2>2. a \in Here(m)
    BY DEF KeepsToItsNode
  <2> QED
    BY <1>8, <1>s, <2>1, <2>2 DEF StopAll
<1>9. CASE AgentStarts(m) \/ Stop(m)
  BY <1>9 DEF AgentStarts, Stop
<1>10. CASE StopDone(m) \/ Crash(m)
  BY <1>h, <1>10 DEF StopDone, Crash, Exit
<1> QED
  BY <1>1, <1>2, <1>3, <1>4, <1>5, <1>6, <1>7, <1>8, <1>9, <1>10
     DEF AgentStep, CleanStep, RestartStep

\* A handler leaves what is on the other nodes alone.
LEMMA HandlersKeepToTheirNodes ==
    ASSUME Types, NEW r \in AddReqs \cup DelReqs, Handle(r),
           NEW a \in Allocs, ~Serving(NodeOf[a])
    PROVE  /\ a \in instances' <=> a \in instances
           /\ units'[a] = units[a] /\ records'[a] = records[a]
           /\ UNCHANGED nomad
<1> USE DEF Types, TypeOK, shared
<1>a. AllocOf[r] # a
  BY DEF Handle
<1>1. ASSUME r \in AddReqs, Add(r)
      PROVE  /\ a \in instances' <=> a \in instances
             /\ units'[a] = units[a] /\ records'[a] = records[a]
             /\ UNCHANGED nomad
  <2>1. CASE \/ AddMetadata(r) \/ AddCheck(r) \/ AddAllocate(r)
             \/ AddAllocateFails(r) \/ AddSign(r) \/ AddUndoRelease(r)
    BY <2>1 DEF AddMetadata, AddCheck, AddAllocate, AddAllocateFails, AddSign,
       AddUndoRelease
  <2>2. CASE AddStart(r) \/ AddUndoStop(r)
    BY <1>a, <2>2 DEF AddStart, AddUndoStop, StartInstance, StartInstanceFails,
       StopInstance
  <2>3. CASE AddStore(r) \/ AddStoreFails(r)
    BY <1>a, <2>3 DEF AddStore, AddStoreFails, StoreAllocationRecord
  <2> QED
    BY <1>1, <2>1, <2>2, <2>3 DEF Add
<1>2. ASSUME r \in DelReqs, Del(r)
      PROVE  /\ a \in instances' <=> a \in instances
             /\ units'[a] = units[a] /\ records'[a] = records[a]
             /\ UNCHANGED nomad
  BY <1>a, <1>2 DEF Del, DelLookup, DelStop, DelRelease, DelDelete, StopInstance,
     DeleteAllocationRecord
<1> QED
  BY <1>1, <1>2 DEF Handle

\* The restart brings back what it has listed.
LEMMA RestartStepRestores ==
    ASSUME Types, NomadAnswers, RestartsSucceed, NEW n \in Nodes, RestartStep(n),
           KeepsToItsNode(n), StartsEmpty(n), RestoresListed(n)
    PROVE  KeepsToItsNode(n)' /\ StartsEmpty(n)' /\ RestoresListed(n)'
<1> DEFINE p == clean[n]
<1>p. p \in Pass /\ clean \in [Nodes -> Pass] /\ Here(n) \subseteq Allocs
  BY DEF Types, Here
<1>r. p.pc \in RestartControl /\ p.boot /\ agent[n] # "down"
  BY DEF RestartStep, RestartList, RestartFilter, RestartCheck, RestartStart,
     RestartDone, StartsEmpty, RestartControl
<1>u. /\ UNCHANGED <<records, nomad, agent, closing>>
      /\ ~RestartStart(n) => UNCHANGED <<instances, units>>
  BY DEF RestartStep, RestartList, RestartFilter, RestartCheck, RestartStart,
     RestartDone, vars, shared
<1>c. {"restart_list", "restart_filter", "restart", "restart_start"} = RestartControl
      /\ RestartControl \cap CleanControl = {} /\ "off" \notin RestartControl
  BY DEF RestartControl, CleanControl
\* What there is to show of a pass q that goes on.
<1>g. ASSUME NEW q, CleanBecomes(n, q), q.pc \in {"restart_filter", "restart", "restart_start"},
             q.boot = p.boot, q.todo \subseteq Here(n),
             q.pc = "restart_start" => \E a \in q.todo : q.cur = {a},
             agent[n] = "up" => \A a \in Here(n) : nomad[a] = "running" =>
                /\ q.recs[a] = records[a]
                /\ a \in instances' => units'[a] = records[a]
                /\ records[a] # NoIP => a \in instances' \cup q.todo
      PROVE  KeepsToItsNode(n)' /\ StartsEmpty(n)' /\ RestoresListed(n)'
  <2>1. clean'[n] = q /\ q.boot
    BY <1>p, <1>r, <1>g, Zenon DEF CleanBecomes
  <2>2. KeepsToItsNode(n)'
    BY <1>u, <1>g, <2>1 DEF KeepsToItsNode, Here
  <2>3. StartsEmpty(n)'
    BY <1>c, <1>r, <1>u, <1>g, <2>1 DEF StartsEmpty
  <2>4. RestoresListed(n)'
    BY <1>u, <1>g, <2>1 DEF RestoresListed, Here
  <2> QED
    BY <2>2, <2>3, <2>4
<1>o. ASSUME CleanBecomes(n, Off)
      PROVE  KeepsToItsNode(n)' /\ StartsEmpty(n)' /\ RestoresListed(n)'
  <2>1. clean'[n].pc = "off"
    BY <1>p, <1>o, OffIsPass DEF CleanBecomes
  <2> QED
    BY <1>c, <1>r, <1>u, <2>1 DEF KeepsToItsNode, StartsEmpty, RestoresListed, Here,
       CleanControl
<1>1. CASE RestartList(n)
  <2> DEFINE S == {a \in Here(n) : records[a] # NoIP}
             q == [p EXCEPT !.pc = "restart_filter", !.recs = records, !.todo = S]
  <2>1. /\ q.pc = "restart_filter" /\ q.boot = p.boot /\ q.todo = S
        /\ q.recs = records
    BY <1>p DEF Pass
  <2>2. CleanBecomes(n, q) \/ CleanBecomes(n, Off)
    BY <1>1 DEF RestartList
  <2>3. agent[n] = "up" => Here(n) \cap instances = {}
    BY <1>1, <1>r DEF RestartList, StartsEmpty
  <2>4. instances' = instances
    BY <1>1, <1>u DEF RestartList, vars, shared
  <2>5. S \subseteq Here(n) /\ \A a \in Here(n) : records[a] # NoIP => a \in S
    OBVIOUS
  <2> HIDE DEF q, S
  <2> QED
    BY <1>g, <1>o, <2>1, <2>2, <2>3, <2>4, <2>5
<1>2. CASE RestartFilter(n)
  <2> DEFINE S == {a \in p.todo : nomad[a] = "running"}
             q == [p EXCEPT !.pc = "restart", !.todo = S]
  <2>1. q.pc = "restart" /\ q.boot = p.boot /\ q.todo = S /\ q.recs = p.recs
    BY <1>p DEF Pass
  <2>2. CleanBecomes(n, q) /\ p.pc = "restart_filter"
    BY <1>2 DEF RestartFilter, CleanerMayFail, NomadAnswers, RestartsSucceed
  <2>3. UNCHANGED <<instances, units>>
    BY <1>2, <1>u DEF RestartFilter, vars, shared
  <2>4. S \subseteq Here(n)
    BY <1>c, <2>2 DEF KeepsToItsNode
  <2>5. agent[n] = "up" => \A a \in Here(n) : nomad[a] = "running" =>
           /\ p.recs[a] = records[a]
           /\ a \in instances => units[a] = records[a]
           /\ records[a] # NoIP => a \in instances \cup S
    BY <2>2 DEF RestoresListed
  <2> HIDE DEF q, S
  <2> QED
    BY <1>g, <2>1, <2>2, <2>3, <2>4, <2>5
<1>3. CASE RestartCheck(n)
  <2>1. PICK a \in p.todo :
           \/ /\ a \in instances \/ nomad[a] # "running"
              /\ CleanBecomes(n, [p EXCEPT !.todo = @ \ {a}])
           \/ CleanBecomes(n, [p EXCEPT !.pc = "restart_start", !.cur = {a}])
    BY <1>3 DEF RestartCheck, CleanerMayFail, NomadAnswers, MayFail, RestartsSucceed
  <2> DEFINE q == [p EXCEPT !.todo = @ \ {a}]
             s == [p EXCEPT !.pc = "restart_start", !.cur = {a}]
  <2>2. p.pc = "restart" /\ p.todo \subseteq Here(n)
    BY <1>3, <1>c DEF RestartCheck, KeepsToItsNode
  <2>3. /\ q.pc = "restart" /\ q.boot = p.boot /\ q.todo = p.todo \ {a} /\ q.recs = p.recs
        /\ s.pc = "restart_start" /\ s.boot = p.boot /\ s.todo = p.todo /\ s.recs = p.recs
        /\ s.cur = {a}
    BY <1>p, <2>2 DEF Pass
  <2>4. UNCHANGED <<instances, units>>
    BY <1>3, <1>u DEF RestartCheck, vars, shared
  <2>5. agent[n] = "up" => \A b \in Here(n) : nomad[b] = "running" =>
           /\ p.recs[b] = records[b]
           /\ b \in instances => units[b] = records[b]
           /\ records[b] # NoIP => b \in instances \cup p.todo
    BY <2>2 DEF RestoresListed
  <2> HIDE DEF q, s
  <2>6. ASSUME CleanBecomes(n, q), a \in instances \/ nomad[a] # "running"
        PROVE  KeepsToItsNode(n)' /\ StartsEmpty(n)' /\ RestoresListed(n)'
    <3>1. q.todo \subseteq Here(n)
      BY <2>2, <2>3
    <3> QED
      BY <1>g, <2>3, <2>4, <2>5, <2>6, <3>1
  <2>7. ASSUME CleanBecomes(n, s)
        PROVE  KeepsToItsNode(n)' /\ StartsEmpty(n)' /\ RestoresListed(n)'
    BY <1>g, <2>2, <2>3, <2>4, <2>5, <2>7
  <2> QED
    BY <2>1, <2>6, <2>7 DEF q, s
<1>4. CASE RestartStart(n)
  <2>1. PICK a \in p.todo : p.cur = {a}
    BY <1>4 DEF RestartStart, KeepsToItsNode
  <2> DEFINE q == [p EXCEPT !.pc = "restart", !.cur = {}, !.todo = @ \ p.cur]
  <2>2. /\ CleanBecomes(n, q)
        /\ StartInstance(a, p.recs[a]) \/ StartInstanceFails(a, p.recs[a])
        /\ p.pc = "restart_start"
    BY <1>4, <2>1 DEF RestartStart
  <2>3. q.pc = "restart" /\ q.boot = p.boot /\ q.todo = p.todo \ {a} /\ q.recs = p.recs
    BY <1>p, <2>1 DEF Pass
  <2> HIDE DEF q
  <2>4. p.todo \subseteq Here(n) /\ a \in Allocs
    BY <1>c, <1>p, <2>2, <2>1 DEF KeepsToItsNode
  <2>5. /\ a \in instances' /\ (a \in instances => units' = units)
        /\ a \notin instances => units'[a] = p.recs[a]
        /\ \A b \in Allocs \ {a} : /\ b \in instances' <=> b \in instances
                                   /\ units'[b] = units[b]
    BY <2>2, <2>4 DEF StartInstance, StartInstanceFails, MayFail, RestartsSucceed,
       Types, TypeOK
  <2>6. agent[n] = "up" => \A b \in Here(n) : nomad[b] = "running" =>
           /\ p.recs[b] = records[b]
           /\ b \in instances => units[b] = records[b]
           /\ records[b] # NoIP => b \in instances \cup p.todo
    BY <2>2 DEF RestoresListed
  <2>7. q.todo \subseteq Here(n)
    BY <2>3, <2>4
  <2>8. agent[n] = "up" => \A b \in Here(n) : nomad[b] = "running" =>
           /\ p.recs[b] = records[b]
           /\ b \in instances' => units'[b] = records[b]
           /\ records[b] # NoIP => b \in instances' \cup q.todo
    BY <1>p, <2>3, <2>5, <2>6
  <2> QED
    BY <1>g, <2>2, <2>3, <2>7, <2>8
<1>5. CASE RestartDone(n)
  BY <1>5, <1>o DEF RestartDone
<1> QED
  BY <1>1, <1>2, <1>3, <1>4, <1>5 DEF RestartStep

\* The other steps of an agent.
LEMMA OwnStepKeepsRestart ==
    ASSUME Types, NEW n \in Nodes,
           \/ CleanBegins(n) \/ CleanStep(n) \/ StopAll(n) \/ StopDone(n)
           \/ AgentStarts(n) \/ Stop(n) \/ Crash(n),
           KeepsToItsNode(n), StartsEmpty(n), RestoresListed(n)
    PROVE  KeepsToItsNode(n)' /\ StartsEmpty(n)' /\ RestoresListed(n)'
<1> USE DEF Here
<1>c. /\ RestartControl = {"restart_list", "restart_filter", "restart", "restart_start"}
      /\ RestartControl \cap CleanControl = {} /\ "off" \notin RestartControl
      /\ "off" \notin CleanControl /\ {"list", "units", "forget"} \subseteq CleanControl
  BY DEF RestartControl, CleanControl
<1>p. clean[n] \in Pass /\ clean \in [Nodes -> Pass]
  BY DEF Types
<1>1. CASE CleanBegins(n) \/ CleanStep(n)
  <2>1. CleansOn(n)
    BY <1>1, CleanStepCleansOn
  <2>2. agent' = agent /\ closing' = closing
    BY <1>1, CallsTyped
  <2>3. /\ instances' \subseteq instances
        /\ agent[n] # "down"
        /\ clean[n].pc \in CleanControl \/ (clean[n].pc = "off" /\ ~clean[n].boot)
    <3>1. CASE CleanBegins(n)
      BY <3>1 DEF CleanBegins, Serving, vars, shared
    <3>2. CASE CleanStep(n)
      <4>1. clean[n].pc \in CleanControl
        BY <3>2 DEF CleanStep, CleanList, CleanCheck, CleanStop, CleanRelease,
           CleanDelete, CleanReadPool, CleanOrphan, CleanListUnits, CleanStopUnit,
           CleanForget, CleanDone, CleanControl
      <4>2. instances' \subseteq instances
        BY <3>2 DEF CleanStep, CleanList, CleanCheck, CleanStop, CleanRelease,
           CleanDelete, CleanReadPool, CleanOrphan, CleanListUnits, CleanStopUnit,
           CleanForget, CleanDone, StopInstance, vars, shared
      <4> QED
        BY <1>c, <4>1, <4>2 DEF StartsEmpty
    <3> QED
      BY <1>1, <3>1, <3>2
  <2>4. KeepsToItsNode(n)'
    BY <1>c, <2>1, <2>2 DEF KeepsToItsNode, CleansOn
  <2>5. StartsEmpty(n)'
    BY <1>c, <2>1, <2>2, <2>3 DEF StartsEmpty, CleansOn
  <2>6. RestoresListed(n)'
    BY <1>c, <2>1 DEF RestoresListed, CleansOn
  <2> QED
    BY <2>4, <2>5, <2>6
<1>2. CASE AgentStarts(n)
  <2>1. /\ clean'[n].pc = "list" /\ closing' = closing /\ instances' = instances
        /\ agent[n] = "down" /\ agent'[n] = "up"
    BY <1>p, <1>2, BootIsPass DEF AgentStarts, CleanBecomes, vars, shared, Types
  <2> QED
    BY <1>c, <2>1 DEF KeepsToItsNode, StartsEmpty, RestoresListed
<1>3. CASE Stop(n) \/ StopAll(n)
  <2>1. /\ clean' = clean /\ closing'[n] \subseteq closing[n] \cup Here(n)
        /\ agent'[n] = "stopping"
    BY <1>3 DEF Stop, StopAll, Types
  <2> QED
    BY <2>1 DEF KeepsToItsNode, StartsEmpty, RestoresListed
<1>4. CASE StopDone(n) \/ Crash(n)
  <2>1. /\ clean'[n].pc = "off" /\ closing'[n] = {}
        /\ Here(n) \cap instances' = {}
    BY <1>4, OffIsPass DEF StopDone, Crash, Exit, Types
  <2> QED
    BY <1>c, <2>1 DEF KeepsToItsNode, StartsEmpty, RestoresListed
<1> QED
  BY <1>1, <1>2, <1>3, <1>4

LEMMA RestartInvStep ==
    ASSUME Types, NomadAnswers, RestartsSucceed, PassesApart, RestartInv,
           [ClusterNext]_clusterVars
    PROVE  RestartInv'
<1> SUFFICES ASSUME NEW n \in Nodes
             PROVE  KeepsToItsNode(n)' /\ StartsEmpty(n)' /\ RestoresListed(n)'
  BY DEF RestartInv
<1>i. KeepsToItsNode(n) /\ StartsEmpty(n) /\ RestoresListed(n)
  BY DEF RestartInv
\* What leaves n's agent alone, and what is on the node where it does not serve.
<1>k. ASSUME agent'[n] = agent[n], clean'[n] = clean[n], closing'[n] = closing[n],
             ~Serving(n) => \A a \in Here(n) :
                /\ a \in instances' <=> a \in instances
                /\ units'[a] = units[a]
                /\ nomad'[a] = "running" =>
                      nomad[a] = "running" /\ records'[a] = records[a]
      PROVE  KeepsToItsNode(n)' /\ StartsEmpty(n)' /\ RestoresListed(n)'
  <2>1. KeepsToItsNode(n)'
    BY <1>i, <1>k DEF KeepsToItsNode, Here
  <2>2. agent[n] = "down" \/ clean[n].boot => ~Serving(n)
    BY DEF Serving
  <2>3. StartsEmpty(n)'
    BY <1>i, <1>k, <2>2 DEF StartsEmpty, Here
  <2>4. clean[n].pc \in {"restart_filter", "restart", "restart_start"} => ~Serving(n)
    BY <1>i, <2>2 DEF StartsEmpty, RestartControl
  <2>5. RestoresListed(n)'
    BY <1>i, <1>k, <2>4 DEF RestoresListed, Here
  <2> QED
    BY <2>1, <2>3, <2>5
<1>1. ASSUME NEW m \in Nodes, \/ CleanBegins(m) \/ AgentStep(m)
                             \/ AgentStarts(m) \/ Stop(m) \/ Crash(m)
      PROVE  KeepsToItsNode(n)' /\ StartsEmpty(n)' /\ RestoresListed(n)'
  <2>1. CASE m = n
    BY <1>1, <1>i, <2>1, RestartStepRestores, OwnStepKeepsRestart DEF AgentStep
  <2>2. CASE m # n
    <3>1. KeepsToItsNode(m)
      BY DEF RestartInv
    <3> QED
      BY <1>1, <1>k, <2>2, <3>1, AgentsKeepToTheirNodes
  <2> QED
    BY <2>1, <2>2
<1>2. ASSUME NEW r \in AddReqs \cup DelReqs, Handle(r)
      PROVE  KeepsToItsNode(n)' /\ StartsEmpty(n)' /\ RestoresListed(n)'
  <2>1. UNCHANGED cluster
    BY <1>2 DEF Handle
  <2>2. ASSUME ~Serving(n), NEW a \in Here(n)
        PROVE  /\ a \in instances' <=> a \in instances
               /\ units'[a] = units[a] /\ records'[a] = records[a]
               /\ UNCHANGED nomad
    <3>1. a \in Allocs /\ ~Serving(NodeOf[a])
      BY <2>2 DEF Here
    <3> QED
      BY <1>2, <3>1, HandlersKeepToTheirNodes
  <2> QED
    BY <1>k, <2>1, <2>2 DEF cluster
<1>3. CASE \/ \E d \in DelReqs : DelLost(d)
           \/ \E a \in Allocs : (TaskStops(a) \/ TaskForgotten(a)) /\ UNCHANGED cluster
           \/ UNCHANGED clusterVars
  <2>1. UNCHANGED <<shared, cluster>>
        /\ \A a \in Allocs : nomad'[a] = "running" => nomad[a] = "running"
    BY <1>3 DEF DelLost, TaskStops, TaskForgotten, clusterVars, vars, Types, TypeOK
  <2> QED
    BY <1>k, <2>1 DEF shared, cluster, Here
<1> QED
  BY <1>1, <1>2, <1>3 DEF ClusterNext

-----------------------------------------------------------------------------
\* Every variable of the agents keeps its type, and requests are in flight at
\* agents that listen only, with any failure, and however agents stop, die and
\* come back.
THEOREM ClusterTypesCorrect == ClusterSpec => []ClusterTypeOK
<1>1. ClusterInit => Types /\ Handled
  BY TypesInit DEF ClusterInit, Init, Handled, InFlight
<1>2. Types /\ Handled /\ [ClusterNext]_clusterVars => (Types /\ Handled)'
  BY TypesStep, HandledStep
<1>3. Types /\ Handled <=> ClusterTypeOK
  BY DEF Types, Handled, ClusterTypeOK
<1> QED
  BY <1>1, <1>2, <1>3, PTL DEF ClusterSpec

\* Where Nomad answers, what a pass is about to act on is apart from what it
\* has listed and Nomad knows.
THEOREM PassesStayApart == ASSUME NomadAnswers PROVE ClusterSpec => []PassesApart
<1>1. Types /\ PassesApart /\ [ClusterNext]_clusterVars => PassesApart'
  BY PassesApartStep
<1>2. ClusterTypeOK => Types
  BY DEF Types, ClusterTypeOK
<1> QED
  BY PassesApartInit, <1>1, <1>2, ClusterTypesCorrect, PTL DEF ClusterSpec

\* A cleanup pass takes neither record, nor unit, nor address of an allocation
\* it has listed and Nomad knows: for any number of nodes, passes side by
\* side, requests, crashes and failing calls, where Nomad answers.
THEOREM CleanupSparesTheListed ==
    ASSUME NomadAnswers PROVE ClusterSpec => CleanupSparesListed
<1> DEFINE Spares ==
      \A n \in Nodes, a \in Allocs :
          records[a] # NoIP /\ Listed(n, a) /\ CleanStep(n) =>
              /\ records'[a] = records[a]
              /\ units'[a] = units[a]
              /\ records[a] \in pool => records[a] \in pool'
<1>1. Types /\ PassesApart /\ [ClusterNext]_clusterVars => [Spares]_clusterVars
  BY SparesStep
<1>2. ClusterSpec => [][Spares]_clusterVars
  <2>1. ClusterTypeOK => Types
    BY DEF Types, ClusterTypeOK
  <2> QED
    BY <1>1, <2>1, ClusterTypesCorrect, PassesStayApart, PTL DEF ClusterSpec
<1> QED
  BY <1>2 DEF CleanupSparesListed

\* A restart that fails for no instance has restored, or still has on its list,
\* every record of a running task of its node.
THEOREM RestartsGoOn ==
    ASSUME NomadAnswers, RestartsSucceed PROVE ClusterSpec => []RestartInv
<1>1. ClusterInit => RestartInv
  BY OffIsPass DEF ClusterInit, RestartInv, KeepsToItsNode, StartsEmpty,
     RestoresListed, RestartControl, CleanControl
<1>2. Types /\ PassesApart /\ RestartInv /\ [ClusterNext]_clusterVars => RestartInv'
  BY RestartInvStep
<1>3. ClusterTypeOK => Types
  BY DEF Types, ClusterTypeOK
<1> QED
  BY <1>1, <1>2, <1>3, ClusterTypesCorrect, PassesStayApart, PTL DEF ClusterSpec

\* An agent that has come to listen has every instance of its node whose task
\* runs, with the address of its record: for any number of nodes, crashes,
\* cleanup passes beside the restart and failures of any call but those of
\* the restart itself.
THEOREM RestartsRestore ==
    ASSUME NomadAnswers, RestartsSucceed PROVE ClusterSpec => RestartRestores
<1> DEFINE Restores ==
      \A n \in Nodes, a \in Allocs :
          RestartDone(n) /\ agent[n] = "up"
              /\ a \in Here(n) /\ records[a] # NoIP /\ nomad[a] = "running"
          => units[a] = records[a] /\ a \in instances
<1>1. RestartInv /\ [ClusterNext]_clusterVars => [Restores]_clusterVars
  BY DEF RestartInv, RestoresListed, RestartDone
<1>2. ClusterSpec => [][Restores]_clusterVars
  BY <1>1, RestartsGoOn, PTL DEF ClusterSpec
<1> QED
  BY <1>2 DEF RestartRestores
=============================================================================
