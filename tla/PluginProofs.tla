----------------------------- MODULE PluginProofs -----------------------------
(***************************************************************************)
(* Proofs about Plugin for every set of allocations and requests: the      *)
(* plugin calls the handlers of Allocation and does nothing else to their  *)
(* state, so what is proved of them holds here; and, where the handlers    *)
(* keep what they acknowledge, an ADD that succeeded works.                *)
(***************************************************************************)
EXTENDS Plugin, AllocationProofs

USE RequestsAssumption

\* Every step of the plugin is a step of the handlers or none of theirs.
LEMMA PluginStepIsHandlerStep ==
    [PluginNext]_<<vars, plugin, overtook>> => [Next]_vars
BY DEF PluginNext, Next, CmdAdd, DelegateMacvlan, ApplyFirewall, SendAllocate,
   AddReturns, HandleAdd, CmdDel, DelReturns, DelegateMacvlanDel, HandleDel

\* The composition with the plugin is an execution of the handlers, so what
\* AllocationProofs shows of them holds of the whole.
THEOREM PluginCallsHandlers == PluginSpec => Spec
<1>1. PluginInit => Init
  BY DEF PluginInit
<1> QED
  BY <1>1, PluginStepIsHandlerStep, PTL DEF PluginSpec, Spec
-----------------------------------------------------------------------------
LEMMA PluginInvInit == PluginInit => PluginInv
BY DEF PluginInit, PluginInv, NetworkReady, PluginTypeOK, AddCniControl,
   DelCniControl, Over, macvlan, firewall

\* An answer is final.
LEMMA AnswerIsFinal ==
    ASSUME TypeOK, NEW r \in AddReqs, NEW s \in AddReqs, Add(s)
    PROVE  /\ addPc[r] = "ok" => addPc'[r] = "ok"
           /\ UNCHANGED nomad
<1> USE DEF TypeOK, AddGoto
<1>1. CASE AddMetadata(s) \/ AddCheck(s) \/ AddAllocate(s) \/ AddAllocateFails(s)
  BY <1>1 DEF AddMetadata, AddCheck, AddAllocate, AddAllocateFails
<1>2. CASE AddSign(s) \/ AddStart(s) \/ AddStore(s)
  BY <1>2 DEF AddSign, AddStart, AddStore
<1>3. CASE AddStoreFails(s) \/ AddUndoStop(s) \/ AddUndoRelease(s)
  BY <1>3 DEF AddStoreFails, AddUndoStop, AddUndoRelease
<1> QED
  BY <1>1, <1>2, <1>3 DEF Add

LEMMA PluginInvStep ==
    ASSUME TypeOK, PluginInv, [PluginNext]_<<vars, plugin, overtook>>
    PROVE  PluginInv'
<1> USE DEF PluginInv, NetworkReady, PluginTypeOK, AddCniControl, DelCniControl,
            Over, TypeOK, AddCni, DelCni, macvlan, firewall
<1>1. ASSUME NEW r \in AddReqs, CmdAdd(r) PROVE PluginInv'
  BY <1>1 DEF CmdAdd, vars, adds, network
<1>2. ASSUME NEW r \in AddReqs, DelegateMacvlan(r) PROVE PluginInv'
  <2>1. /\ UNCHANGED <<nomad, addPc, conf, delCni, filtered, warned, overtook>>
        /\ addCni[r] = "macvlan"
    BY <1>2 DEF DelegateMacvlan, vars, adds
  <2>2. PICK l \in {"firewall", "request", "failed"} :
           /\ addCni' = [addCni EXCEPT ![r] = l]
           /\ l = "request" => ~firewall
           /\ l # "failed" => AllocOf[r] \in ifaces'
    BY <1>2 DEF DelegateMacvlan
  <2>3. ifaces \subseteq ifaces' /\ ifaces' \subseteq Allocs
    BY <1>2 DEF DelegateMacvlan
  <2>4. PluginTypeOK'
    BY <2>1, <2>2, <2>3
  <2>5. ASSUME NEW s \in AddReqs PROVE NetworkReady(s)'
    BY <2>1, <2>2, <2>3
  <2> QED
    BY <2>1, <2>4, <2>5
<1>3. ASSUME NEW r \in AddReqs, ApplyFirewall(r) PROVE PluginInv'
  <2>1. /\ UNCHANGED <<nomad, addPc, conf, delCni, ifaces, warned, overtook>>
        /\ addCni[r] = "firewall"
        /\ \/ /\ filtered' = filtered \cup {AllocOf[r]}
              /\ addCni' = [addCni EXCEPT ![r] = "request"]
           \/ /\ UNCHANGED filtered
              /\ addCni' = [addCni EXCEPT ![r] = "failed"]
    BY <1>3 DEF ApplyFirewall, vars, adds
  <2>2. PluginTypeOK'
    BY <2>1
  <2>3. ASSUME NEW s \in AddReqs PROVE NetworkReady(s)'
    BY <2>1
  <2> QED
    BY <2>1, <2>2, <2>3
<1>4. ASSUME NEW r \in AddReqs, SendAllocate(r) \/ AddReturns(r) PROVE PluginInv'
  BY <1>4 DEF SendAllocate, AddReturns, vars, adds, network
<1>5. ASSUME NEW r \in AddReqs, HandleAdd(r) PROVE PluginInv'
  BY <1>5, AnswerIsFinal DEF HandleAdd, plugin, network
<1>6. ASSUME NEW d \in DelReqs, CmdDel(d) \/ DelReturns(d) PROVE PluginInv'
  BY <1>6 DEF CmdDel, DelReturns, vars, adds, network
<1>7. ASSUME NEW d \in DelReqs, DelegateMacvlanDel(d) PROVE PluginInv'
  BY <1>7 DEF DelegateMacvlanDel, vars, adds, network
<1>8. ASSUME NEW d \in DelReqs, HandleDel(d) PROVE PluginInv'
  <2>1. UNCHANGED <<nomad, adds>>
    BY <1>8 DEF HandleDel, Del, DelLookup, DelStop, DelRelease, DelDelete
  <2> QED
    BY <1>8, <2>1 DEF HandleDel, plugin, network, adds
<1>9. ASSUME NEW a \in Allocs, TaskStops(a) \/ TaskForgotten(a),
             UNCHANGED <<plugin, overtook>>
      PROVE  PluginInv'
  <2>1. /\ UNCHANGED <<addPc, plugin, overtook>>
        /\ \A b \in Allocs : nomad'[b] = "running" => nomad[b] = "running"
    BY <1>9 DEF TaskStops, TaskForgotten, adds
  <2> QED
    BY <2>1 DEF plugin, network
<1>10. CASE UNCHANGED <<vars, plugin, overtook>>
  BY <1>10 DEF vars, plugin, network, adds
<1> QED
  BY <1>1, <1>2, <1>3, <1>4, <1>5, <1>6, <1>7, <1>8, <1>9, <1>10 DEF PluginNext

\* While a task runs its network stays as its cmdAdd has set it up, with any
\* call of plugin or agent failing.
THEOREM PluginInvariance == PluginSpec => []PluginInv
<1>1. PluginSpec => []TypeOK
  BY PluginCallsHandlers, TypeCorrect, PTL
<1>2. TypeOK /\ PluginInv /\ [PluginNext]_<<vars, plugin, overtook>> => PluginInv'
  BY PluginInvStep
<1> QED
  BY PluginInvInit, <1>1, <1>2, PTL DEF PluginSpec

\* While the task runs, an ADD that Nomad was told has succeeded has record,
\* unit, address, interface and firewall, for every set of allocations and
\* however its ADDs and DELs are repeated or given up, where the handlers
\* keep what they acknowledge.
THEOREM AddedKeepsWorking ==
    ASSUME QuietFaults, OneDel PROVE PluginSpec => []AddedWorks
<1>1. PluginInv /\ SuccessBacked => AddedWorks
  BY DEF PluginInv, NetworkReady, SuccessBacked, AddedWorks
<1>2. PluginSpec => []SuccessBacked
  BY PluginCallsHandlers, SuccessIsBacked, PTL
<1> QED
  BY PluginInvariance, <1>1, <1>2, PTL
-----------------------------------------------------------------------------
(* The handlers of a calm allocation.                                      *)

LEMMA HandsFullStep == ASSUME TypeOK, HandsFull, [Next]_vars PROVE HandsFull'
<1> USE DEF HandsFull, InHand, TypeOK, AddGoto
<1>1. ASSUME NEW r \in AddReqs, AddAllocate(r) PROVE HandsFull'
  BY <1>1, LowestFreeIsFree DEF AddAllocate
<1>2. ASSUME NEW r \in AddReqs, \/ AddMetadata(r) \/ AddCheck(r) \/ AddAllocateFails(r)
                                \/ AddSign(r) \/ AddStart(r)
      PROVE  HandsFull'
  BY <1>2 DEF AddMetadata, AddCheck, AddAllocateFails, AddSign, AddStart
<1>3. ASSUME NEW r \in AddReqs, \/ AddStore(r) \/ AddStoreFails(r)
                                \/ AddUndoStop(r) \/ AddUndoRelease(r)
      PROVE  HandsFull'
  BY <1>3 DEF AddStore, AddStoreFails, AddUndoStop, AddUndoRelease
<1>4. ASSUME UNCHANGED adds PROVE HandsFull'
  BY <1>4 DEF adds
<1>5. ASSUME \/ \E d \in DelReqs : Del(d)
             \/ \E a \in Allocs : TaskStops(a) \/ TaskForgotten(a)
             \/ UNCHANGED vars
      PROVE  UNCHANGED adds
  BY <1>5 DEF Del, DelLookup, DelStop, DelRelease, DelDelete, TaskStops,
     TaskForgotten, vars
<1> QED
  BY <1>1, <1>2, <1>3, <1>4, <1>5 DEF Next, Add

\* The steps that are not about a.
LEMMA OthersKeepCalm ==
    ASSUME NEW a \in Allocs, OneStarter(a), DelsLast(a),
           records'[a] = records[a], a \in instances' <=> a \in instances,
           \A r \in AddReqs : AllocOf[r] = a =>
              addPc'[r] = addPc[r] /\ addIP'[r] = addIP[r],
           \A d \in DelReqs : AllocOf[d] = a =>
              delPc'[d] = delPc[d] /\ delIP'[d] = delIP[d]
    PROVE  OneStarter(a)' /\ DelsLast(a)'
<1>1. OneStarter(a)'
  BY DEF OneStarter, Starter, DelsIdle
<1>2. DelsLast(a)'
  BY DEF DelsLast, DelsIdle, AddRuns
<1> QED
  BY <1>1, <1>2

\* An ADD begins and goes on while the DELs wait.
LEMMA AddFindsDelsIdle ==
    ASSUME DelsWait, NEW r \in AddReqs, DelsLast(AllocOf[r]), Add(r)
    PROVE  DelsIdle(AllocOf[r])
<1> DEFINE a == AllocOf[r]
<1>1. CASE addPc[r] = "idle"
  <2>1. nomad[a] = "running"
    BY <1>1 DEF Add, AddMetadata, AddCheck, AddAllocate, AddAllocateFails, AddSign,
       AddStart, AddStore, AddStoreFails, AddUndoStop, AddUndoRelease
  <2> QED
    BY <2>1 DEF DelsWait, DelsIdle
<1>2. CASE addPc[r] # "idle"
  <2>1. addPc[r] \notin {"idle", "ok", "failed"}
    BY <1>2 DEF Add, AddMetadata, AddCheck, AddAllocate, AddAllocateFails, AddSign,
       AddStart, AddStore, AddStoreFails, AddUndoStop, AddUndoRelease
  <2> QED
    BY <2>1 DEF DelsLast, AddRuns
<1> QED
  BY <1>1, <1>2

\* The steps of an ADD for a that have not started its unit, or no longer
\* have.
LEMMA WithoutUnitKeepsCalm ==
    ASSUME TypeOK, NEW a \in Allocs, OneStarter(a), DelsIdle(a),
           NEW r \in AddReqs, AllocOf[r] = a,
           addPc[r] \notin {"store", "undo_stop", "ok"},
           addPc'[r] \notin {"store", "undo_stop", "ok"},
           \A s \in AddReqs \ {r} : addPc'[s] = addPc[s] /\ addIP'[s] = addIP[s],
           UNCHANGED <<records, instances, dels>>
    PROVE  OneStarter(a)' /\ DelsLast(a)'
<1>1. DelsIdle(a)'
  BY DEF DelsIdle, dels
<1>2. OneStarter(a)'
  BY <1>1 DEF OneStarter, Starter
<1>3. DelsLast(a)'
  BY <1>1 DEF DelsLast, DelsIdle
<1> QED
  BY <1>2, <1>3

LEMMA AddKeepsCalm ==
    ASSUME TypeOK, DelsWait, NEW r \in AddReqs, Add(r), NEW a \in Allocs,
           OneStarter(a), DelsLast(a)
    PROVE  OneStarter(a)' /\ DelsLast(a)'
<1> USE DEF TypeOK
<1>1. CASE AllocOf[r] # a
  <2>1. /\ records'[a] = records[a]
        /\ a \in instances' <=> a \in instances
        /\ \A s \in AddReqs \ {r} : addPc'[s] = addPc[s] /\ addIP'[s] = addIP[s]
        /\ UNCHANGED dels
    <3>1. CASE \/ AddMetadata(r) \/ AddCheck(r) \/ AddAllocate(r)
               \/ AddAllocateFails(r) \/ AddSign(r) \/ AddUndoRelease(r)
      BY <3>1 DEF AddMetadata, AddCheck, AddAllocate, AddAllocateFails, AddSign,
         AddUndoRelease, AddGoto, shared
    <3>2. CASE AddStart(r) \/ AddUndoStop(r)
      BY <1>1, <3>2 DEF AddStart, AddUndoStop, AddGoto, StartInstance,
         StartInstanceFails, StopInstance
    <3>3. CASE AddStore(r) \/ AddStoreFails(r)
      BY <1>1, <3>3 DEF AddStore, AddStoreFails, StoreAllocationRecord, AddGoto
    <3> QED
      BY <3>1, <3>2, <3>3 DEF Add
  <2> QED
    BY <1>1, <2>1, OthersKeepCalm DEF dels
<1>2. CASE AllocOf[r] = a
  <2>i. DelsIdle(a)
    BY <1>2, AddFindsDelsIdle
  <2>1. CASE \/ AddMetadata(r) \/ AddCheck(r) \/ AddAllocate(r)
             \/ AddAllocateFails(r) \/ AddSign(r) \/ AddUndoRelease(r)
             \/ AddStart(r) /\ StartInstanceFails(a, addIP[r])
    <3>1. /\ addPc[r] \notin {"store", "undo_stop", "ok"}
          /\ \A s \in AddReqs \ {r} : addPc'[s] = addPc[s] /\ addIP'[s] = addIP[s]
          /\ UNCHANGED <<records, instances, dels>>
      BY <1>2, <2>1 DEF AddMetadata, AddCheck, AddAllocate, AddAllocateFails,
         AddSign, AddUndoRelease, AddStart, StartInstance, StartInstanceFails,
         AddGoto, shared
    <3>2. addPc'[r] \notin {"store", "undo_stop", "ok"}
      BY <1>2, <2>1 DEF AddMetadata, AddCheck, AddAllocate, AddAllocateFails,
         AddSign, AddUndoRelease, AddStart, StartInstance, StartInstanceFails,
         AddGoto
    <3> QED
      BY <1>2, <2>i, <3>1, <3>2, WithoutUnitKeepsCalm
  <2>2. CASE AddStart(r) /\ StartInstance(a, addIP[r])
    <3>1. /\ addPc' = [addPc EXCEPT ![r] = "store"]
          /\ a \notin instances /\ instances' = instances \cup {a}
          /\ UNCHANGED <<records, addIP, delPc, delIP>>
      BY <1>2, <2>2 DEF AddStart, StartInstance, StartInstanceFails, AddGoto, dels
    <3>2. OneStarter(a)'
      BY <1>2, <2>i, <3>1 DEF OneStarter, Starter, DelsIdle
    <3>3. DelsLast(a)'
      BY <2>i, <3>1 DEF DelsLast, DelsIdle
    <3> QED
      BY <3>2, <3>3
  <2>3. CASE AddStore(r) \/ AddStoreFails(r)
    <3>1. /\ addPc[r] = "store"
          /\ \/ /\ addPc' = [addPc EXCEPT ![r] = "ok"]
                /\ records' = [records EXCEPT ![a] = addIP[r]]
             \/ addPc' = [addPc EXCEPT ![r] = "undo_stop"]
          /\ UNCHANGED <<instances, addIP, delPc, delIP>>
      BY <1>2, <2>3 DEF AddStore, AddStoreFails, StoreAllocationRecord, AddGoto, dels
    <3>2. OneStarter(a)'
      BY <1>2, <2>i, <3>1 DEF OneStarter, Starter, DelsIdle
    <3>3. DelsLast(a)'
      BY <2>i, <3>1 DEF DelsLast, DelsIdle
    <3> QED
      BY <3>2, <3>3
  <2>4. CASE AddUndoStop(r)
    <3>1. /\ addPc[r] = "undo_stop" /\ addPc' = [addPc EXCEPT ![r] = "undo_release"]
          /\ instances' = instances \ {a}
          /\ UNCHANGED <<records, addIP, delPc, delIP>>
      BY <1>2, <2>4 DEF AddUndoStop, StopInstance, AddGoto, dels
    <3>2. OneStarter(a)'
      BY <1>2, <2>i, <3>1 DEF OneStarter, Starter, DelsIdle
    <3>3. DelsLast(a)'
      BY <2>i, <3>1 DEF DelsLast, DelsIdle
    <3> QED
      BY <3>2, <3>3
  <2> QED
    BY <1>2, <2>1, <2>2, <2>3, <2>4 DEF Add, AddStart
<1> QED
  BY <1>1, <1>2

\* The last DEL of a calm allocation leaves nothing: it has deleted the
\* record, or found none, and a running instance has one.
LEMMA DelKeepsCalm ==
    ASSUME TypeOK, HandsFull, NEW d \in DelReqs, Del(d), NEW a \in Allocs,
           OneStarter(a), DelsLast(a),
           AllocOf[d] = a /\ delPc[d] = "idle" => ~AddRuns(a)
    PROVE  OneStarter(a)' /\ DelsLast(a)'
<1> USE DEF TypeOK
<1>1. /\ UNCHANGED <<addPc, addIP>>
      /\ \A e \in DelReqs \ {d} : delPc'[e] = delPc[e] /\ delIP'[e] = delIP[e]
      /\ delPc'[d] # "idle"
  BY DEF Del, DelLookup, DelStop, DelRelease, DelDelete, DelGoto, adds
<1>2. CASE AllocOf[d] # a
  <2>1. /\ records'[a] = records[a]
        /\ a \in instances' <=> a \in instances
    BY <1>2 DEF Del, DelLookup, DelStop, DelRelease, DelDelete, StopInstance,
       DeleteAllocationRecord, shared
  <2> QED
    BY <1>1, <1>2, <2>1, OthersKeepCalm
<1>3. CASE AllocOf[d] = a
  <2>r. ~AddRuns(a) /\ ~DelsIdle(a)' /\ ~AddRuns(a)'
    BY <1>1, <1>3 DEF DelsLast, DelsIdle, AddRuns, Del, DelLookup, DelStop,
       DelRelease, DelDelete
  <2>s. \A r \in AddReqs : AllocOf[r] = a => ~Starter(r) /\ ~Starter(r)'
    BY <2>r DEF AddRuns, Starter
  <2>i. a \in instances => records[a] # NoIP
    BY <2>s, NoIPAssumption DEF OneStarter, HandsFull
  <2>1. CASE DelLookup(d)
    <3>1. /\ UNCHANGED <<records, instances>>
          /\ \/ delPc'[d] = "ok" /\ records[a] = NoIP
             \/ delPc'[d] = "stop" /\ delIP'[d] = records[a]
             \/ delPc'[d] = "failed"
      BY <1>3, <2>1 DEF DelLookup, DelGoto, shared
    <3>2. OneStarter(a)'
      BY <1>1, <2>r, <2>s, <3>1 DEF OneStarter
    <3>3. DelsLast(a)'
      BY <1>1, <2>r, <2>i, <3>1 DEF DelsLast
    <3> QED
      BY <3>2, <3>3
  <2>2. CASE DelStop(d)
    <3>1. /\ delPc[d] = "stop" /\ delPc'[d] = "release" /\ delIP'[d] = delIP[d]
          /\ instances' = instances \ {a} /\ UNCHANGED records
      BY <1>3, <2>2 DEF DelStop, StopInstance, DelGoto
    <3>2. OneStarter(a)'
      BY <1>1, <2>r, <2>s, <3>1 DEF OneStarter
    <3>3. DelsLast(a)'
      BY <1>1, <2>r, <3>1 DEF DelsLast
    <3> QED
      BY <3>2, <3>3
  <2>3. CASE DelRelease(d)
    <3>1. /\ delPc[d] = "release" /\ delPc'[d] = "delete" /\ delIP'[d] = delIP[d]
          /\ UNCHANGED <<records, instances>>
      BY <1>3, <2>3 DEF DelRelease, DelGoto
    <3>2. OneStarter(a)'
      BY <1>1, <2>r, <2>s, <3>1 DEF OneStarter
    <3>3. DelsLast(a)'
      BY <1>1, <1>3, <2>r, <3>1 DEF DelsLast
    <3> QED
      BY <3>2, <3>3
  <2>4. CASE DelDelete(d)
    <3>1. /\ delPc[d] = "delete" /\ delPc'[d] \in {"ok", "failed"}
          /\ records'[a] \in {records[a], NoIP}
          /\ delPc'[d] = "ok" => records'[a] = NoIP
          /\ UNCHANGED instances
      BY <1>3, <2>4 DEF DelDelete, DeleteAllocationRecord, DelGoto
    <3>2. a \notin instances
      BY <1>3, <3>1 DEF DelsLast
    <3>3. OneStarter(a)'
      BY <1>1, <2>r, <2>s, <3>1, <3>2 DEF OneStarter
    <3>4. DelsLast(a)'
      BY <1>1, <2>r, <3>1, <3>2 DEF DelsLast
    <3> QED
      BY <3>3, <3>4
  <2> QED
    BY <2>1, <2>2, <2>3, <2>4 DEF Del
<1> QED
  BY <1>2, <1>3

LEMMA CalmInvInit == PluginInit => CalmInv
<1> SUFFICES ASSUME PluginInit PROVE CalmInv
  OBVIOUS
<1>1. /\ \A r \in AddReqs : addPc[r] = "idle"
      /\ \A d \in DelReqs : delPc[d] = "idle"
      /\ instances = {}
  BY DEF PluginInit, Init
<1>2. DelsWait /\ HandsFull
  BY <1>1 DEF DelsWait, HandsFull, InHand
<1>3. ASSUME NEW a \in Allocs PROVE OneStarter(a) /\ DelsLast(a)
  BY <1>1 DEF OneStarter, DelsLast, Starter, AddRuns
<1> QED
  BY <1>2, <1>3 DEF CalmInv

\* A step of the plugin, seen from the handlers.
LEMMA PluginStepKinds ==
    ASSUME [PluginNext]_<<vars, plugin, overtook>>
    PROVE  \/ UNCHANGED <<vars, overtook>>
           \/ \E r \in AddReqs : Add(r) /\ UNCHANGED overtook
           \/ \E d \in DelReqs : HandleDel(d)
           \/ /\ \E a \in Allocs : TaskStops(a) \/ TaskForgotten(a)
              /\ UNCHANGED <<shared, adds, dels, overtook>>
BY DEF PluginNext, CmdAdd, DelegateMacvlan, ApplyFirewall, SendAllocate,
   AddReturns, HandleAdd, CmdDel, DelReturns, DelegateMacvlanDel, TaskStops,
   TaskForgotten

LEMMA CalmInvStep ==
    ASSUME TypeOK, CalmInv, [PluginNext]_<<vars, plugin, overtook>>
    PROVE  CalmInv'
<1>1. DelsWait' /\ HandsFull'
  BY PluginStepIsHandlerStep, DelsWaitStep, HandsFullStep DEF CalmInv
<1>2. ASSUME NEW a \in Allocs, Calm(a)' PROVE OneStarter(a)' /\ DelsLast(a)'
  <2>1. CASE UNCHANGED <<vars, overtook>> \/ UNCHANGED <<shared, adds, dels, overtook>>
    <3>1. OneStarter(a) /\ DelsLast(a)
      BY <1>2, <2>1 DEF CalmInv, Calm
    <3> QED
      BY <2>1, <3>1, OthersKeepCalm DEF vars, shared, adds, dels
  <2>2. ASSUME NEW r \in AddReqs, Add(r), UNCHANGED overtook
        PROVE  OneStarter(a)' /\ DelsLast(a)'
    BY <1>2, <2>2, AddKeepsCalm DEF CalmInv, Calm
  <2>3. ASSUME NEW d \in DelReqs, HandleDel(d)
        PROVE  OneStarter(a)' /\ DelsLast(a)'
    <3>1. Calm(a) /\ (AllocOf[d] = a /\ delPc[d] = "idle" => ~AddRuns(a))
      BY <1>2, <2>3 DEF HandleDel, Calm
    <3> QED
      BY <2>3, <3>1, DelKeepsCalm DEF HandleDel, CalmInv
  <2> QED
    BY <2>1, <2>2, <2>3, PluginStepKinds
<1> QED
  BY <1>1, <1>2 DEF CalmInv

\* The ADDs and DELs of a calm allocation follow each other as they should,
\* whatever calls fail.
THEOREM CalmInvariance == PluginSpec => []CalmInv
<1>1. PluginSpec => []TypeOK
  BY PluginCallsHandlers, TypeCorrect, PTL
<1>2. TypeOK /\ CalmInv /\ [PluginNext]_<<vars, plugin, overtook>> => CalmInv'
  BY CalmInvStep
<1> QED
  BY CalmInvInit, <1>1, <1>2, PTL DEF PluginSpec
-----------------------------------------------------------------------------
(* No address is lost.                                                     *)

\* The steps of an ADD that lets no address go.
LEMMA HandKeepsOwned ==
    ASSUME NEW ip, Owned(ip), UNCHANGED <<records, dels>>,
           \A r \in AddReqs :
              \/ InHand(r)' /\ addIP'[r] = addIP[r]
              \/ addPc'[r] = addPc[r] /\ addIP'[r] = addIP[r]
              \/ ~InHand(r) /\ addPc[r] # "ok"
    PROVE  Owned(ip)'
BY DEF Owned, InHand, GivingBack, dels

\* A record that is written replaces nobody's address: while a handler of a
\* calm allocation has started its unit, no ADD for it has succeeded.
LEMMA StoreKeepsOwned ==
    ASSUME TypeOK, HandsFull, NEW ip \in Addrs, Owned(ip),
           NEW r \in AddReqs, AddStore(r) \/ AddStoreFails(r),
           OneStarter(AllocOf[r]), DelsLast(AllocOf[r])
    PROVE  Owned(ip)'
<1> DEFINE a == AllocOf[r]
<1> USE DEF TypeOK
<1>1. /\ addPc[r] = "store"
      /\ \/ /\ addPc' = [addPc EXCEPT ![r] = "ok"]
            /\ records' = [records EXCEPT ![a] = addIP[r]]
         \/ /\ addPc' = [addPc EXCEPT ![r] = "undo_stop"]
            /\ \A b \in Allocs \ {a} : records'[b] = records[b]
      /\ UNCHANGED <<addIP, delPc, delIP>>
  BY DEF AddStore, AddStoreFails, StoreAllocationRecord, AddGoto, dels
<1>2. \A s \in AddReqs : AllocOf[s] = a => addPc[s] # "ok"
  BY <1>1 DEF OneStarter, Starter
<1>3. DelsIdle(a)
  BY <1>1 DEF DelsLast, AddRuns
<1>4. ASSUME NEW s \in AddReqs, InHand(s), addIP[s] = ip PROVE Owned(ip)'
  <2>1. CASE s = r /\ addPc'[r] = "ok"
    BY <1>1, <1>3, <1>4, <2>1 DEF Owned, DelsIdle
  <2>2. CASE InHand(s)'
    BY <1>1, <1>4, <2>2 DEF Owned
  <2> QED
    BY <1>1, <1>4, <2>1, <2>2 DEF InHand
<1>5. ASSUME NEW s \in AddReqs, addPc[s] = "ok", addIP[s] = ip,
             records[AllocOf[s]] = ip,
             \A d \in DelReqs :
                AllocOf[d] = AllocOf[s] /\ delPc[d] = "delete" => delIP[d] # ip
      PROVE  Owned(ip)'
  <2>1. AllocOf[s] # a /\ s # r
    BY <1>2, <1>5
  <2>2. records'[AllocOf[s]] = ip /\ addPc'[s] = "ok"
    BY <1>1, <1>5, <2>1
  <2> QED
    BY <1>1, <1>5, <2>2 DEF Owned
<1>6. ASSUME NEW d \in DelReqs, GivingBack(d), delIP[d] = ip PROVE Owned(ip)'
  BY <1>1, <1>6 DEF Owned, GivingBack
<1> QED
  BY <1>4, <1>5, <1>6 DEF Owned

LEMMA AddKeepsPoolOwned ==
    ASSUME NothingLost, TypeOK, HandsFull, NEW r \in AddReqs, Add(r),
           OneStarter(AllocOf[r]), DelsLast(AllocOf[r]),
           \A ip \in pool : Owned(ip)
    PROVE  \A ip \in pool' : Owned(ip)'
<1> USE DEF TypeOK
<1>1. CASE AddMetadata(r) \/ AddCheck(r) \/ AddSign(r)
  BY <1>1, HandKeepsOwned
     DEF AddMetadata, AddCheck, AddSign, AddGoto, shared, InHand
<1>2. CASE AddAllocate(r)
  <2>1. PICK x \in Addrs :
        /\ pool' = pool \cup {x}
        /\ addIP' = [addIP EXCEPT ![r] = x]
        /\ addPc[r] = "allocate" /\ addPc' = [addPc EXCEPT ![r] = "sign"]
        /\ UNCHANGED <<records, dels>>
    BY <1>2, LowestFreeIsFree DEF AddAllocate, AddGoto
  <2>2. Owned(x)'
    BY <2>1 DEF Owned, InHand
  <2>3. ASSUME NEW ip \in pool PROVE Owned(ip)'
    BY <2>1, HandKeepsOwned DEF InHand
  <2> QED
    BY <2>1, <2>2, <2>3
<1>3. CASE AddAllocateFails(r)
  <2>1. /\ addPc[r] = "allocate" /\ addPc' = [addPc EXCEPT ![r] = "failed"]
        /\ UNCHANGED <<pool, records, addIP, dels>>
    BY <1>3 DEF AddAllocateFails, AddGoto, MayFail, NothingLost
  <2> QED
    BY <2>1, HandKeepsOwned DEF InHand
<1>4. CASE AddStart(r) \/ AddUndoStop(r)
  <2>1. /\ \E l \in {"store", "undo_release"} : addPc' = [addPc EXCEPT ![r] = l]
        /\ UNCHANGED <<pool, records, addIP, dels>>
    BY <1>4 DEF AddStart, AddUndoStop, AddGoto
  <2> QED
    BY <2>1, HandKeepsOwned DEF InHand
<1>5. CASE AddStore(r) \/ AddStoreFails(r)
  BY <1>5, StoreKeepsOwned DEF AddStore, AddStoreFails
<1>6. CASE AddUndoRelease(r)
  <2>1. /\ pool' = pool \ {addIP[r]}
        /\ addPc[r] = "undo_release" /\ addPc' = [addPc EXCEPT ![r] = "failed"]
        /\ addIP' = [addIP EXCEPT ![r] = NoIP]
        /\ UNCHANGED <<records, delPc, delIP>>
    BY <1>6 DEF AddUndoRelease, ReleaseIP, AddGoto, MayFail, NothingLost, dels
  <2>2. ASSUME NEW ip \in pool, ip # addIP[r] PROVE Owned(ip)'
    BY <2>1, <2>2 DEF Owned, InHand, GivingBack
  <2> QED
    BY <2>1, <2>2
<1> QED
  BY <1>1, <1>2, <1>3, <1>4, <1>5, <1>6 DEF Add

\* As AddKeepsPoolOwned, for a DEL: it has read the record before it gives the
\* address back, and deletes no other record.
LEMMA DelKeepsPoolOwned ==
    ASSUME NothingLost, TypeOK, HandsFull, NEW d \in DelReqs, Del(d),
           DelsLast(AllocOf[d]), \A ip \in pool : Owned(ip)
    PROVE  \A ip \in pool' : Owned(ip)'
<1> DEFINE a == AllocOf[d]
<1> USE DEF TypeOK
<1>1. CASE DelLookup(d)
  <2>1. /\ delPc[d] = "idle" /\ delPc'[d] \in {"ok", "stop", "failed"}
        /\ \A e \in DelReqs \ {d} : delPc'[e] = delPc[e] /\ delIP'[e] = delIP[e]
        /\ UNCHANGED <<pool, records, addPc, addIP>>
    BY <1>1 DEF DelLookup, DelGoto, shared, adds
  <2> QED
    BY <2>1 DEF Owned, InHand, GivingBack
<1>2. CASE DelStop(d)
  <2>1. /\ delPc[d] = "stop" /\ delPc' = [delPc EXCEPT ![d] = "release"]
        /\ UNCHANGED <<pool, records, addPc, addIP, delIP>>
    BY <1>2 DEF DelStop, DelGoto, adds
  <2> QED
    BY <2>1 DEF Owned, InHand, GivingBack
<1>3. CASE DelRelease(d)
  <2>1. /\ pool' = pool \ {delIP[d]}
        /\ delPc[d] = "release" /\ delPc' = [delPc EXCEPT ![d] = "delete"]
        /\ UNCHANGED <<records, addPc, addIP, delIP>>
    BY <1>3 DEF DelRelease, ReleaseIP, DelGoto, MayFail, NothingLost, adds
  <2> QED
    BY <2>1 DEF Owned, InHand, GivingBack
<1>4. CASE DelDelete(d)
  <2>1. /\ delPc[d] = "delete" /\ delPc'[d] \in {"ok", "failed"}
        /\ delIP' = [delIP EXCEPT ![d] = NoIP]
        /\ \A e \in DelReqs \ {d} : delPc'[e] = delPc[e]
        /\ \A b \in Allocs \ {a} : records'[b] = records[b]
        /\ UNCHANGED <<pool, addPc, addIP>>
    BY <1>4 DEF DelDelete, DeleteAllocationRecord, DelGoto, adds
  <2>2. records[a] \in {NoIP, delIP[d]}
    BY <2>1 DEF DelsLast
  <2>3. ASSUME NEW ip \in pool, NEW r \in AddReqs, addPc[r] = "ok", addIP[r] = ip,
               records[AllocOf[r]] = ip,
               \A e \in DelReqs :
                  AllocOf[e] = AllocOf[r] /\ delPc[e] = "delete" => delIP[e] # ip
        PROVE  Owned(ip)'
    <3>1. AllocOf[r] # a
      BY <2>1, <2>2, <2>3, NoIPAssumption
    <3> QED
      BY <2>1, <2>3, <3>1 DEF Owned
  <2>4. ASSUME NEW ip \in pool,
               \/ \E r \in AddReqs : InHand(r) /\ addIP[r] = ip
               \/ \E e \in DelReqs : GivingBack(e) /\ delIP[e] = ip
        PROVE  Owned(ip)'
    BY <2>1, <2>4 DEF Owned, InHand, GivingBack
  <2> QED
    BY <2>1, <2>3, <2>4 DEF Owned
<1> QED
  BY <1>1, <1>2, <1>3, <1>4 DEF Del

LEMMA PoolOwnedStep ==
    ASSUME NothingLost, TypeOK, CalmInv, PoolOwned,
           [PluginNext]_<<vars, plugin, overtook>>
    PROVE  PoolOwned'
<1> SUFFICES ASSUME overtook' = {} PROVE \A ip \in pool' : Owned(ip)'
  BY DEF PoolOwned
<1>1. CASE UNCHANGED <<vars, overtook>> \/ UNCHANGED <<shared, adds, dels, overtook>>
  BY <1>1 DEF PoolOwned, Owned, InHand, GivingBack, vars, shared, adds, dels
<1>2. ASSUME overtook = {}
      PROVE  /\ \A a \in Allocs : OneStarter(a) /\ DelsLast(a)
             /\ \A ip \in pool : Owned(ip)
  BY <1>2 DEF CalmInv, Calm, PoolOwned
<1>3. ASSUME NEW r \in AddReqs, Add(r), UNCHANGED overtook
      PROVE  \A ip \in pool' : Owned(ip)'
  BY <1>2, <1>3, AddKeepsPoolOwned DEF CalmInv
<1>4. ASSUME NEW d \in DelReqs, HandleDel(d)
      PROVE  \A ip \in pool' : Owned(ip)'
  <2>1. overtook = {} /\ Del(d)
    BY <1>4 DEF HandleDel
  <2> QED
    BY <1>2, <2>1, DelKeepsPoolOwned DEF CalmInv
<1> QED
  BY <1>1, <1>3, <1>4, PluginStepKinds

LEMMA PoolStaysOwned == ASSUME NothingLost PROVE PluginSpec => []PoolOwned
<1>1. PluginInit => PoolOwned
  BY DEF PluginInit, Init, PoolOwned
<1>2. TypeOK /\ CalmInv /\ PoolOwned /\ [PluginNext]_<<vars, plugin, overtook>>
      => PoolOwned'
  BY PoolOwnedStep
<1>3. PluginSpec => []TypeOK
  BY PluginCallsHandlers, TypeCorrect, PTL
<1> QED
  BY <1>1, <1>2, <1>3, CalmInvariance, PTL DEF PluginSpec

\* As long as no DEL found the handler of an ADD at work, no address leaks,
\* where no failing call of the pool loses one: for every set of allocations,
\* however their ADDs are repeated and their DELs fail.
THEOREM LeaksNeedOvertaking ==
    ASSUME NothingLost PROVE PluginSpec => []LeaksOnlyWhenOvertaken
<1>1. PoolOwned => LeaksOnlyWhenOvertaken
  BY DEF PoolOwned, LeaksOnlyWhenOvertaken, Owned, NoLeak
<1> QED
  BY <1>1, PoolStaysOwned, PTL
-----------------------------------------------------------------------------
(* A DEL that succeeded leaves nothing.                                    *)

LEMMA UnitsTrackedStep ==
    ASSUME SystemdObeys, TypeOK, HandsFull, UnitsTracked, [Next]_vars
    PROVE  UnitsTracked'
<1> USE DEF TypeOK, UnitsTracked
<1>1. ASSUME UNCHANGED <<instances, units>> PROVE UnitsTracked'
  BY <1>1
<1>2. ASSUME NEW a \in Allocs, StopInstance(a) PROVE UnitsTracked'
  BY <1>2 DEF StopInstance, SystemdObeys, MayFail
<1>3. ASSUME NEW r \in AddReqs, AddStart(r) PROVE UnitsTracked'
  <2>1. addIP[r] # NoIP
    BY <1>3, NoIPAssumption DEF AddStart, HandsFull, InHand
  <2>2. CASE StartInstance(AllocOf[r], addIP[r])
    BY <2>1, <2>2 DEF StartInstance
  <2>3. CASE StartInstanceFails(AllocOf[r], addIP[r])
    BY <2>3 DEF StartInstanceFails, SystemdObeys, MayFail
  <2> QED
    BY <1>3, <2>2, <2>3 DEF AddStart
<1>4. ASSUME NEW r \in AddReqs, Add(r) PROVE UnitsTracked'
  <2>1. CASE \/ AddMetadata(r) \/ AddCheck(r) \/ AddAllocate(r) \/ AddAllocateFails(r)
             \/ AddSign(r) \/ AddStore(r) \/ AddStoreFails(r) \/ AddUndoRelease(r)
    BY <1>1, <2>1 DEF AddMetadata, AddCheck, AddAllocate, AddAllocateFails,
       AddSign, AddStore, AddStoreFails, AddUndoRelease, shared
  <2>2. CASE AddUndoStop(r)
    BY <1>2, <2>2 DEF AddUndoStop
  <2> QED
    BY <1>3, <1>4, <2>1, <2>2 DEF Add
<1>5. ASSUME NEW d \in DelReqs, Del(d) PROVE UnitsTracked'
  <2>1. CASE DelLookup(d) \/ DelRelease(d) \/ DelDelete(d)
    BY <1>1, <2>1 DEF DelLookup, DelRelease, DelDelete, shared
  <2>2. CASE DelStop(d)
    BY <1>2, <2>2 DEF DelStop
  <2> QED
    BY <1>5, <2>1, <2>2 DEF Del
<1>6. ASSUME NEW a \in Allocs, TaskStops(a) \/ TaskForgotten(a) PROVE UnitsTracked'
  BY <1>1, <1>6 DEF TaskStops, TaskForgotten, shared
<1>7. CASE UNCHANGED vars
  BY <1>1, <1>7 DEF vars, shared
<1> QED
  BY <1>4, <1>5, <1>6, <1>7 DEF Next

LEMMA NetworkClearedStep ==
    ASSUME TypeOK, PluginInv, NetworkCleared,
           [PluginNext]_<<vars, plugin, overtook>>
    PROVE  NetworkCleared'
<1> USE DEF PluginInv, PluginTypeOK, NetworkCleared, AddCniControl,
            DelCniControl, Over, TypeOK, AddCni, DelCni, macvlan, firewall
<1>1. ASSUME NEW r \in AddReqs, CmdAdd(r) PROVE NetworkCleared'
  <2>1. /\ \E l \in {"macvlan", "request"} :
              /\ addCni' = [addCni EXCEPT ![r] = l]
              /\ l = "macvlan" => macvlan
        /\ \A d \in DelReqs : AllocOf[d] = AllocOf[r] => delCni[d] = "idle"
        /\ UNCHANGED <<delPc, conf, delCni, ifaces, warned>>
    BY <1>1 DEF CmdAdd, vars, dels, network
  <2> QED
    BY <2>1
<1>2. ASSUME NEW r \in AddReqs, DelegateMacvlan(r) PROVE NetworkCleared'
  <2>1. /\ addCni[r] = "macvlan" /\ macvlan
        /\ \E l \in {"firewall", "request", "failed"} :
              addCni' = [addCni EXCEPT ![r] = l]
        /\ ifaces' \subseteq ifaces \cup {AllocOf[r]}
        /\ UNCHANGED <<delPc, conf, delCni, warned>>
    BY <1>2 DEF DelegateMacvlan, vars, dels
  <2>2. \A d \in DelReqs : AllocOf[d] = AllocOf[r] => delCni[d] = "idle"
    BY <2>1
  <2> QED
    BY <2>1, <2>2
<1>3. ASSUME NEW r \in AddReqs, ApplyFirewall(r) \/ SendAllocate(r) \/ AddReturns(r)
      PROVE  NetworkCleared'
  <2>1. /\ addCni[r] \notin Over
        /\ \E l \in {"request", "wait", "ok", "failed", "gave_up"} :
              addCni' = [addCni EXCEPT ![r] = l]
        /\ UNCHANGED <<delPc, conf, delCni, ifaces, warned>>
    BY <1>3 DEF ApplyFirewall, SendAllocate, AddReturns, vars, dels, network
  <2> QED
    BY <2>1
<1>4. ASSUME NEW r \in AddReqs, HandleAdd(r) PROVE NetworkCleared'
  <2>1. UNCHANGED delPc
    BY <1>4 DEF HandleAdd, Add, AddMetadata, AddCheck, AddAllocate,
       AddAllocateFails, AddSign, AddStart, AddStore, AddStoreFails, AddUndoStop,
       AddUndoRelease, dels
  <2> QED
    BY <1>4, <2>1 DEF HandleAdd, plugin, network
<1>5. ASSUME NEW d \in DelReqs, CmdDel(d) PROVE NetworkCleared'
  <2>1. /\ \A r \in AddReqs : AllocOf[r] = AllocOf[d] => addCni[r] \in Over
        /\ delCni[d] = "idle"
        /\ \E l \in {"wait", "failed"} : delCni' = [delCni EXCEPT ![d] = l]
        /\ UNCHANGED <<delPc, conf, addCni, ifaces, warned>>
    BY <1>5 DEF CmdDel, Busy, vars, dels, network
  <2> QED
    BY <2>1
<1>6. ASSUME NEW d \in DelReqs, DelReturns(d) PROVE NetworkCleared'
  <2>1. /\ delCni[d] = "wait"
        /\ \/ delPc[d] = "ok" /\ macvlan /\ delCni' = [delCni EXCEPT ![d] = "macvlan"]
           \/ delPc[d] = "ok" /\ ~macvlan /\ delCni' = [delCni EXCEPT ![d] = "ok"]
           \/ \E l \in {"failed", "gave_up"} : delCni' = [delCni EXCEPT ![d] = l]
        /\ UNCHANGED <<delPc, conf, addCni, ifaces, warned>>
    BY <1>6 DEF DelReturns, vars, dels, network
  <2> QED
    BY <2>1
<1>7. ASSUME NEW d \in DelReqs, DelegateMacvlanDel(d) PROVE NetworkCleared'
  <2>1. /\ delCni[d] = "macvlan" /\ delCni' = [delCni EXCEPT ![d] = "ok"]
        /\ ifaces' \subseteq ifaces /\ warned \subseteq warned'
        /\ AllocOf[d] \notin ifaces' \/ d \in warned'
        /\ UNCHANGED <<delPc, conf, addCni>>
    BY <1>7 DEF DelegateMacvlanDel, vars, dels
  <2> QED
    BY <2>1
<1>8. ASSUME NEW d \in DelReqs, HandleDel(d) PROVE NetworkCleared'
  <2>1. \A e \in DelReqs : delPc[e] = "ok" => delPc'[e] = "ok"
    BY <1>8 DEF HandleDel, Del, DelLookup, DelStop, DelRelease, DelDelete, DelGoto
  <2> QED
    BY <1>8, <2>1 DEF HandleDel, plugin, network
<1>9. ASSUME NEW a \in Allocs, TaskStops(a) \/ TaskForgotten(a),
             UNCHANGED <<plugin, overtook>>
      PROVE  NetworkCleared'
  BY <1>9 DEF TaskStops, TaskForgotten, dels, plugin, network
<1>10. CASE UNCHANGED <<vars, plugin, overtook>>
  BY <1>10 DEF vars, dels, plugin, network
<1> QED
  BY <1>1, <1>2, <1>3, <1>4, <1>5, <1>6, <1>7, <1>8, <1>9, <1>10 DEF PluginNext

\* What Nomad can rely on when a cmdDel succeeds, whatever calls fail.
THEOREM NetworkIsCleared == PluginSpec => []NetworkCleared
<1>1. PluginInit => NetworkCleared
  BY DEF PluginInit, NetworkCleared, Over
<1>2. TypeOK /\ PluginInv /\ NetworkCleared /\ [PluginNext]_<<vars, plugin, overtook>>
      => NetworkCleared'
  BY NetworkClearedStep
<1>3. PluginSpec => []TypeOK
  BY PluginCallsHandlers, TypeCorrect, PTL
<1> QED
  BY <1>1, <1>2, <1>3, PluginInvariance, PTL DEF PluginSpec

LEMMA UnitsStayTracked == ASSUME SystemdObeys PROVE PluginSpec => []UnitsTracked
<1>1. PluginSpec => []TypeOK
  BY PluginCallsHandlers, TypeCorrect, PTL
<1>2. PluginInit => UnitsTracked
  BY DEF PluginInit, Init, UnitsTracked
<1>3. /\ TypeOK /\ CalmInv /\ UnitsTracked
      /\ [PluginNext]_<<vars, plugin, overtook>>
      => UnitsTracked'
  BY PluginStepIsHandlerStep, UnitsTrackedStep DEF CalmInv
<1> QED
  BY <1>1, <1>2, <1>3, CalmInvariance, PTL DEF PluginSpec

\* The whole invariant behind the results on DELs: owners of instances and
\* addresses, the order of DELs after ADDs, and the interface, where systemd
\* obeys and the pool loses nothing.
THEOREM DelInvariance ==
    ASSUME NothingLost, SystemdObeys PROVE PluginSpec => []DelInv
<1>1. CalmInv /\ PoolOwned /\ UnitsTracked /\ NetworkCleared => DelInv
  BY DEF DelInv
<1> QED
  BY <1>1, CalmInvariance, PoolStaysOwned, UnitsStayTracked, NetworkIsCleared, PTL

\* A DEL that Nomad was told has succeeded leaves no record, no instance, no
\* unit and, but for a warning, no interface of an allocation none of whose
\* DELs found the handler of an ADD at work, where systemd stops what it is
\* asked to stop: for every set of allocations, and however many ADDs and DELs
\* failed or were given up before.
THEOREM DelsLeaveNothing ==
    ASSUME SystemdObeys PROVE PluginSpec => []DelLeavesNothing
<1>1. CalmInv /\ UnitsTracked /\ NetworkCleared => DelLeavesNothing
  BY DEF CalmInv, Calm, DelsLast, UnitsTracked, NetworkCleared, DelLeavesNothing
<1> QED
  BY <1>1, UnitsStayTracked, CalmInvariance, NetworkIsCleared, PTL
=============================================================================
