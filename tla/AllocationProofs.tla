-------------------------- MODULE AllocationProofs --------------------------
(***************************************************************************)
(* Proofs about Allocation for every range of addresses and every set of   *)
(* allocations and requests: type correctness, and, where systemd obeys, a *)
(* failed Put has stored nothing and an allocation gets one DEL, that no   *)
(* two units have one address and that an ADD answered with success stays  *)
(* backed.                                                                 *)
(***************************************************************************)
EXTENDS Allocation, WellFoundedInduction, TLAPS

USE RangeAssumption, NoIPAssumption, RequestsAssumption, FaultsAssumption
-----------------------------------------------------------------------------
(* The next address.                                                       *)

\* A set of natural numbers that is not empty has a least element.
LEMMA LeastNumber ==
    ASSUME NEW S \in SUBSET Nat, S # {}
    PROVE  \E m \in S : \A n \in S : m <= n
<1> DEFINE R == {ss \in Nat \X Nat : ss[1] < ss[2]}
<1>1. IsWellFoundedOn(R, Nat)
  BY NatLessThanWellFounded, Zenon DEF OpToRel
<1>2. \A x, y \in Nat : x < y => <<x, y>> \in R
  OBVIOUS
<1> HIDE DEF R
<1>3. PICK m \in S : \A n \in S : ~ (<<n, m>> \in R)
  BY <1>1, WFMin
<1>4. \A n \in S : ~ (n < m)
  BY <1>2, <1>3
<1> QED
  BY <1>4

\* findNextAvailableIP returns an address of the range that is free.
LEMMA LowestFreeIsFree ==
    ASSUME NEW S, Free(S) # {}
    PROVE  LowestFree(S) \in Addrs /\ LowestFree(S) \notin S
<1>1. Free(S) \in SUBSET Nat
  BY RangeAssumption DEF Free, Addrs
<1>2. \E a \in Free(S) : \A b \in Free(S) : a <= b
  BY <1>1, LeastNumber
<1>3. LowestFree(S) \in Free(S)
  BY <1>2 DEF LowestFree
<1> QED
  BY <1>3 DEF Free
-----------------------------------------------------------------------------
(* Types.                                                                  *)

LEMMA TypeInit == Init => TypeOK
BY DEF Init, TypeOK, IPOrNone, AddControl, DelControl

LEMMA TypeStep == ASSUME TypeOK, [Next]_vars PROVE TypeOK'
<1> USE DEF TypeOK, IPOrNone, AddControl, DelControl, shared, adds, dels, vars,
            AddGoto, DelGoto
<1>1. ASSUME NEW ip, ReleaseIP(ip) PROVE pool' \subseteq Addrs
  BY <1>1 DEF ReleaseIP
<1>2. ASSUME NEW a \in Allocs,
             \/ StopInstance(a)
             \/ \E ip \in IPOrNone : StartInstance(a, ip) \/ StartInstanceFails(a, ip)
      PROVE  instances' \subseteq Allocs /\ units' \in [Allocs -> IPOrNone]
  BY <1>2 DEF StopInstance, StartInstanceFails, StartInstance
<1>3. ASSUME NEW r \in AddReqs, Add(r) PROVE TypeOK'
  <2>1. CASE AddMetadata(r) \/ AddCheck(r) \/ AddSign(r)
    BY <2>1 DEF AddMetadata, AddCheck, AddSign
  <2>2. CASE AddAllocate(r) \/ AddAllocateFails(r)
    BY <2>2, LowestFreeIsFree DEF AddAllocate, AddAllocateFails
  <2>3. CASE AddStart(r)
    BY <1>2, <2>3 DEF AddStart
  <2>4. CASE AddStore(r) \/ AddStoreFails(r)
    BY <2>4 DEF AddStore, AddStoreFails, StoreAllocationRecord
  <2>5. CASE AddUndoStop(r)
    BY <1>2, <2>5 DEF AddUndoStop
  <2>6. CASE AddUndoRelease(r)
    BY <1>1, <2>6 DEF AddUndoRelease
  <2> QED
    BY <1>3, <2>1, <2>2, <2>3, <2>4, <2>5, <2>6 DEF Add
<1>4. ASSUME NEW d \in DelReqs, Del(d) PROVE TypeOK'
  <2>1. CASE DelLookup(d)
    BY <2>1 DEF DelLookup
  <2>2. CASE DelStop(d)
    BY <1>2, <2>2 DEF DelStop
  <2>3. CASE DelRelease(d)
    BY <1>1, <2>3 DEF DelRelease
  <2>4. CASE DelDelete(d)
    BY <2>4 DEF DelDelete, DeleteAllocationRecord
  <2> QED
    BY <1>4, <2>1, <2>2, <2>3, <2>4 DEF Del
<1>5. ASSUME NEW a \in Allocs, TaskStops(a) \/ TaskForgotten(a) PROVE TypeOK'
  BY <1>5 DEF TaskStops, TaskForgotten
<1> QED
  BY <1>3, <1>4, <1>5 DEF Next

\* Every variable of the handlers keeps its type.
THEOREM TypeCorrect == Spec => []TypeOK
<1>1. TypeOK /\ [Next]_vars => TypeOK'
  BY TypeStep
<1> QED
  BY TypeInit, <1>1, PTL DEF Spec
-----------------------------------------------------------------------------
(* The inductive invariant.                                                *)

LEMMA InvInit == Init => IInv
<1> SUFFICES ASSUME Init PROVE IInv
  OBVIOUS
<1>1. TypeOK
  BY TypeInit
<1>2. DelsWait /\ UnitsTracked /\ SuccessBacked /\ StarterOwnsUnit
  BY DEF Init, DelsWait, UnitsTracked, SuccessBacked, StarterOwnsUnit
<1>3. HandsApart /\ GivingBackApart
  BY DEF Init, HandsApart, GivingBackApart, InHand, GivingBack
<1>4. ASSUME NEW a \in Allocs, NEW ip \in Addrs PROVE ~Claims(a, ip)
  BY DEF Init, Claims, InHand, GivingBack
<1> QED
  BY <1>1, <1>2, <1>3, <1>4 DEF IInv, ClaimsApart

\* Once nobody may act on a record, nobody ever will.
LEMMA RecordLiveFalls ==
    ASSUME TypeOK, [Next]_vars, NEW a \in Allocs, RecordLive(a)'
    PROVE  RecordLive(a)
<1> USE DEF TypeOK, shared, adds, dels, vars, AddGoto, DelGoto, RecordLive
<1>1. ASSUME NEW r \in AddReqs, Add(r) PROVE UNCHANGED <<nomad, dels>>
  BY <1>1 DEF Add, AddMetadata, AddCheck, AddAllocate, AddAllocateFails, AddSign,
     AddStart, AddStore, AddStoreFails, AddUndoStop, AddUndoRelease
<1>2. ASSUME NEW d \in DelReqs, Del(d)
      PROVE  /\ UNCHANGED nomad
             /\ \A e \in DelReqs : delPc'[e] = "idle" => delPc[e] = "idle"
  BY <1>2 DEF Del, DelLookup, DelStop, DelRelease, DelDelete
<1>3. ASSUME NEW b \in Allocs, TaskStops(b) \/ TaskForgotten(b)
      PROVE  /\ nomad'[a] = "running" => nomad[a] = "running"
             /\ UNCHANGED dels
  BY <1>3 DEF TaskStops, TaskForgotten
<1> QED
  BY <1>1, <1>2, <1>3 DEF Next

\* DELs go on waiting for the task.
LEMMA DelsWaitStep ==
    ASSUME TypeOK, DelsWait, [Next]_vars
    PROVE  DelsWait'
<1> USE DEF TypeOK, DelsWait, shared, adds, dels, vars, AddGoto, DelGoto
<1>1. ASSUME NEW r \in AddReqs, Add(r) PROVE UNCHANGED <<nomad, dels>>
  BY <1>1 DEF Add, AddMetadata, AddCheck, AddAllocate, AddAllocateFails, AddSign,
     AddStart, AddStore, AddStoreFails, AddUndoStop, AddUndoRelease
<1>2. ASSUME NEW d \in DelReqs, Del(d)
      PROVE  /\ UNCHANGED nomad
             /\ nomad[AllocOf[d]] # "running"
             /\ \A e \in DelReqs \ {d} : delPc'[e] = delPc[e]
  BY <1>2 DEF Del, DelLookup, DelStop, DelRelease, DelDelete
<1>3. ASSUME NEW b \in Allocs, TaskStops(b) \/ TaskForgotten(b)
      PROVE  /\ \A a \in Allocs : nomad'[a] = "running" => nomad[a] = "running"
             /\ UNCHANGED dels
  BY <1>3 DEF TaskStops, TaskForgotten
<1> QED
  BY <1>1, <1>2, <1>3 DEF Next

\* The steps that move no address: the claims stay as they are.
LEMMA QuietStep ==
    ASSUME IInv, TypeOK', DelsWait', UNCHANGED <<shared, addIP, dels>>,
           \A r \in AddReqs :
              /\ InHand(r)' <=> InHand(r)
              /\ addPc'[r] = "ok" => addPc[r] = "ok"
              /\ addPc'[r] \in {"store", "undo_stop"} =>
                    addPc[r] \in {"store", "undo_stop"}
              /\ addPc'[r] \in {"sign", "start", "undo_release"} =>
                    addPc[r] \in {"sign", "start", "undo_release"},
           \A a \in Allocs : nomad'[a] = "running" => nomad[a] = "running"
    PROVE  IInv'
<1> USE DEF IInv, TypeOK, shared, dels
<1>1. ASSUME NEW a \in Allocs, RecordLive(a)' PROVE RecordLive(a)
  BY <1>1 DEF RecordLive
<1>2. ASSUME NEW a \in Allocs, NEW ip \in Addrs, Claims(a, ip)'
      PROVE  Claims(a, ip)
  BY <1>1, <1>2 DEF Claims, GivingBack
<1>3. ClaimsApart'
  BY <1>2 DEF ClaimsApart
<1>4. UnitsTracked' /\ GivingBackApart'
  BY DEF UnitsTracked, GivingBackApart, GivingBack
<1>5. HandsApart'
  BY <1>1 DEF HandsApart
<1>6. StarterOwnsUnit' /\ SuccessBacked'
  BY DEF StarterOwnsUnit, SuccessBacked
<1> QED
  BY <1>3, <1>4, <1>5, <1>6
-----------------------------------------------------------------------------
(* The calls of handleAllocate.                                            *)

\* The new address is claimed by nobody, whoever gets it.
LEMMA NewAddressUnclaimed ==
    ASSUME IInv, Free(pool) # {}
    PROVE  /\ LowestFree(pool) \in Addrs
           /\ LowestFree(pool) \notin pool
           /\ \A a \in Allocs : ~Claims(a, LowestFree(pool))
BY LowestFreeIsFree DEF IInv, ClaimsApart

LEMMA AddAllocateStep ==
    ASSUME IInv, TypeOK', DelsWait', [Next]_vars,
           NEW r \in AddReqs, AddAllocate(r)
    PROVE  IInv'
<1> DEFINE x == LowestFree(pool)
           a == AllocOf[r]
<1>x. x \in Addrs /\ x \notin pool /\ \A b \in Allocs : ~Claims(b, x)
  BY NewAddressUnclaimed DEF AddAllocate
<1>e. /\ pool' = pool \cup {x}
      /\ addIP' = [addIP EXCEPT ![r] = x]
      /\ addPc[r] = "allocate" /\ addPc' = [addPc EXCEPT ![r] = "sign"]
      /\ UNCHANGED <<records, instances, units, nomad, delPc, delIP>>
  BY DEF AddAllocate, AddGoto, dels
<1> HIDE DEF x
<1> USE <1>x, <1>e DEF IInv, TypeOK
<1>1. ASSUME NEW b \in Allocs, RecordLive(b)' PROVE RecordLive(b)
  BY <1>1, RecordLiveFalls
<1>2. ASSUME NEW b \in Allocs, NEW ip \in Addrs, Claims(b, ip)'
      PROVE  Claims(b, ip) \/ (b = a /\ ip = x)
  BY <1>1, <1>2 DEF Claims, InHand, GivingBack
<1>3. ClaimsApart'
  BY <1>2 DEF ClaimsApart
<1>4. UnitsTracked'
  BY DEF UnitsTracked
<1>5. GivingBackApart'
  BY DEF GivingBackApart, GivingBack, InHand, Claims
<1>6. HandsApart'
  BY <1>1 DEF HandsApart, InHand, Claims
<1>7. StarterOwnsUnit' /\ SuccessBacked'
  BY DEF StarterOwnsUnit, SuccessBacked
<1> QED
  BY <1>3, <1>4, <1>5, <1>6, <1>7

LEMMA AddAllocateFailsStep ==
    ASSUME IInv, TypeOK', DelsWait', [Next]_vars,
           NEW r \in AddReqs, AddAllocateFails(r)
    PROVE  IInv'
<1>e. /\ pool \subseteq pool'
      /\ addPc[r] = "allocate" /\ addPc' = [addPc EXCEPT ![r] = "failed"]
      /\ UNCHANGED <<records, instances, units, nomad, addIP, delPc, delIP>>
  BY DEF AddAllocateFails, AddGoto, dels
<1> USE <1>e DEF IInv, TypeOK
<1>1. ASSUME NEW b \in Allocs, RecordLive(b)' PROVE RecordLive(b)
  BY <1>1, RecordLiveFalls
<1>2. ASSUME NEW b \in Allocs, NEW ip \in Addrs, Claims(b, ip)'
      PROVE  Claims(b, ip)
  BY <1>1, <1>2 DEF Claims, InHand, GivingBack
<1>3. ClaimsApart'
  BY <1>2 DEF ClaimsApart
<1>4. UnitsTracked' /\ GivingBackApart'
  BY DEF UnitsTracked, GivingBackApart, GivingBack, InHand
<1>5. HandsApart'
  BY <1>1 DEF HandsApart, InHand
<1>6. StarterOwnsUnit' /\ SuccessBacked'
  BY DEF StarterOwnsUnit, SuccessBacked
<1> QED
  BY <1>3, <1>4, <1>5, <1>6

\* The unit the handler starts gets the address it has in hand; the one a
\* failing StartInstance stops was in no map, hence not running.
LEMMA AddStartStep ==
    ASSUME QuietFaults, IInv, TypeOK', DelsWait', [Next]_vars,
           NEW r \in AddReqs, AddStart(r)
    PROVE  IInv'
<1> DEFINE a == AllocOf[r]
<1> USE DEF IInv, TypeOK
<1>e. /\ addPc[r] = "start"
      /\ UNCHANGED <<pool, records, nomad, addIP, delPc, delIP>>
  BY DEF AddStart, dels
<1>h. InHand(r) /\ addIP[r] \in Addrs
  BY <1>e DEF InHand, HandsApart
<1>1. ASSUME NEW b \in Allocs, RecordLive(b)' PROVE RecordLive(b)
  BY <1>1, RecordLiveFalls
<1>2. CASE StartInstance(a, addIP[r]) /\ AddGoto(r, "store")
  <2>e. /\ a \notin instances /\ units[a] = NoIP
        /\ instances' = instances \cup {a}
        /\ units' = [units EXCEPT ![a] = addIP[r]]
        /\ addPc' = [addPc EXCEPT ![r] = "store"]
    BY <1>2 DEF StartInstance, AddGoto, UnitsTracked
  <2> USE <1>e, <1>h, <2>e
  <2>1. ASSUME NEW b \in Allocs, NEW ip \in Addrs, Claims(b, ip)'
        PROVE  Claims(b, ip)
    BY <1>1, <2>1 DEF Claims, InHand, GivingBack
  <2>2. ClaimsApart'
    BY <2>1 DEF ClaimsApart
  <2>3. UnitsTracked'
    BY DEF UnitsTracked
  <2>4. GivingBackApart'
    BY DEF GivingBackApart, GivingBack, InHand
  <2>5. HandsApart'
    BY <1>1 DEF HandsApart, InHand
  <2>6. StarterOwnsUnit'
    BY DEF StarterOwnsUnit, HandsApart, InHand
  <2>7. SuccessBacked'
    BY DEF SuccessBacked
  <2> QED
    BY <2>2, <2>3, <2>4, <2>5, <2>6, <2>7
<1>3. CASE StartInstanceFails(a, addIP[r]) /\ AddGoto(r, "undo_release")
  <2>e. /\ addPc' = [addPc EXCEPT ![r] = "undo_release"]
        /\ UNCHANGED <<instances, units>>
    BY <1>3 DEF StartInstanceFails, AddGoto, UnitsTracked, QuietFaults, MayFail
  <2>1. ASSUME NEW s \in AddReqs
        PROVE  /\ InHand(s)' <=> InHand(s)
               /\ addPc'[s] = "ok" => addPc[s] = "ok"
               /\ addPc'[s] \in {"store", "undo_stop"} =>
                     addPc[s] \in {"store", "undo_stop"}
               /\ addPc'[s] \in {"sign", "start", "undo_release"} =>
                     addPc[s] \in {"sign", "start", "undo_release"}
    BY <1>e, <2>e DEF InHand
  <2> QED
    BY <1>e, <2>e, <2>1, QuietStep DEF shared, dels
<1> QED
  BY <1>2, <1>3 DEF AddStart

\* The record takes the address over from the hand of the handler, which is
\* the one that started the unit.
LEMMA AddStoreStep ==
    ASSUME IInv, TypeOK', DelsWait', [Next]_vars, NEW r \in AddReqs, AddStore(r)
    PROVE  IInv'
<1> DEFINE a == AllocOf[r]
<1> USE DEF IInv, TypeOK
<1>e. /\ addPc[r] = "store" /\ addPc' = [addPc EXCEPT ![r] = "ok"]
      /\ records' = [records EXCEPT ![a] = addIP[r]]
      /\ UNCHANGED <<pool, instances, units, nomad, addIP, delPc, delIP>>
  BY DEF AddStore, StoreAllocationRecord, AddGoto, dels
<1>h. InHand(r) /\ addIP[r] \in Addrs /\ addIP[r] \in pool
  BY <1>e DEF InHand, HandsApart, ClaimsApart, Claims
<1> USE <1>e, <1>h
<1>1. ASSUME NEW b \in Allocs, RecordLive(b)' PROVE RecordLive(b)
  BY <1>1, RecordLiveFalls
<1>2. ASSUME NEW b \in Allocs, NEW ip \in Addrs, Claims(b, ip)'
      PROVE  Claims(b, ip)
  BY <1>1, <1>2 DEF Claims, InHand, GivingBack
<1>3. ClaimsApart'
  BY <1>2 DEF ClaimsApart
<1>4. UnitsTracked' /\ GivingBackApart'
  BY DEF UnitsTracked, GivingBackApart, GivingBack, InHand
<1>5. HandsApart'
  BY <1>1 DEF HandsApart, InHand
<1>6. StarterOwnsUnit'
  BY DEF StarterOwnsUnit
<1>7. SuccessBacked'
  <2>1. ASSUME nomad[a] = "running" PROVE units[a] = addIP[r] /\ a \in instances
    BY <2>1 DEF StarterOwnsUnit, UnitsTracked
  <2>2. ASSUME NEW s \in AddReqs, AllocOf[s] = a, addPc[s] = "ok",
               nomad[a] = "running"
        PROVE  FALSE
    BY <2>1, <2>2 DEF SuccessBacked, HandsApart, RecordLive
  <2> QED
    BY <2>1, <2>2 DEF SuccessBacked
<1> QED
  BY <1>3, <1>4, <1>5, <1>6, <1>7

\* StopInstance leaves no unit, when systemd obeys.
LEMMA StopInstanceStops ==
    ASSUME QuietFaults, UnitsTracked, TypeOK, NEW a \in Allocs, StopInstance(a)
    PROVE  /\ instances' = instances \ {a}
           /\ units' = [units EXCEPT ![a] = NoIP]
BY DEF QuietFaults, UnitsTracked, TypeOK, StopInstance, MayFail

LEMMA AddUndoStopStep ==
    ASSUME QuietFaults, IInv, TypeOK', DelsWait', [Next]_vars,
           NEW r \in AddReqs, AddUndoStop(r)
    PROVE  IInv'
<1> DEFINE a == AllocOf[r]
<1> USE DEF IInv, TypeOK
<1>e. /\ addPc[r] = "undo_stop" /\ addPc' = [addPc EXCEPT ![r] = "undo_release"]
      /\ instances' = instances \ {a}
      /\ units' = [units EXCEPT ![a] = NoIP]
      /\ UNCHANGED <<pool, records, nomad, addIP, delPc, delIP>>
  BY StopInstanceStops DEF AddUndoStop, AddGoto, dels
<1>h. InHand(r) /\ addIP[r] \in Addrs
  BY <1>e DEF InHand, HandsApart
<1> USE <1>e, <1>h
<1>1. ASSUME NEW b \in Allocs, RecordLive(b)' PROVE RecordLive(b)
  BY <1>1, RecordLiveFalls
<1>2. ASSUME NEW b \in Allocs, NEW ip \in Addrs, Claims(b, ip)'
      PROVE  Claims(b, ip)
  BY <1>1, <1>2 DEF Claims, InHand, GivingBack
<1>3. ClaimsApart'
  BY <1>2 DEF ClaimsApart
<1>4. UnitsTracked' /\ GivingBackApart'
  BY DEF UnitsTracked, GivingBackApart, GivingBack, InHand
<1>5. HandsApart'
  BY <1>1 DEF HandsApart, InHand
<1>6. StarterOwnsUnit'
  BY DEF StarterOwnsUnit, HandsApart, InHand
<1>7. SuccessBacked'
  <2>1. ASSUME nomad[a] = "running", NEW s \in AddReqs, AllocOf[s] = a,
               addPc[s] = "ok"
        PROVE  FALSE
    BY <2>1 DEF StarterOwnsUnit, SuccessBacked, HandsApart, RecordLive
  <2> QED
    BY <2>1 DEF SuccessBacked
<1> QED
  BY <1>3, <1>4, <1>5, <1>6, <1>7

\* A running, answered allocation claims its address.
LEMMA SuccessClaims ==
    ASSUME TypeOK, SuccessBacked, NEW r \in AddReqs, addPc[r] = "ok",
           nomad[AllocOf[r]] = "running"
    PROVE  addIP[r] \in Addrs /\ Claims(AllocOf[r], addIP[r])
BY DEF TypeOK, IPOrNone, SuccessBacked, Claims

LEMMA AddUndoReleaseStep ==
    ASSUME IInv, TypeOK', DelsWait', [Next]_vars,
           NEW r \in AddReqs, AddUndoRelease(r)
    PROVE  IInv'
<1> DEFINE a == AllocOf[r]
           x == addIP[r]
<1> USE DEF IInv, TypeOK
<1>e. /\ addPc[r] = "undo_release" /\ addPc' = [addPc EXCEPT ![r] = "failed"]
      /\ pool \ {x} \subseteq pool' /\ pool' \subseteq pool
      /\ addIP' = [addIP EXCEPT ![r] = NoIP]
      /\ UNCHANGED <<records, instances, units, nomad, delPc, delIP>>
  BY DEF AddUndoRelease, ReleaseIP, AddGoto, dels
<1>h. InHand(r) /\ x \in Addrs /\ Claims(a, x) /\ units[a] # x
  BY <1>e DEF InHand, HandsApart, Claims
<1>1. ASSUME NEW b \in Allocs, RecordLive(b)' PROVE RecordLive(b)
  BY <1>1, RecordLiveFalls
<1>2. ASSUME NEW b \in Allocs, NEW ip \in Addrs, Claims(b, ip)'
      PROVE  Claims(b, ip) /\ ip # x
  <2>1. Claims(b, ip)
    BY <1>1, <1>2, <1>e DEF Claims, InHand, GivingBack
  <2>2. ASSUME b = a, ip = x PROVE FALSE
    BY <1>1, <1>2, <2>2, <1>e, <1>h
       DEF Claims, InHand, GivingBack, HandsApart, GivingBackApart
  <2> QED
    BY <1>h, <2>1, <2>2 DEF ClaimsApart
<1>3. ClaimsApart'
  BY <1>2, <1>e DEF ClaimsApart
<1>4. UnitsTracked' /\ GivingBackApart'
  BY <1>e DEF UnitsTracked, GivingBackApart, GivingBack, InHand
<1>5. HandsApart'
  BY <1>1, <1>e DEF HandsApart, InHand
<1>6. StarterOwnsUnit'
  BY <1>e DEF StarterOwnsUnit
<1>7. SuccessBacked'
  <2>1. ASSUME NEW s \in AddReqs, addPc[s] = "ok", nomad[AllocOf[s]] = "running"
        PROVE  addIP[s] \in pool'
    <3>1. addIP[s] \in Addrs /\ Claims(AllocOf[s], addIP[s])
      BY <2>1, SuccessClaims
    <3>2. AllocOf[s] = a => records[a] # x
      BY <1>h, <2>1 DEF HandsApart, RecordLive
    <3>3. addIP[s] # x
      BY <1>h, <2>1, <3>1, <3>2 DEF ClaimsApart, SuccessBacked
    <3> QED
      BY <1>e, <3>1, <3>3 DEF ClaimsApart
  <2> QED
    BY <1>e, <2>1 DEF SuccessBacked
<1> QED
  BY <1>3, <1>4, <1>5, <1>6, <1>7
-----------------------------------------------------------------------------
(* The calls of handleDeallocate.                                          *)

\* The address moves from the record, which this DEL was the last to need,
\* to the hand of the DEL.
LEMMA DelLookupStep ==
    ASSUME IInv, TypeOK', DelsWait', [Next]_vars, NEW d \in DelReqs, DelLookup(d)
    PROVE  IInv'
<1> DEFINE a == AllocOf[d]
<1> USE DEF IInv, TypeOK
<1>e. /\ delPc[d] = "idle" /\ nomad[a] # "running"
      /\ \E l \in {"ok", "stop", "failed"} :
            /\ delPc' = [delPc EXCEPT ![d] = l]
            /\ IF l = "stop"
               THEN /\ records[a] # NoIP
                    /\ delIP' = [delIP EXCEPT ![d] = records[a]]
               ELSE delIP' = delIP
      /\ UNCHANGED <<pool, records, instances, units, nomad, addPc, addIP>>
  BY DEF DelLookup, DelGoto, shared, adds
<1>h. RecordLive(a)
  BY <1>e DEF RecordLive
<1>1. ASSUME NEW b \in Allocs, RecordLive(b)' PROVE RecordLive(b)
  BY <1>1, RecordLiveFalls
<1>2. ASSUME NEW b \in Allocs, NEW ip \in Addrs, Claims(b, ip)'
      PROVE  Claims(b, ip)
  BY <1>1, <1>2, <1>e, <1>h DEF Claims, InHand, GivingBack
<1>3. ClaimsApart'
  BY <1>2, <1>e DEF ClaimsApart
<1>4. UnitsTracked'
  BY <1>e DEF UnitsTracked
<1>5. GivingBackApart'
  BY <1>e, <1>h DEF GivingBackApart, GivingBack, HandsApart, InHand, IPOrNone
<1>6. HandsApart'
  BY <1>1, <1>e DEF HandsApart, InHand
<1>7. StarterOwnsUnit' /\ SuccessBacked'
  BY <1>e DEF StarterOwnsUnit, SuccessBacked
<1> QED
  BY <1>3, <1>4, <1>5, <1>6, <1>7

LEMMA DelStopStep ==
    ASSUME QuietFaults, IInv, TypeOK', DelsWait', [Next]_vars,
           NEW d \in DelReqs, DelStop(d)
    PROVE  IInv'
<1> DEFINE a == AllocOf[d]
<1> USE DEF IInv, TypeOK
<1>e. /\ delPc[d] = "stop" /\ delPc' = [delPc EXCEPT ![d] = "release"]
      /\ instances' = instances \ {a}
      /\ units' = [units EXCEPT ![a] = NoIP]
      /\ UNCHANGED <<pool, records, nomad, addPc, addIP, delIP>>
  BY StopInstanceStops DEF DelStop, DelGoto, adds
<1>h. nomad[a] # "running"
  BY <1>e DEF DelsWait
<1> USE <1>e, <1>h
<1>1. ASSUME NEW b \in Allocs, RecordLive(b)' PROVE RecordLive(b)
  BY <1>1, RecordLiveFalls
<1>2. ASSUME NEW b \in Allocs, NEW ip \in Addrs, Claims(b, ip)'
      PROVE  Claims(b, ip)
  BY <1>1, <1>2 DEF Claims, InHand, GivingBack
<1>3. ClaimsApart'
  BY <1>2 DEF ClaimsApart
<1>4. UnitsTracked'
  BY DEF UnitsTracked
<1>5. GivingBackApart'
  BY DEF GivingBackApart, GivingBack, InHand
<1>6. HandsApart'
  BY <1>1 DEF HandsApart, InHand
<1>7. StarterOwnsUnit' /\ SuccessBacked'
  BY DEF StarterOwnsUnit, SuccessBacked
<1> QED
  BY <1>3, <1>4, <1>5, <1>6, <1>7

\* Nobody else is left with the address: the unit is stopped, the requests in
\* flight have others, and no other DEL will come for the record.
LEMMA DelReleaseStep ==
    ASSUME OneDel, IInv, TypeOK', DelsWait', [Next]_vars,
           NEW d \in DelReqs, DelRelease(d)
    PROVE  IInv'
<1> DEFINE a == AllocOf[d]
           x == delIP[d]
<1> USE DEF IInv, TypeOK
<1>e. /\ delPc[d] = "release" /\ delPc' = [delPc EXCEPT ![d] = "delete"]
      /\ pool \ {x} \subseteq pool' /\ pool' \subseteq pool
      /\ UNCHANGED <<records, instances, units, nomad, addPc, addIP, delIP>>
  BY DEF DelRelease, ReleaseIP, DelGoto, adds
<1>h. GivingBack(d) /\ x \in Addrs /\ Claims(a, x) /\ units[a] # x
  BY <1>e DEF GivingBack, GivingBackApart, Claims
<1>r. ~RecordLive(a)
  BY <1>e DEF RecordLive, DelsWait, OneDel
<1>1. ASSUME NEW b \in Allocs, RecordLive(b)' PROVE RecordLive(b)
  BY <1>1, RecordLiveFalls
<1>2. ASSUME NEW b \in Allocs, NEW ip \in Addrs, Claims(b, ip)'
      PROVE  Claims(b, ip) /\ ip # x
  <2>1. Claims(b, ip)
    BY <1>1, <1>2, <1>e DEF Claims, InHand, GivingBack
  <2>2. ASSUME b = a, ip = x PROVE FALSE
    BY <1>1, <1>2, <2>2, <1>e, <1>h, <1>r
       DEF Claims, InHand, GivingBack, GivingBackApart, OneDel
  <2> QED
    BY <1>h, <2>1, <2>2 DEF ClaimsApart
<1>3. ClaimsApart'
  BY <1>2, <1>e DEF ClaimsApart
<1>4. UnitsTracked' /\ GivingBackApart'
  BY <1>e DEF UnitsTracked, GivingBackApart, GivingBack, InHand
<1>5. HandsApart'
  BY <1>1, <1>e DEF HandsApart, InHand
<1>6. StarterOwnsUnit'
  BY <1>e DEF StarterOwnsUnit
<1>7. SuccessBacked'
  <2>1. ASSUME NEW s \in AddReqs, addPc[s] = "ok", nomad[AllocOf[s]] = "running"
        PROVE  addIP[s] \in pool'
    <3>1. addIP[s] \in Addrs /\ Claims(AllocOf[s], addIP[s])
      BY <2>1, SuccessClaims
    <3>2. AllocOf[s] # a
      BY <1>e, <2>1 DEF DelsWait
    <3> QED
      BY <1>e, <1>h, <3>1, <3>2 DEF ClaimsApart
  <2> QED
    BY <1>e, <2>1 DEF SuccessBacked
<1> QED
  BY <1>3, <1>4, <1>5, <1>6, <1>7

LEMMA DelDeleteStep ==
    ASSUME OneDel, IInv, TypeOK', DelsWait', [Next]_vars,
           NEW d \in DelReqs, DelDelete(d)
    PROVE  IInv'
<1> DEFINE a == AllocOf[d]
<1> USE DEF IInv, TypeOK
<1>e. /\ delPc[d] = "delete"
      /\ delPc' \in {[delPc EXCEPT ![d] = "ok"], [delPc EXCEPT ![d] = "failed"]}
      /\ records' \in {records, [records EXCEPT ![a] = NoIP]}
      /\ delIP' = [delIP EXCEPT ![d] = NoIP]
      /\ UNCHANGED <<pool, instances, units, nomad, addPc, addIP>>
  BY DEF DelDelete, DeleteAllocationRecord, DelGoto, adds
<1>r. ~RecordLive(a) /\ nomad[a] # "running"
  BY <1>e DEF RecordLive, DelsWait, OneDel
<1>1. ASSUME NEW b \in Allocs, RecordLive(b)'
      PROVE  RecordLive(b) /\ records'[b] = records[b]
  BY <1>1, <1>e, <1>r, RecordLiveFalls
<1>2. ASSUME NEW b \in Allocs, NEW ip \in Addrs, Claims(b, ip)'
      PROVE  Claims(b, ip)
  BY <1>1, <1>2, <1>e DEF Claims, InHand, GivingBack
<1>3. ClaimsApart'
  BY <1>2, <1>e DEF ClaimsApart
<1>4. UnitsTracked' /\ GivingBackApart'
  BY <1>e DEF UnitsTracked, GivingBackApart, GivingBack, InHand
<1>5. HandsApart'
  BY <1>1, <1>e DEF HandsApart, InHand
<1>6. StarterOwnsUnit' /\ SuccessBacked'
  BY <1>e, <1>r DEF StarterOwnsUnit, SuccessBacked
<1> QED
  BY <1>3, <1>4, <1>5, <1>6
-----------------------------------------------------------------------------
(* All steps together.                                                     *)

LEMMA InvStep ==
    ASSUME QuietFaults, OneDel, IInv, [Next]_vars
    PROVE  IInv'
<1>t. TypeOK' /\ DelsWait'
  BY TypeStep, DelsWaitStep DEF IInv
<1>1. ASSUME NEW r \in AddReqs, AddMetadata(r) \/ AddCheck(r) \/ AddSign(r) \/ AddStoreFails(r)
      PROVE  IInv'
  <2>1. /\ \E l \in AddControl :
              /\ AddGoto(r, l)
              /\ addPc[r] \in {"idle", "check"} => l \in {"check", "allocate", "failed"}
              /\ addPc[r] = "sign" => l \in {"start", "undo_release"}
              /\ addPc[r] = "store" => l = "undo_stop"
        /\ addPc[r] \in {"idle", "check", "sign", "store"}
        /\ UNCHANGED <<shared, nomad, addIP, dels>>
    BY <1>1 DEF AddMetadata, AddCheck, AddSign, AddStoreFails, StoreAllocationRecord, AddControl,
       AddGoto, MayFail, QuietFaults, shared
  <2>2. ASSUME NEW s \in AddReqs
        PROVE  /\ InHand(s)' <=> InHand(s)
               /\ addPc'[s] = "ok" => addPc[s] = "ok"
               /\ addPc'[s] \in {"store", "undo_stop"} =>
                     addPc[s] \in {"store", "undo_stop"}
               /\ addPc'[s] \in {"sign", "start", "undo_release"} =>
                     addPc[s] \in {"sign", "start", "undo_release"}
    BY <2>1 DEF InHand, AddGoto, IInv, TypeOK
  <2> QED
    BY <1>t, <2>1, <2>2, QuietStep
<1>2. ASSUME NEW r \in AddReqs, Add(r) PROVE IInv'
  BY <1>t, <1>1, <1>2, AddAllocateStep, AddAllocateFailsStep, AddStartStep,
     AddStoreStep, AddUndoStopStep, AddUndoReleaseStep DEF Add
<1>3. ASSUME NEW d \in DelReqs, Del(d) PROVE IInv'
  BY <1>t, <1>3, DelLookupStep, DelStopStep, DelReleaseStep, DelDeleteStep DEF Del
<1>4. CASE \/ \E a \in Allocs : TaskStops(a) \/ TaskForgotten(a)
           \/ UNCHANGED vars
  <2>1. /\ UNCHANGED <<shared, adds, dels>>
        /\ \A a \in Allocs : nomad'[a] = "running" => nomad[a] = "running"
    BY <1>4 DEF TaskStops, TaskForgotten, vars, IInv, TypeOK
  <2> QED
    BY <1>t, <2>1, QuietStep DEF adds, InHand
<1> QED
  BY <1>2, <1>3, <1>4 DEF Next

\* The inductive invariant holds, where systemd obeys, a failed Put has stored
\* nothing and an allocation gets one DEL.
THEOREM Invariance == ASSUME QuietFaults, OneDel PROVE Spec => []IInv
<1>1. IInv /\ [Next]_vars => IInv'
  BY InvStep
<1> QED
  BY InvInit, <1>1, PTL DEF Spec

\* No two units run with one address, and the address of a unit is not given
\* out: for every set of allocations and requests.
THEOREM ExclusiveAddresses ==
    ASSUME QuietFaults, OneDel PROVE Spec => []ExclusiveIP
<1>1. IInv => ExclusiveIP
  BY DEF IInv, ClaimsApart, Claims, ExclusiveIP, TypeOK, IPOrNone
<1> QED
  BY Invariance, <1>1, PTL

\* An ADD answered with success stays backed while the task runs, whatever
\* other requests for that allocation do.
THEOREM SuccessIsBacked ==
    ASSUME QuietFaults, OneDel PROVE Spec => []SuccessBacked
<1>1. IInv => SuccessBacked
  BY DEF IInv
<1> QED
  BY Invariance, <1>1, PTL
-----------------------------------------------------------------------------
(* The handlers as callers of the pool.                                    *)

LEMMA PoolOperators ==
    /\ Pool!Addrs = Addrs
    /\ \A S : Pool!Free(S) = Free(S)
    /\ \A S : Pool!LowestFree(S) = LowestFree(S)
BY DEF Pool!Addrs, Addrs, Pool!Free, Free, Pool!LowestFree, LowestFree

\* Nobody begins to rely on an address: the pool sees nothing, or an
\* allocation that gives up some.
LEMMA SameRelied ==
    ASSUME \A s \in AddReqs : /\ Relies(s)' <=> Relies(s)
                              /\ Relies(s) => addIP'[s] = addIP[s]
    PROVE  UNCHANGED [a \in Allocs |-> Relied(a)]
<1>1. ASSUME NEW a \in Allocs PROVE Relied(a)' = Relied(a)
  BY DEF Relied
<1> QED
  BY <1>1

LEMMA FewerRelied ==
    ASSUME NEW a \in Allocs, UNCHANGED pool,
           \A s \in AddReqs :
              /\ Relies(s)' => Relies(s)
              /\ Relies(s) => addIP'[s] = addIP[s]
              /\ AllocOf[s] # a => (Relies(s)' <=> Relies(s))
    PROVE  Pool!Next
<1>1. Relied(a)' \in SUBSET Relied(a)
  BY DEF Relied
<1>2. ASSUME NEW b \in Allocs \ {a} PROVE Relied(b)' = Relied(b)
  BY DEF Relied
<1>3. [b \in Allocs |-> Relied(b)]' =
         [[b \in Allocs |-> Relied(b)] EXCEPT ![a] = Relied(a)']
  BY <1>2
<1>4. Pool!GiveUp(a)
  BY <1>1, <1>3 DEF Pool!GiveUp
<1> QED
  BY <1>4 DEF Pool!Next

\* An address that is relied on belongs to that allocation.
LEMMA ReliedIsClaimed ==
    ASSUME IInv, NEW r \in AddReqs, Relies(r)
    PROVE  addIP[r] \in Addrs /\ Claims(AllocOf[r], addIP[r])
BY DEF IInv, TypeOK, IPOrNone, Relies, InHand, HandsApart, SuccessBacked, Claims,
   RecordLive

\* An address in the range that nobody relies on may be given back.
LEMMA MayReclaim ==
    ASSUME NEW ip \in Addrs, ip \in pool, pool' = pool \ {ip},
           \A s \in AddReqs :
              /\ Relies(s)' <=> Relies(s)
              /\ Relies(s) => addIP'[s] = addIP[s] /\ addIP[s] # ip
    PROVE  Pool!Next
<1>1. \A a \in Allocs : ip \notin Relied(a)
  BY DEF Relied
<1>2. Pool!Reclaim(ip)
  BY <1>1, SameRelied DEF Pool!Reclaim
<1> QED
  BY <1>2, PoolOperators DEF Pool!Next

LEMMA PoolStep ==
    ASSUME IInv, [Next]_vars
    PROVE  [Pool!Next]_Pool!vars
<1> USE DEF IInv, TypeOK
<1>u. ASSUME UNCHANGED pool,
             \A s \in AddReqs : /\ Relies(s)' <=> Relies(s)
                                /\ Relies(s) => addIP'[s] = addIP[s]
      PROVE  UNCHANGED Pool!vars
  BY <1>u, SameRelied DEF Pool!vars
<1>1. ASSUME NEW r \in AddReqs, AddMetadata(r) \/ AddCheck(r)
      PROVE  UNCHANGED Pool!vars
  BY <1>1, <1>u DEF AddMetadata, AddCheck, AddGoto, Relies, shared
<1>2. ASSUME NEW r \in AddReqs, AddAllocate(r) PROVE Pool!Next
  <2> DEFINE a == AllocOf[r]
             held == [b \in Allocs |-> Relied(b)]
  <2>1. PICK x : /\ x = LowestFree(pool) /\ Free(pool) # {}
                 /\ pool' = pool \cup {x}
                 /\ addIP' = [addIP EXCEPT ![r] = x]
                 /\ addPc[r] = "allocate" /\ addPc' = [addPc EXCEPT ![r] = "sign"]
                 /\ UNCHANGED nomad
    BY <1>2 DEF AddAllocate, AddGoto
  <2>2. /\ ~Relies(r) /\ Relies(r)' /\ addIP'[r] = x
        /\ \A s \in AddReqs \ {r} : (Relies(s)' <=> Relies(s)) /\ addIP'[s] = addIP[s]
    BY <2>1 DEF Relies
  <2>3. Relied(a)' = Relied(a) \cup {x}
    BY <2>2 DEF Relied
  <2>4. ASSUME NEW b \in Allocs \ {a} PROVE Relied(b)' = Relied(b)
    BY <2>2 DEF Relied
  <2>5. held' = [held EXCEPT ![a] = @ \cup {x}]
    BY <2>3, <2>4
  <2>6. Pool!Acquire(a)
    BY <2>1, <2>5, PoolOperators DEF Pool!Acquire
  <2> QED
    BY <2>6 DEF Pool!Next
<1>3. ASSUME NEW r \in AddReqs, AddAllocateFails(r) PROVE [Pool!Next]_Pool!vars
  <2>1. \A s \in AddReqs : (Relies(s)' <=> Relies(s)) /\ addIP'[s] = addIP[s]
    BY <1>3 DEF AddAllocateFails, AddGoto, Relies
  <2>2. CASE UNCHANGED pool
    BY <1>u, <2>1, <2>2
  <2>3. CASE Free(pool) # {} /\ pool' = pool \cup {LowestFree(pool)}
    BY <2>1, <2>3, SameRelied, PoolOperators DEF Pool!Next, Pool!Leak
  <2> QED
    BY <1>3, <2>2, <2>3 DEF AddAllocateFails
<1>4. ASSUME NEW r \in AddReqs, \/ AddSign(r) \/ AddStart(r) \/ AddStore(r)
                                \/ AddStoreFails(r) \/ AddUndoStop(r)
      PROVE  Pool!Next
  <2>1. /\ addPc[r] \in {"sign", "start", "store", "undo_stop"}
        /\ \A s \in AddReqs \ {r} : addPc'[s] = addPc[s]
        /\ UNCHANGED <<pool, addIP, nomad>>
    BY <1>4 DEF AddSign, AddStart, AddStore, AddStoreFails, AddUndoStop, AddGoto, shared
  <2>2. Relies(r) /\ \A s \in AddReqs \ {r} : Relies(s)' <=> Relies(s)
    BY <2>1 DEF Relies
  <2> QED
    BY <2>1, <2>2, FewerRelied
<1>5. ASSUME NEW r \in AddReqs, AddUndoRelease(r) PROVE [Pool!Next]_Pool!vars
  <2>1. /\ addPc[r] = "undo_release" /\ ~Relies(r) /\ ~Relies(r)'
        /\ \A s \in AddReqs \ {r} : (Relies(s)' <=> Relies(s)) /\ addIP'[s] = addIP[s]
        /\ pool' = pool \ {addIP[r]} \/ UNCHANGED pool
    BY <1>5 DEF AddUndoRelease, AddGoto, ReleaseIP, Relies
  <2>2. InHand(r) /\ addIP[r] \in Addrs /\ Claims(AllocOf[r], addIP[r])
    BY <2>1 DEF InHand, HandsApart, Claims
  <2>3. ASSUME NEW s \in AddReqs, Relies(s) PROVE addIP[s] # addIP[r]
    <3>1. CASE InHand(s)
      BY <2>1, <2>2, <2>3, <3>1 DEF HandsApart
    <3>2. CASE ~InHand(s) /\ AllocOf[s] = AllocOf[r]
      BY <2>2, <2>3, <3>2 DEF Relies, InHand, HandsApart, SuccessBacked, RecordLive
    <3>3. CASE AllocOf[s] # AllocOf[r]
      BY <2>2, <2>3, <3>3, ReliedIsClaimed DEF ClaimsApart
    <3> QED
      BY <3>1, <3>2, <3>3
  <2>4. addIP[r] \in pool
    BY <2>2 DEF ClaimsApart
  <2> QED
    BY <1>u, <2>1, <2>2, <2>3, <2>4, MayReclaim
<1>6. ASSUME NEW d \in DelReqs, DelRelease(d) PROVE [Pool!Next]_Pool!vars
  <2>1. /\ GivingBack(d) /\ delPc[d] # "idle" /\ UNCHANGED <<nomad, adds>>
        /\ pool' = pool \ {delIP[d]} \/ UNCHANGED pool
    BY <1>6 DEF DelRelease, ReleaseIP, GivingBack
  <2>2. delIP[d] \in Addrs /\ Claims(AllocOf[d], delIP[d]) /\ delIP[d] \in pool
    BY <2>1 DEF GivingBackApart, Claims, ClaimsApart
  <2>3. ASSUME NEW s \in AddReqs, Relies(s) PROVE addIP[s] # delIP[d]
    <3>1. CASE AllocOf[s] = AllocOf[d]
      BY <2>1, <2>3, <3>1 DEF Relies, InHand, GivingBackApart, DelsWait
    <3>2. CASE AllocOf[s] # AllocOf[d]
      BY <2>2, <2>3, <3>2, ReliedIsClaimed DEF ClaimsApart
    <3> QED
      BY <3>1, <3>2
  <2>4. \A s \in AddReqs : (Relies(s)' <=> Relies(s)) /\ addIP'[s] = addIP[s]
    BY <2>1 DEF Relies, adds
  <2> QED
    BY <1>u, <2>1, <2>2, <2>3, <2>4, MayReclaim
<1>7. ASSUME NEW d \in DelReqs, DelLookup(d) \/ DelStop(d) \/ DelDelete(d)
      PROVE  UNCHANGED Pool!vars
  BY <1>7, <1>u DEF DelLookup, DelStop, DelDelete, Relies, adds, shared
<1>8. ASSUME NEW a \in Allocs, TaskStops(a) \/ TaskForgotten(a) PROVE Pool!Next
  <2>1. /\ UNCHANGED <<pool, adds>>
        /\ nomad'[a] # "running"
        /\ \A b \in Allocs \ {a} : nomad'[b] = nomad[b]
    BY <1>8 DEF TaskStops, TaskForgotten, shared
  <2>2. \A s \in AddReqs : /\ Relies(s)' => Relies(s)
                           /\ AllocOf[s] # a => (Relies(s)' <=> Relies(s))
    BY <2>1 DEF Relies, adds
  <2> QED
    BY <2>1, <2>2, FewerRelied DEF adds
<1>9. CASE UNCHANGED vars
  BY <1>9, <1>u DEF vars, shared, adds, Relies
<1> QED
  BY <1>1, <1>2, <1>3, <1>4, <1>5, <1>6, <1>7, <1>8, <1>9 DEF Next, Add, Del

\* The handlers call the pool as it expects to be called: what they give back
\* is relied on by no other request and by no running task.
THEOREM HandlersUsePool ==
    ASSUME QuietFaults, OneDel PROVE Spec => UsesAddressPool
<1>1. Init => Pool!Init
  <2> SUFFICES ASSUME Init PROVE Pool!Init
    OBVIOUS
  <2>1. \A a \in Allocs : Relied(a) = {}
    BY DEF Init, Relied, Relies
  <2> QED
    BY <2>1 DEF Init, Pool!Init
<1>2. IInv /\ [Next]_vars => [Pool!Next]_Pool!vars
  BY PoolStep
<1> QED
  BY <1>1, <1>2, Invariance, PTL DEF Spec, UsesAddressPool, Pool!Spec
=============================================================================
