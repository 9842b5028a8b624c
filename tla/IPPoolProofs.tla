---------------------------- MODULE IPPoolProofs ----------------------------
(***************************************************************************)
(* Proofs about IPPool for every range, every set of processes and every   *)
(* number of retries: type correctness, exclusive ownership of addresses,  *)
(* what "too much contention" means, and that the loops over Consul        *)
(* implement AddressPool.                                                  *)
(***************************************************************************)
EXTENDS IPPool, WellFoundedInduction, TLAPS

USE MaxRetriesAssumption, MaxCallsAssumption, RangeAssumption,
    FlagsAssumption, NoIPAssumption, StartersAssumption
-----------------------------------------------------------------------------
(* The next address.                                                       *)

\* A set of natural numbers that is not empty has a least element.
LEMMA LeastNumber ==
    ASSUME NEW S \in SUBSET Nat, S # {}
    PROVE  \E m \in S : \A n \in S : m <= n
<1> DEFINE R == {ss \in Nat \X Nat : ss[1] < ss[2]}
<1>1. IsWellFoundedOn(R, Nat)
  BY NatLessThanWellFounded, Zenon DEF OpToRel
<1>2. \A x, y \in Nat : x < y => <<x, y>> \in R
  OBVIOUS
<1> HIDE DEF R
<1>3. PICK m \in S : \A n \in S : ~ (<<n, m>> \in R)
  BY <1>1, WFMin
<1>4. \A n \in S : ~ (n < m)
  BY <1>2, <1>3
<1> QED
  BY <1>4

\* findNextAvailableIP returns an address of the range that is free.
LEMMA LowestFreeIsFree ==
    ASSUME NEW S, Free(S) # {}
    PROVE  LowestFree(S) \in Addrs /\ LowestFree(S) \notin S
<1>1. Free(S) \in SUBSET Nat
  BY RangeAssumption DEF Free, Addrs
<1>2. \E a \in Free(S) : \A b \in Free(S) : a <= b
  BY <1>1, LeastNumber
<1>3. LowestFree(S) \in Free(S)
  BY <1>2 DEF LowestFree
<1> QED
  BY <1>3 DEF Free
-----------------------------------------------------------------------------
(* Types.                                                                  *)

\* What a call may write is a value of the key's type.
LEMMA WrittenValuesTyped ==
    ASSUME TypeOK, NEW p \in Procs
    PROVE  /\ kv.index \in Nat /\ kv.allocated \in SUBSET Addrs
           /\ snap[p].index \in Nat /\ snap[p].allocated \in SUBSET Addrs
           /\ Free(snap[p].allocated) # {} =>
                 NextIP(p) \in Addrs /\ AllocValue(p) \in SUBSET Addrs
           /\ ReleaseValue(p) \in SUBSET Addrs
<1>1. kv \in Values /\ snap[p] \in Values
  BY DEF TypeOK
<1>2. Free(snap[p].allocated) # {} => NextIP(p) \in Addrs
  BY LowestFreeIsFree DEF NextIP
<1> QED
  BY <1>1, <1>2 DEF Values, AllocValue, ReleaseValue

\* In the compare-and-set of an allocation, the value read has a free address.
AllocReadsFree ==
    \A p \in Procs : pc[p] = "alloc_cas" => Free(snap[p].allocated) # {}

LEMMA TypeInit == Init => TypeOK /\ AllocReadsFree
BY DEF Init, TypeOK, AllocReadsFree, Values, NoKey, Control, Results

LEMMA TypeStep ==
    ASSUME TypeOK, AllocReadsFree, [Next]_vars
    PROVE  TypeOK' /\ AllocReadsFree'
<1> USE DEF TypeOK, AllocReadsFree, Control, Results
<1>0. NoKey \in Values
  BY DEF Values, NoKey
<1>1. ASSUME NEW p \in Procs, InitializeIPPool(p) \/ AllocateIP(p)
      PROVE  TypeOK' /\ AllocReadsFree'
  <2>1. kv.index \in Nat
    BY DEF Values
  <2>2. CASE InitializeIPPool(p)
    BY <2>1, <2>2 DEF InitializeIPPool, Begin, Goto
  <2>3. CASE AllocateIP(p)
    BY <2>1, <2>3 DEF AllocateIP, Begin, Goto
  <2> QED
    BY <1>1, <2>2, <2>3
<1>2. ASSUME NEW p \in Procs, NEW a \in Addrs, ReleaseIP(p, a)
      PROVE  TypeOK' /\ AllocReadsFree'
  BY <1>2 DEF ReleaseIP, Begin, Goto, Values
<1>3. ASSUME NEW p \in Procs, NEW r \in Results, ReturnOnly(p, r)
      PROVE  TypeOK' /\ AllocReadsFree'
  BY <1>0, <1>3 DEF ReturnOnly, Return, Goto
<1>4. ASSUME NEW p \in Procs, NEW l \in Control, ReadPool(p, l),
             l = "alloc_cas" => Free(kv.allocated) # {}
      PROVE  TypeOK' /\ AllocReadsFree'
  BY <1>4 DEF ReadPool, Goto
<1>5. ASSUME NEW p \in Procs, NEW l \in {"alloc_get", "release_get"}, Retry(p, l)
      PROVE  TypeOK' /\ AllocReadsFree'
  <2>1. CASE attempt[p] + 1 < MaxRetries
    BY <1>0, <1>5, <2>1 DEF Retry, Goto
  <2>2. CASE ~ (attempt[p] + 1 < MaxRetries)
    BY <1>3, <1>5, <2>2 DEF Retry
  <2> QED
    BY <2>1, <2>2
<1>6. ASSUME NEW p \in Procs, NEW r \in Results, NEW S \in SUBSET Addrs, Put(S),
             Return(p, r), UNCHANGED delayed, held' \in [Procs -> SUBSET Addrs]
      PROVE  TypeOK' /\ AllocReadsFree'
  <2>1. kv' \in Values
    BY <1>6 DEF Put, Values
  <2> QED
    BY <1>0, <1>6, <2>1 DEF Return, Goto
<1>7. ASSUME NEW p \in Procs, NEW S \in SUBSET Addrs, Unanswered(p, S)
      PROVE  TypeOK' /\ AllocReadsFree'
  <2>1. [index |-> snap[p].index, allocated |-> S] \in Values
    BY DEF Values
  <2>2. delayed' \subseteq Values
    BY <1>7, <2>1 DEF Unanswered
  <2>3. Return(p, "error") /\ UNCHANGED <<kv, held>>
    BY <1>7 DEF Unanswered
  <2> QED
    BY <1>0, <2>2, <2>3 DEF Return, Goto
<1>8. ASSUME NEW p \in Procs, Step(p) \/ Fault(p)
      PROVE  TypeOK' /\ AllocReadsFree'
  <2>1. CASE GetFails(p) \/ GetFindsNoKey(p)
    BY <1>3, <2>1 DEF GetFails, GetFindsNoKey
  <2>2. CASE InitGet(p)
    BY <1>3, <1>4, <2>2 DEF InitGet
  <2>3. CASE InitPut(p)
    <3>1. {} \in SUBSET Addrs /\ {"ok", "error"} \subseteq Results
      OBVIOUS
    <3>2. PICK r \in {"ok", "error"} : Return(p, r)
      BY <2>3 DEF InitPut
    <3> QED
      BY <1>6, <2>3, <3>1, <3>2 DEF InitPut
  <2>4. CASE AllocGet(p)
    BY <1>3, <1>4, <2>4 DEF AllocGet
  <2>5. CASE AllocCAS(p)
    <3>1. CASE Matches(snap[p].index)
      <4>1. NextIP(p) \in Addrs /\ AllocValue(p) \in SUBSET Addrs
        BY <2>5, WrittenValuesTyped DEF AllocCAS
      <4>2. /\ Put(AllocValue(p)) /\ Return(p, "ok") /\ UNCHANGED delayed
            /\ held' = [held EXCEPT ![p] = @ \cup {NextIP(p)}]
        BY <2>5, <3>1 DEF AllocCAS
      <4>3. held' \in [Procs -> SUBSET Addrs]
        BY <4>1, <4>2
      <4> QED
        BY <1>6, <4>1, <4>2, <4>3
    <3>2. CASE ~ Matches(snap[p].index)
      BY <1>5, <2>5, <3>2 DEF AllocCAS
    <3> QED
      BY <3>1, <3>2
  <2>6. CASE AllocUnanswered(p)
    BY <1>7, <2>6, WrittenValuesTyped DEF AllocUnanswered
  <2>7. CASE ReleaseGet(p)
    BY <1>3, <1>4, <2>7 DEF ReleaseGet
  <2>8. CASE ReleaseCAS(p)
    BY <1>5, <1>6, <2>8, WrittenValuesTyped DEF ReleaseCAS
  <2>9. CASE ReleaseUnanswered(p)
    BY <1>7, <2>9, WrittenValuesTyped DEF ReleaseUnanswered
  <2>10. CASE InitPutFails(p)
    BY <1>0, <2>10 DEF InitPutFails, Return, Goto
  <2> QED
    BY <1>8, <2>1, <2>2, <2>3, <2>4, <2>5, <2>6, <2>7, <2>8, <2>9, <2>10 DEF Step, Fault
<1>9. ASSUME NEW p \in Procs, Crash(p)
      PROVE  TypeOK' /\ AllocReadsFree'
  BY <1>0, <1>9 DEF Crash, Return, Goto
<1>10. ASSUME NEW w \in delayed, Deliver(w)
       PROVE  TypeOK' /\ AllocReadsFree'
  BY <1>10 DEF Deliver, Put, Values
<1>11. CASE UNCHANGED vars
  BY <1>11 DEF vars
<1> QED
  BY <1>1, <1>2, <1>8, <1>9, <1>10, <1>11 DEF Next, Call

\* Every variable keeps its type and every loop counter its range.
THEOREM TypeCorrect == Spec => []TypeOK
<1>1. TypeOK /\ AllocReadsFree /\ [Next]_vars => (TypeOK /\ AllocReadsFree)'
  BY TypeStep
<1> QED
  BY TypeInit, <1>1, PTL DEF Spec
-----------------------------------------------------------------------------
(* The inductive invariant.                                                *)

\* The steps of a process that leave Consul and the addresses held alone.
Quiet(p) ==
    \/ \E r \in Results \ {"contention"} : ReturnOnly(p, r)
    \/ /\ pc[p] = "init_get" /\ ~Exists(kv) /\ First <= Last
       /\ ReadPool(p, "init_put")
    \/ /\ pc[p] = "alloc_get" /\ Exists(kv) /\ Free(kv.allocated) # {}
       /\ ReadPool(p, "alloc_cas")
    \/ /\ pc[p] = "release_get" /\ Exists(kv) /\ target[p] \in kv.allocated
       /\ ReadPool(p, "release_cas")
    \/ /\ pc[p] = "alloc_cas" /\ ~Matches(snap[p].index)
       /\ Retry(p, "alloc_get")
    \/ /\ pc[p] = "release_cas" /\ ~Matches(snap[p].index)
       /\ Retry(p, "release_get")

\* The steps whose request changes the key.
AllocWrites(p) == AllocCAS(p) /\ Matches(snap[p].index)
ReleaseWrites(p) == ReleaseCAS(p) /\ Matches(snap[p].index)

\* A boot gives up and leaves its Put on the way.
LateBoot(p) ==
    /\ pc[p] = "init_put"
    /\ LatePuts
    /\ Return(p, "error")
    /\ delayed' = delayed \cup {NoKey}
    /\ UNCHANGED <<kv, held>>

LEMMA StepKinds ==
    ASSUME NEW p \in Procs, Step(p) \/ Fault(p)
    PROVE  \/ Quiet(p) \/ InitPut(p) \/ LateBoot(p)
           \/ AllocWrites(p) \/ AllocUnanswered(p)
           \/ ReleaseWrites(p) \/ ReleaseUnanswered(p)
<1> USE DEF Quiet, Results
<1>1. CASE GetFails(p) \/ GetFindsNoKey(p) \/ InitPutFails(p)
  BY <1>1 DEF GetFails, GetFindsNoKey, InitPutFails, ReturnOnly, LateBoot
<1>2. CASE InitGet(p)
  BY <1>2 DEF InitGet
<1>3. CASE AllocGet(p)
  BY <1>3 DEF AllocGet
<1>4. CASE AllocCAS(p)
  BY <1>4 DEF AllocCAS, AllocWrites
<1>5. CASE ReleaseGet(p)
  BY <1>5 DEF ReleaseGet
<1>6. CASE ReleaseCAS(p)
  BY <1>6 DEF ReleaseCAS, ReleaseWrites
<1> QED
  BY <1>1, <1>2, <1>3, <1>4, <1>5, <1>6 DEF Step, Fault

\* The assumption on the boots rules it out.
LEMMA NoLateBoot ==
    ASSUME SequentialBoot, BootOnce, NEW p \in Procs, LateBoot(p)
    PROVE  FALSE
BY DEF SequentialBoot, BootOnce, LateBoot

LEMMA InvInit == Init => IInv
<1> SUFFICES ASSUME Init PROVE IInv
  OBVIOUS
<1>1. TypeOK
  BY TypeInit
<1>2. BootOnce /\ ReadsVersioned /\ TargetsKnown /\ DelayedSafe
  BY DEF Init, BootOnce, ReadsVersioned, TargetsKnown, DelayedSafe, Exists,
         NoKey, Releasing
<1>3. OwnedApart
  BY DEF Init, OwnedApart, Owned, Releasing
<1>4. RoundsLost /\ ContentionGenuine
  BY DEF Init, RoundsLost, ContentionGenuine
<1> QED
  BY <1>1, <1>2, <1>3, <1>4 DEF IInv

\* An index that has been seen is never used again.
LEMMA IndexGrows ==
    ASSUME TypeOK, [Next]_vars
    PROVE  /\ kv.index \in Nat /\ kv'.index \in Nat
           /\ kv' = kv \/ kv'.index = kv.index + 1
<1>1. kv.index \in Nat
  BY DEF TypeOK, Values
<1>2. ASSUME NEW p \in Procs, Quiet(p) PROVE kv' = kv
  BY <1>2 DEF Quiet, ReturnOnly, ReadPool, Retry
<1>3. ASSUME NEW p \in Procs, Step(p) \/ Fault(p) PROVE kv' = kv \/ kv'.index = kv.index + 1
  BY <1>2, <1>3, StepKinds DEF InitPut, LateBoot, AllocWrites, AllocCAS,
     AllocUnanswered, ReleaseWrites, ReleaseCAS, ReleaseUnanswered, Unanswered, Put
<1>4. ASSUME NEW p \in Procs, Call(p) PROVE kv' = kv
  BY <1>4 DEF Call, InitializeIPPool, AllocateIP, ReleaseIP, Begin
<1>5. ASSUME NEW p \in Procs, Crash(p) PROVE kv' = kv
  BY <1>5 DEF Crash
<1>6. ASSUME NEW w \in delayed, Deliver(w) PROVE kv' = kv \/ kv'.index = kv.index + 1
  BY <1>6 DEF Deliver, Put
<1>7. UNCHANGED vars => kv' = kv
  BY DEF vars
<1> QED
  BY <1>1, <1>3, <1>4, <1>5, <1>6, <1>7 DEF Next

LEMMA BootStep ==
    ASSUME SequentialBoot, IInv, [Next]_vars
    PROVE  BootOnce'
<1> USE DEF BootOnce
<1>0. TypeOK /\ BootOnce /\ ReadsVersioned /\ DelayedSafe
  BY DEF IInv
<1>a. pc \in [Procs -> Control] /\ kv.index \in Nat
  BY <1>0 DEF TypeOK, Values
<1>1. ASSUME NEW p \in Procs, Call(p)
      PROVE  BootOnce'
  BY <1>0, <1>a, <1>1
     DEF Call, InitializeIPPool, AllocateIP, ReleaseIP, Begin, Goto, Exists
<1>2. ASSUME NEW p \in Procs, Quiet(p)
      PROVE  BootOnce'
  BY <1>0, <1>a, <1>2
     DEF Quiet, ReturnOnly, Return, ReadPool, Retry, Goto, Exists
<1>3. ASSUME NEW p \in Procs, InitPut(p)
      PROVE  BootOnce'
  \* the only process that can be booting is p itself
  <2>1. \A q \in Procs : pc[q] \in {"init_get", "init_put"} => q = p
    BY <1>0, <1>3 DEF InitPut, SequentialBoot
  <2>2. Exists(kv)'
    BY <1>a, <1>3 DEF InitPut, Put, Exists
  <2>3. pc' = [pc EXCEPT ![p] = "idle"]
    BY <1>3 DEF InitPut, Return, Goto
  <2> QED
    BY <1>0, <1>a, <2>1, <2>2, <2>3
<1>4. ASSUME NEW p \in Procs, AllocWrites(p) \/ ReleaseWrites(p)
      PROVE  BootOnce'
  <2>1. Exists(kv) /\ Exists(kv)'
    BY <1>0, <1>a, <1>4 DEF ReadsVersioned, AllocWrites, ReleaseWrites, AllocCAS,
       ReleaseCAS, Put, Exists, Matches
  <2>2. pc' = [pc EXCEPT ![p] = "idle"]
    BY <1>4 DEF AllocWrites, ReleaseWrites, AllocCAS, ReleaseCAS, Return, Goto
  <2> QED
    BY <1>0, <1>a, <2>1, <2>2
<1>5. ASSUME NEW p \in Procs, AllocUnanswered(p) \/ ReleaseUnanswered(p)
      PROVE  BootOnce'
  BY <1>0, <1>a, <1>5
     DEF AllocUnanswered, ReleaseUnanswered, Unanswered, Return, Goto, Exists
<1>6. ASSUME NEW p \in Procs, Crash(p)
      PROVE  BootOnce'
  BY <1>0, <1>a, <1>6 DEF Crash, Return, Goto, Exists
<1>7. ASSUME NEW w \in delayed, Deliver(w)
      PROVE  BootOnce'
  <2>1. Exists(kv)
    BY <1>0, <1>a, <1>7 DEF DelayedSafe, Exists, TypeOK, Values
  <2>2. Exists(kv)'
    BY <1>a, <1>7, <2>1 DEF Deliver, Put, Exists
  <2> QED
    BY <1>0, <1>a, <1>7, <2>1, <2>2 DEF Deliver
<1>8. CASE UNCHANGED vars
  BY <1>0, <1>8 DEF vars, Exists
<1> QED
  BY <1>0, <1>1, <1>2, <1>3, <1>4, <1>5, <1>6, <1>7, <1>8, StepKinds, NoLateBoot
     DEF Next

LEMMA ReadsStep ==
    ASSUME IInv, [Next]_vars
    PROVE  ReadsVersioned' /\ TargetsKnown'
<1> USE DEF ReadsVersioned, TargetsKnown, Releasing
<1>0. TypeOK /\ ReadsVersioned /\ TargetsKnown
  BY DEF IInv
<1>a. /\ pc \in [Procs -> Control] /\ snap \in [Procs -> Values]
      /\ target \in [Procs -> Addrs \cup {NoIP}] /\ kv \in Values
      /\ \A q \in Procs : snap[q].index \in Nat
  BY <1>0 DEF TypeOK, Values
<1>b. kv.index \in Nat /\ (kv' = kv \/ kv'.index = kv.index + 1)
  BY <1>0, IndexGrows
<1>c. ASSUME NEW p \in Procs,
             \A q \in Procs \ {p} : /\ pc'[q] = pc[q]
                                    /\ snap'[q] = snap[q]
                                    /\ target'[q] = target[q],
             pc'[p] \in {"idle", "init_get", "init_put", "alloc_get"}
                \/ (pc'[p] = "release_get" /\ target'[p] \in Addrs)
      PROVE  ReadsVersioned' /\ TargetsKnown'
  BY <1>0, <1>a, <1>b, <1>c DEF Exists, Matches
<1>d. ASSUME NEW p \in Procs, NEW l \in {"alloc_cas", "release_cas"},
             ReadPool(p, l), Exists(kv),
             l = "alloc_cas" => Free(kv.allocated) # {},
             l = "release_cas" => target[p] \in kv.allocated /\ target[p] \in Addrs
      PROVE  ReadsVersioned' /\ TargetsKnown'
  <2>1. /\ pc'[p] = l /\ snap'[p] = kv /\ target' = target /\ kv' = kv
        /\ \A q \in Procs \ {p} : pc'[q] = pc[q] /\ snap'[q] = snap[q]
    BY <1>a, <1>d DEF ReadPool, Goto
  <2>2. TargetsKnown'
    BY <1>0, <1>d, <2>1
  <2>3. ASSUME NEW q \in Procs, pc'[q] \in {"alloc_cas", "release_cas"}
        PROVE  /\ Exists(snap[q])' /\ snap'[q].index <= kv'.index
               /\ Matches(snap[q].index)' => snap'[q] = kv'
               /\ pc'[q] = "alloc_cas" => Free(snap'[q].allocated) # {}
               /\ pc'[q] = "release_cas" => target'[q] \in snap'[q].allocated
    <3>1. CASE q = p
      BY <1>b, <1>d, <2>1, <3>1 DEF Exists
    <3>2. CASE q # p
      BY <1>0, <2>1, <2>3, <3>2 DEF Exists, Matches
    <3> QED
      BY <3>1, <3>2
  <2> QED
    BY <2>2, <2>3
<1>1. ASSUME NEW p \in Procs, Call(p)
      PROVE  ReadsVersioned' /\ TargetsKnown'
  BY <1>a, <1>c, <1>1 DEF Call, InitializeIPPool, AllocateIP, ReleaseIP, Begin, Goto
<1>2. ASSUME NEW p \in Procs, NEW r, Return(p, r)
      PROVE  ReadsVersioned' /\ TargetsKnown'
  BY <1>a, <1>c, <1>2 DEF Return, Goto
<1>3. ASSUME NEW p \in Procs, Quiet(p)
      PROVE  ReadsVersioned' /\ TargetsKnown'
  <2>1. CASE \E r \in Results \ {"contention"} : ReturnOnly(p, r)
    BY <1>2, <2>1 DEF ReturnOnly
  <2>2. CASE pc[p] = "init_get" /\ ReadPool(p, "init_put")
    BY <1>a, <1>c, <2>2 DEF ReadPool, Goto
  <2>3. CASE /\ pc[p] = "alloc_get" /\ Exists(kv) /\ Free(kv.allocated) # {}
             /\ ReadPool(p, "alloc_cas")
    BY <1>d, <2>3
  <2>4. CASE /\ pc[p] = "release_get" /\ Exists(kv) /\ target[p] \in kv.allocated
             /\ ReadPool(p, "release_cas")
    BY <1>0, <1>d, <2>4
  <2>5. CASE pc[p] = "alloc_cas" /\ Retry(p, "alloc_get")
    BY <1>a, <1>c, <1>2, <2>5 DEF Retry, Goto, ReturnOnly
  <2>6. CASE pc[p] = "release_cas" /\ Retry(p, "release_get")
    BY <1>0, <1>a, <1>c, <1>2, <2>6 DEF Retry, Goto, ReturnOnly
  <2> QED
    BY <1>3, <2>1, <2>2, <2>3, <2>4, <2>5, <2>6 DEF Quiet
<1>4. ASSUME NEW p \in Procs, Step(p) \/ Fault(p)
      PROVE  ReadsVersioned' /\ TargetsKnown'
  BY <1>2, <1>3, <1>4, StepKinds DEF InitPut, LateBoot, AllocWrites, AllocCAS,
     AllocUnanswered, ReleaseWrites, ReleaseCAS, ReleaseUnanswered, Unanswered
<1>5. ASSUME NEW p \in Procs, Crash(p)
      PROVE  ReadsVersioned' /\ TargetsKnown'
  BY <1>2, <1>5 DEF Crash
<1>6. ASSUME NEW w \in delayed, Deliver(w)
      PROVE  ReadsVersioned' /\ TargetsKnown'
  BY <1>0, <1>a, <1>b, <1>6 DEF Deliver, Exists, Matches
<1>7. CASE UNCHANGED vars
  BY <1>0, <1>7 DEF vars, Exists, Matches
<1> QED
  BY <1>1, <1>4, <1>5, <1>6, <1>7 DEF Next

\* The conjunct of OwnedApart about one process.
Apart(p) ==
    /\ Owned(p) \subseteq kv.allocated
    /\ Releasing(p) => target[p] \in Addrs \ held[p]
    /\ \A q \in Procs \ {p} : Owned(p) \cap Owned(q) = {}

\* What a compare-and-set that succeeds writes.
LEMMA WritesFresh ==
    ASSUME IInv, NEW p \in Procs
    PROVE  /\ AllocWrites(p) =>
                 /\ kv'.allocated = kv.allocated \cup {NextIP(p)}
                 /\ NextIP(p) = LowestFree(kv.allocated)
                 /\ Free(kv.allocated) # {}
                 /\ NextIP(p) \in Addrs \ kv.allocated
                 /\ held' = [held EXCEPT ![p] = @ \cup {NextIP(p)}]
                 /\ pc' = [pc EXCEPT ![p] = "idle"]
                 /\ target' = [target EXCEPT ![p] = NoIP]
                 /\ delayed' = delayed
           /\ ReleaseWrites(p) =>
                 /\ kv'.allocated = kv.allocated \ {target[p]}
                 /\ target[p] \in kv.allocated
                 /\ held' = held
                 /\ pc' = [pc EXCEPT ![p] = "idle"]
                 /\ target' = [target EXCEPT ![p] = NoIP]
                 /\ delayed' = delayed
<1>1. ReadsVersioned
  BY DEF IInv
<1>2. ASSUME AllocWrites(p)
      PROVE  snap[p] = kv /\ Free(kv.allocated) # {}
  BY <1>1, <1>2 DEF ReadsVersioned, AllocWrites, AllocCAS
<1>3. ASSUME ReleaseWrites(p)
      PROVE  snap[p] = kv /\ target[p] \in kv.allocated
  BY <1>1, <1>3 DEF ReadsVersioned, ReleaseWrites, ReleaseCAS
<1>4. ASSUME AllocWrites(p)
      PROVE  NextIP(p) = LowestFree(kv.allocated) /\ NextIP(p) \in Addrs \ kv.allocated
  BY <1>2, <1>4, LowestFreeIsFree DEF NextIP
<1> QED
  BY <1>2, <1>3, <1>4 DEF AllocWrites, AllocCAS, AllocValue, ReleaseWrites,
     ReleaseCAS, ReleaseValue, Put, Return, Goto

LEMMA OwnedStep ==
    ASSUME IInv, [Next]_vars, OwnersOnly
    PROVE  \A p \in Procs : Apart(p)'
<1> USE DEF Apart, Owned, Releasing
<1>0. TypeOK /\ BootOnce /\ DelayedSafe /\ \A p \in Procs : Apart(p)
  BY DEF IInv, OwnedApart
<1>a. /\ pc \in [Procs -> Control] /\ held \in [Procs -> SUBSET Addrs]
      /\ target \in [Procs -> Addrs \cup {NoIP}]
  BY <1>0 DEF TypeOK
\* The steps after which nobody owns more, and the pool has lost nothing.
<1>b. ASSUME NEW p \in Procs,
             \A q \in Procs \ {p} : /\ pc'[q] = pc[q] /\ held'[q] = held[q]
                                    /\ target'[q] = target[q],
             held'[p] \subseteq held[p],
             \/ pc'[p] \notin {"release_get", "release_cas"}
             \/ /\ target'[p] \in Addrs \ held'[p]
                /\ target'[p] \in Owned(p),
             kv.allocated \subseteq kv'.allocated
      PROVE  \A q \in Procs : Apart(q)'
  <2>1. \A q \in Procs : Owned(q)' \subseteq Owned(q)
    BY <1>b
  <2>2. \A q \in Procs : Releasing(q)' => target'[q] \in Addrs \ held'[q]
    BY <1>0, <1>b
  <2> QED
    BY <1>0, <1>b, <2>1, <2>2
<1>1. ASSUME NEW p \in Procs, InitializeIPPool(p) \/ AllocateIP(p)
      PROVE  \A q \in Procs : Apart(q)'
  BY <1>a, <1>b, <1>1 DEF InitializeIPPool, AllocateIP, Begin, Goto
<1>2. ASSUME NEW p \in Procs, NEW a \in Addrs, ReleaseIP(p, a)
      PROVE  \A q \in Procs : Apart(q)'
  <2>1. /\ pc' = [pc EXCEPT ![p] = "release_get"]
        /\ target' = [target EXCEPT ![p] = a]
        /\ held' = [held EXCEPT ![p] = @ \ {a}]
        /\ a \in held[p] /\ kv' = kv
    BY <1>2 DEF ReleaseIP, Begin, Goto
  <2> QED
    BY <1>a, <1>b, <2>1
<1>3. ASSUME NEW p \in Procs, NEW r, Return(p, r), held'[p] \subseteq held[p],
             \A q \in Procs \ {p} : held'[q] = held[q],
             kv.allocated \subseteq kv'.allocated
      PROVE  \A q \in Procs : Apart(q)'
  <2>1. /\ pc' = [pc EXCEPT ![p] = "idle"]
        /\ target' = [target EXCEPT ![p] = NoIP]
    BY <1>3 DEF Return, Goto
  <2> QED
    BY <1>a, <1>b, <1>3, <2>1
<1>4. ASSUME NEW p \in Procs, Quiet(p)
      PROVE  \A q \in Procs : Apart(q)'
  <2>1. CASE \E r : ReturnOnly(p, r)
    BY <1>3, <2>1 DEF ReturnOnly
  <2>2. CASE /\ pc[p] = "release_get" /\ ReadPool(p, "release_cas")
    BY <1>0, <1>a, <1>b, <2>2 DEF ReadPool, Goto
  <2>3. CASE \E l \in {"init_put", "alloc_cas"} : ReadPool(p, l)
    BY <1>a, <1>b, <2>3 DEF ReadPool, Goto
  <2>4. CASE Retry(p, "alloc_get")
    BY <1>a, <1>b, <2>1, <2>4 DEF Retry, Goto
  <2>5. CASE pc[p] = "release_cas" /\ Retry(p, "release_get")
    BY <1>0, <1>a, <1>b, <2>1, <2>5 DEF Retry, Goto
  <2> QED
    BY <1>4, <2>1, <2>2, <2>3, <2>4, <2>5 DEF Quiet
<1>5. ASSUME NEW p \in Procs, InitPut(p)
      PROVE  \A q \in Procs : Apart(q)'
  <2>1. kv.allocated = {}
    BY <1>0, <1>5 DEF BootOnce, InitPut
  <2> QED
    BY <1>3, <1>5, <2>1 DEF InitPut
<1>6. ASSUME NEW p \in Procs, AllocWrites(p)
      PROVE  \A q \in Procs : Apart(q)'
  <2>1. /\ ~ Releasing(p)
        /\ \A q \in Procs : Owned(q) \subseteq kv.allocated
    BY <1>0, <1>6 DEF AllocWrites, AllocCAS
  <2>2. \A q \in Procs \ {p} : Owned(q)' = Owned(q)
    BY <1>6, <1>a, WritesFresh
  <2>3. Owned(p)' = Owned(p) \cup {NextIP(p)}
    BY <1>6, <1>a, <2>1, WritesFresh
  <2>4. \A q \in Procs : Releasing(q)' => target'[q] \in Addrs \ held'[q]
    BY <1>0, <1>6, <1>a, WritesFresh
  <2> QED
    BY <1>0, <1>6, <2>1, <2>2, <2>3, <2>4, WritesFresh
<1>7. ASSUME NEW p \in Procs, ReleaseWrites(p)
      PROVE  \A q \in Procs : Apart(q)'
  <2>1. Releasing(p)
    BY <1>7 DEF ReleaseWrites, ReleaseCAS
  <2>2. \A q \in Procs \ {p} : Owned(q)' = Owned(q)
    BY <1>7, <1>a, WritesFresh
  <2>3. Owned(p)' = Owned(p) \ {target[p]}
    BY <1>0, <1>7, <1>a, <2>1, WritesFresh
  <2>4. \A q \in Procs : Releasing(q)' => target'[q] \in Addrs \ held'[q]
    BY <1>0, <1>7, <1>a, WritesFresh
  <2> QED
    BY <1>0, <1>7, <2>1, <2>2, <2>3, <2>4, WritesFresh
<1>8. ASSUME NEW p \in Procs, AllocUnanswered(p) \/ ReleaseUnanswered(p)
      PROVE  \A q \in Procs : Apart(q)'
  BY <1>3, <1>8 DEF AllocUnanswered, ReleaseUnanswered, Unanswered
<1>9. ASSUME NEW p \in Procs, Crash(p)
      PROVE  \A q \in Procs : Apart(q)'
  BY <1>3, <1>9, <1>a DEF Crash
<1>10. ASSUME NEW w \in delayed, Deliver(w)
       PROVE  \A q \in Procs : Apart(q)'
  <2>1. \A q \in Procs : Owned(q)' = Owned(q) /\ Releasing(q)' = Releasing(q)
    BY <1>10 DEF Deliver
  <2>2. \A q \in Procs : Owned(q) \subseteq kv'.allocated
    <3>1. CASE ~ Matches(w.index)
      BY <1>0, <1>10, <3>1 DEF Deliver, DelayedSafe, Exists, NoKey
    <3>2. CASE Matches(w.index)
      BY <1>0, <1>10, <3>2 DEF Deliver, DelayedSafe, SafeValue, Put
    <3> QED
      BY <3>1, <3>2
  <2> QED
    BY <1>0, <1>10, <2>1, <2>2 DEF Deliver
<1>11. CASE UNCHANGED vars
  BY <1>0, <1>11 DEF vars
<1>12. ASSUME NEW p \in Procs, Step(p) \/ Fault(p)
       PROVE  \A q \in Procs : Apart(q)'
  BY <1>3, <1>4, <1>5, <1>6, <1>7, <1>8, <1>12, StepKinds DEF LateBoot
<1> QED
  BY <1>1, <1>2, <1>9, <1>10, <1>11, <1>12 DEF Next, Call

LEMMA DelayedStep ==
    ASSUME IInv, SequentialBoot, [Next]_vars
    PROVE  DelayedSafe'
<1>0. TypeOK /\ BootOnce /\ ReadsVersioned /\ DelayedSafe /\ OwnedApart /\ TargetsKnown
  BY DEF IInv
<1>a. /\ pc \in [Procs -> Control] /\ held \in [Procs -> SUBSET Addrs]
      /\ target \in [Procs -> Addrs \cup {NoIP}] /\ delayed \subseteq Values
  BY <1>0 DEF TypeOK
<1>b. /\ kv.index \in Nat /\ \A w \in delayed : w.index \in Nat
      /\ (kv' = kv \/ kv'.index = kv.index + 1)
  BY <1>0, <1>a, IndexGrows DEF Values
\* After a write no delayed request can succeed any more.
<1>c. ASSUME kv' # kv, delayed' \subseteq delayed
      PROVE  DelayedSafe'
  BY <1>0, <1>b, <1>c DEF DelayedSafe, Exists, Matches
\* Without one, a delayed request stays safe as long as nobody owns more.
<1>d. ASSUME kv' = kv, delayed' \subseteq delayed,
             OwnersOnly => \A q \in Procs : Owned(q)' \subseteq Owned(q)
      PROVE  DelayedSafe'
  BY <1>0, <1>d DEF DelayedSafe, SafeValue, Exists, Matches
<1>1. ASSUME NEW p \in Procs, InitializeIPPool(p) \/ AllocateIP(p)
      PROVE  DelayedSafe'
  BY <1>a, <1>d, <1>1
     DEF InitializeIPPool, AllocateIP, Begin, Goto, Owned, Releasing
<1>2. ASSUME NEW p \in Procs, NEW a \in Addrs, ReleaseIP(p, a)
      PROVE  DelayedSafe'
  BY <1>a, <1>d, <1>2 DEF ReleaseIP, Begin, Goto, Owned, Releasing
<1>3. ASSUME NEW p \in Procs, Quiet(p)
      PROVE  DelayedSafe'
  <2>1. kv' = kv /\ delayed' = delayed /\ held' = held
    BY <1>3 DEF Quiet, ReturnOnly, ReadPool, Retry
  <2>2. \A q \in Procs : Owned(q)' \subseteq Owned(q)
    <3>1. CASE \E r : ReturnOnly(p, r)
      BY <1>a, <2>1, <3>1 DEF ReturnOnly, Return, Goto, Owned, Releasing
    <3>2. CASE \E l \in {"init_put", "alloc_cas"} : ReadPool(p, l)
      BY <1>a, <2>1, <3>2 DEF ReadPool, Goto, Owned, Releasing
    <3>3. CASE pc[p] = "release_get" /\ ReadPool(p, "release_cas")
      BY <1>a, <2>1, <3>3 DEF ReadPool, Goto, Owned, Releasing
    <3>4. CASE Retry(p, "alloc_get")
      BY <1>a, <2>1, <3>1, <3>4 DEF Retry, Goto, Owned, Releasing
    <3>5. CASE pc[p] = "release_cas" /\ Retry(p, "release_get")
      BY <1>a, <2>1, <3>1, <3>5 DEF Retry, Goto, Owned, Releasing
    <3> QED
      BY <1>3, <3>1, <3>2, <3>3, <3>4, <3>5 DEF Quiet
  <2> QED
    BY <1>d, <2>1, <2>2
<1>4. ASSUME NEW p \in Procs, InitPut(p) \/ AllocWrites(p) \/ ReleaseWrites(p)
      PROVE  DelayedSafe'
  <2>1. delayed' = delayed
    BY <1>4, WritesFresh DEF InitPut
  <2>2. kv'.index = kv.index + 1
    BY <1>4 DEF InitPut, AllocWrites, AllocCAS, ReleaseWrites, ReleaseCAS, Put
  <2> QED
    BY <1>b, <1>c, <2>1, <2>2
<1>5. ASSUME NEW p \in Procs, AllocUnanswered(p) \/ ReleaseUnanswered(p)
      PROVE  DelayedSafe'
  <2>0. PICK new : new = [index |-> snap[p].index,
                          allocated |-> IF pc[p] = "alloc_cas" THEN AllocValue(p)
                                                               ELSE ReleaseValue(p)]
    OBVIOUS
  <2>1. /\ delayed' = delayed \cup {new} /\ kv' = kv /\ held' = held
        /\ pc' = [pc EXCEPT ![p] = "idle"]
        /\ target' = [target EXCEPT ![p] = NoIP]
    BY <1>5, <2>0
       DEF AllocUnanswered, ReleaseUnanswered, Unanswered, Return, Goto
  <2>2. \A q \in Procs : Owned(q)' \subseteq Owned(q)
    BY <1>a, <2>1 DEF Owned, Releasing
  <2>3. /\ Exists(snap[p]) /\ snap[p].index <= kv.index
        /\ Matches(snap[p].index) => snap[p] = kv
    BY <1>0, <1>5 DEF ReadsVersioned, AllocUnanswered, ReleaseUnanswered
  <2>4. ASSUME Matches(snap[p].index)
        PROVE  SafeValue(new.allocated)'
    <3>1. CASE pc[p] = "alloc_cas"
      <4>1. new.allocated = kv.allocated \cup {LowestFree(kv.allocated)}
        BY <2>0, <2>3, <2>4, <3>1 DEF AllocValue, NextIP
      <4>2. Free(kv.allocated) # {}
        BY <1>0, <2>3, <2>4, <3>1 DEF ReadsVersioned
      <4> QED
        BY <2>1, <4>1, <4>2 DEF SafeValue
    <3>2. CASE pc[p] # "alloc_cas"
      <4>1. /\ pc[p] = "release_cas" /\ target[p] \in kv.allocated
            /\ new.allocated = kv.allocated \ {target[p]}
        BY <1>0, <1>5, <2>0, <2>3, <2>4, <3>2
           DEF ReadsVersioned, AllocUnanswered, ReleaseUnanswered, ReleaseValue
      <4>2. PICK a : a = target[p]
        OBVIOUS
      <4>3. ASSUME OwnersOnly, NEW q \in Procs
            PROVE  a \notin Owned(q)'
        <5>1. a \in Owned(p) /\ a \notin held[p]
          BY <1>0, <4>1, <4>2, <4>3 DEF OwnedApart, Owned, Releasing
        <5>2. CASE q = p
          BY <1>a, <2>1, <5>1, <5>2 DEF Owned, Releasing
        <5>3. CASE q # p
          BY <1>0, <2>2, <4>3, <5>1, <5>3 DEF OwnedApart
        <5> QED
          BY <5>2, <5>3
      <4> QED
        BY <2>1, <4>1, <4>2, <4>3 DEF SafeValue
    <3> QED
      BY <3>1, <3>2
  <2>5. ASSUME NEW w \in delayed
        PROVE  /\ Exists(w)' /\ w.index <= kv'.index
               /\ Matches(w.index)' => SafeValue(w.allocated)'
    BY <1>0, <2>1, <2>2 DEF DelayedSafe, SafeValue, Exists, Matches
  <2>6. /\ Exists(new)' /\ new.index <= kv'.index
        /\ Matches(new.index)' => SafeValue(new.allocated)'
    <3>0. Exists(snap[p]) /\ snap[p].index <= kv.index
      BY <2>3
    <3>1. new.index = snap[p].index /\ kv' = kv
      BY <2>0, <2>1
    <3>2. Exists(new)' /\ new.index <= kv'.index
      BY <2>3, <3>1 DEF Exists
    <3>3. Matches(new.index)' => Matches(snap[p].index)
      BY <3>1 DEF Matches
    <3> QED
      BY <2>4, <3>2, <3>3, Zenon
  <2> QED
    <3> SUFFICES ASSUME NEW w \in delayed'
                 PROVE  /\ Exists(w)' /\ w.index <= kv'.index
                        /\ Matches(w.index)' => SafeValue(w.allocated)'
      BY DEF DelayedSafe
    <3>1. CASE w \in delayed
      BY <2>5, <3>1
    <3>2. CASE w = new
      BY <2>6, <3>2, Zenon
    <3> QED
      BY <2>1, <3>1, <3>2
<1>6. ASSUME NEW p \in Procs, Crash(p)
      PROVE  DelayedSafe'
  BY <1>a, <1>d, <1>6 DEF Crash, Return, Goto, Owned, Releasing
<1>7. ASSUME NEW w \in delayed, Deliver(w)
      PROVE  DelayedSafe'
  <2>1. CASE kv' = kv
    BY <1>d, <1>7, <2>1 DEF Deliver, Owned, Releasing
  <2>2. CASE kv' # kv
    BY <1>c, <1>7, <2>2 DEF Deliver
  <2> QED
    BY <2>1, <2>2
<1>8. CASE UNCHANGED vars
  BY <1>d, <1>8 DEF vars, Owned, Releasing
<1>9. ASSUME NEW p \in Procs, Step(p) \/ Fault(p)
      PROVE  DelayedSafe'
  BY <1>0, <1>3, <1>4, <1>5, <1>9, StepKinds, NoLateBoot
<1> QED
  BY <1>1, <1>2, <1>6, <1>7, <1>8, <1>9 DEF Next, Call

LEMMA RoundsStep ==
    ASSUME IInv, [Next]_vars
    PROVE  RoundsLost' /\ ContentionGenuine'
<1> USE DEF RoundsLost, ContentionGenuine
<1>0. TypeOK /\ ReadsVersioned /\ RoundsLost /\ ContentionGenuine
  BY DEF IInv
<1>a. /\ pc \in [Procs -> Control] /\ result \in [Procs -> Results]
      /\ began \in [Procs -> Nat] /\ attempt \in [Procs -> 0 .. MaxRetries - 1]
      /\ snap \in [Procs -> Values] /\ \A q \in Procs : snap[q].index \in Nat
  BY <1>0 DEF TypeOK, Values
<1>b. /\ kv.index \in Nat /\ kv'.index \in Nat /\ kv'.index >= kv.index
      /\ MaxRetries \in Nat
  BY <1>0, IndexGrows
\* The steps of p after which p is not in the loop or has just entered it.
<1>c. ASSUME NEW p \in Procs,
             \A q \in Procs \ {p} : /\ pc'[q] = pc[q] /\ result'[q] = result[q]
                                    /\ began'[q] = began[q] /\ snap'[q] = snap[q]
                                    /\ attempt'[q] = attempt[q],
             \/ /\ pc'[p] \in {"idle", "init_get", "init_put"}
                /\ attempt'[p] = 0
             \/ /\ pc'[p] \in {"alloc_get", "release_get"}
                /\ kv'.index >= began'[p] + attempt'[p]
             \/ /\ pc'[p] \in {"alloc_cas", "release_cas"}
                /\ snap'[p].index >= began'[p] + attempt'[p],
             result'[p] = "contention" => kv'.index >= began'[p] + MaxRetries
      PROVE  RoundsLost' /\ ContentionGenuine'
  <2> SUFFICES ASSUME NEW q \in Procs
               PROVE  /\ pc'[q] \in {"idle", "init_get", "init_put"} =>
                             attempt'[q] = 0
                      /\ pc'[q] \in {"alloc_get", "release_get"} =>
                             kv'.index >= began'[q] + attempt'[q]
                      /\ pc'[q] \in {"alloc_cas", "release_cas"} =>
                             snap'[q].index >= began'[q] + attempt'[q]
                      /\ result'[q] = "contention" =>
                             kv'.index >= began'[q] + MaxRetries
    OBVIOUS
  <2>1. CASE q = p
    BY <1>c, <2>1
  <2>2. CASE q # p
    BY <1>0, <1>a, <1>b, <1>c, <2>2
  <2> QED
    BY <2>1, <2>2
<1>1. ASSUME NEW p \in Procs, Call(p)
      PROVE  RoundsLost' /\ ContentionGenuine'
  <2>1. PICK l \in {"init_get", "alloc_get", "release_get"} : Begin(p, l)
    BY <1>1 DEF Call, InitializeIPPool, AllocateIP, ReleaseIP
  <2>2. attempt[p] = 0
    BY <1>0, <2>1 DEF Begin
  <2> QED
    BY <1>a, <1>b, <1>c, <2>1, <2>2 DEF Begin, Goto
<1>2. ASSUME NEW p \in Procs, NEW r, Return(p, r),
             r = "contention" => kv'.index >= began[p] + MaxRetries
      PROVE  RoundsLost' /\ ContentionGenuine'
  BY <1>a, <1>c, <1>2 DEF Return, Goto
<1>3. ASSUME NEW p \in Procs, Quiet(p)
      PROVE  RoundsLost' /\ ContentionGenuine'
  <2>1. CASE \E r \in Results \ {"contention"} : ReturnOnly(p, r)
    BY <1>2, <2>1 DEF ReturnOnly
  <2>2. CASE pc[p] = "init_get" /\ ReadPool(p, "init_put")
    BY <1>0, <1>a, <1>b, <1>c, <2>2 DEF ReadPool, Goto
  <2>3. CASE /\ pc[p] \in {"alloc_get", "release_get"}
             /\ \E l \in {"alloc_cas", "release_cas"} : ReadPool(p, l)
    BY <1>0, <1>a, <1>b, <1>c, <2>3 DEF ReadPool, Goto
  <2>4. CASE /\ pc[p] \in {"alloc_cas", "release_cas"} /\ ~Matches(snap[p].index)
             /\ \E l \in {"alloc_get", "release_get"} : Retry(p, l)
    <3>1. kv.index >= began[p] + attempt[p] + 1
      <4>1. /\ kv.index \in Nat /\ snap[p].index \in Nat
            /\ began[p] \in Nat /\ attempt[p] \in Nat
        BY <1>a, <1>b
      <4>2. snap[p].index <= kv.index /\ snap[p].index # kv.index
        BY <1>0, <2>4 DEF ReadsVersioned, Matches
      <4>3. snap[p].index >= began[p] + attempt[p]
        BY <1>0, <2>4
      <4> QED
        BY <4>1, <4>2, <4>3
    <3>2. CASE attempt[p] + 1 < MaxRetries
      <4>1. /\ \E l \in {"alloc_get", "release_get"} : pc' = [pc EXCEPT ![p] = l]
            /\ attempt' = [attempt EXCEPT ![p] = @ + 1]
            /\ snap' = [snap EXCEPT ![p] = NoKey]
            /\ kv' = kv /\ began' = began /\ result' = result
        BY <2>4, <3>2 DEF Retry, Goto
      <4>2. /\ pc'[p] \in {"alloc_get", "release_get"}
            /\ attempt'[p] = attempt[p] + 1
            /\ \A q \in Procs \ {p} : /\ pc'[q] = pc[q] /\ snap'[q] = snap[q]
                                     /\ attempt'[q] = attempt[q]
        BY <1>a, <4>1
      <4>3. kv'.index >= began'[p] + attempt'[p]
        BY <1>a, <1>b, <3>1, <4>1, <4>2
      <4>4. result'[p] = "contention" => kv'.index >= began'[p] + MaxRetries
        BY <1>0, <4>1
      <4> QED
        BY <1>c, <4>1, <4>2, <4>3, <4>4
    <3>3. CASE ~ (attempt[p] + 1 < MaxRetries)
      <4>1. kv.index >= began[p] + MaxRetries
        BY <1>a, <1>b, <3>1, <3>3
      <4> QED
        BY <1>2, <2>4, <3>3, <4>1 DEF Retry, ReturnOnly
    <3> QED
      BY <3>2, <3>3
  <2> QED
    BY <1>3, <2>1, <2>2, <2>3, <2>4 DEF Quiet
<1>4. ASSUME NEW p \in Procs, Step(p) \/ Fault(p)
      PROVE  RoundsLost' /\ ContentionGenuine'
  BY <1>2, <1>3, <1>4, StepKinds DEF InitPut, LateBoot, AllocWrites, AllocCAS,
     AllocUnanswered, ReleaseWrites, ReleaseCAS, ReleaseUnanswered, Unanswered
<1>5. ASSUME NEW p \in Procs, Crash(p)
      PROVE  RoundsLost' /\ ContentionGenuine'
  BY <1>2, <1>5 DEF Crash
<1>6. ASSUME NEW w \in delayed, Deliver(w)
      PROVE  RoundsLost' /\ ContentionGenuine'
  BY <1>0, <1>a, <1>b, <1>6 DEF Deliver
<1>7. CASE UNCHANGED vars
  BY <1>0, <1>7 DEF vars
<1> QED
  BY <1>1, <1>4, <1>5, <1>6, <1>7 DEF Next

LEMMA InvStep ==
    ASSUME IInv, SequentialBoot, [Next]_vars
    PROVE  IInv'
<1>1. TypeOK'
  <2>1. AllocReadsFree
    BY DEF IInv, ReadsVersioned, AllocReadsFree
  <2> QED
    BY <2>1, TypeStep DEF IInv
<1>2. BootOnce' /\ ReadsVersioned' /\ TargetsKnown'
  BY BootStep, ReadsStep
<1>3. OwnedApart'
  BY OwnedStep DEF OwnedApart, Apart
<1>4. DelayedSafe' /\ RoundsLost' /\ ContentionGenuine'
  BY DelayedStep, RoundsStep
<1> QED
  BY <1>1, <1>2, <1>3, <1>4 DEF IInv

\* IInv is an invariant, provided no two agents boot into an empty Consul.
THEOREM Invariance ==
    ASSUME SequentialBoot
    PROVE  Spec => []IInv
<1>1. IInv /\ [Next]_vars => IInv'
  BY InvStep
<1> QED
  BY InvInit, <1>1, PTL DEF Spec

\* No address is held by two callers, and every held one is allocated, when
\* addresses are released by their holders only.
THEOREM ExclusiveOwnership ==
    ASSUME SequentialBoot, OwnersOnly
    PROVE  Spec => []Exclusive
<1>1. IInv => Exclusive
  BY DEF IInv, OwnedApart, Owned, Exclusive
<1> QED
  BY Invariance, <1>1, PTL

\* A call that gives up for contention lost every round to a write made
\* while it was running.
THEOREM ContentionIsGenuine ==
    ASSUME SequentialBoot
    PROVE  Spec => []ContentionGenuine
<1>1. IInv => ContentionGenuine
  BY DEF IInv
<1> QED
  BY Invariance, <1>1, PTL
-----------------------------------------------------------------------------
(* Refinement.                                                             *)

LEMMA AbsDefinitions ==
    /\ Abs!Addrs = Addrs
    /\ \A S : Abs!Free(S) = Free(S)
    /\ \A S : Abs!LowestFree(S) = LowestFree(S)
BY DEF Abs!Addrs, Addrs, Abs!Free, Free, Abs!LowestFree, LowestFree

LEMMA AbsInit == Init => Abs!Init
BY DEF Init, Abs!Init, NoKey

LEMMA AbsStep ==
    ASSUME IInv, [Next]_vars
    PROVE  [Abs!Next]_Abs!vars
<1> USE AbsDefinitions
<1>0. /\ TypeOK /\ BootOnce /\ ReadsVersioned /\ DelayedSafe /\ OwnedApart
      /\ TargetsKnown
  BY DEF IInv
<1>a. held \in [Procs -> SUBSET Addrs] /\ kv.allocated \in SUBSET Addrs
  BY <1>0 DEF TypeOK, Values
<1>b. ASSUME kv' = kv, held' = held
      PROVE  [Abs!Next]_Abs!vars
  BY <1>b DEF Abs!vars
<1>1. ASSUME NEW p \in Procs, InitializeIPPool(p) \/ AllocateIP(p)
      PROVE  [Abs!Next]_Abs!vars
  BY <1>b, <1>1 DEF InitializeIPPool, AllocateIP, Begin
<1>2. ASSUME NEW p \in Procs, NEW kept \in SUBSET held[p], kv' = kv,
             held' = [held EXCEPT ![p] = kept]
      PROVE  [Abs!Next]_Abs!vars
  BY <1>2 DEF Abs!Next, Abs!GiveUp
<1>3. ASSUME NEW p \in Procs, NEW a \in Addrs, ReleaseIP(p, a)
      PROVE  [Abs!Next]_Abs!vars
  <2>1. held[p] \ {a} \in SUBSET held[p]
    OBVIOUS
  <2> QED
    BY <1>2, <1>3, <2>1, <1>a DEF ReleaseIP, Begin
<1>4. ASSUME NEW p \in Procs, Quiet(p)
      PROVE  [Abs!Next]_Abs!vars
  BY <1>b, <1>4 DEF Quiet, ReturnOnly, ReadPool, Retry
<1>5. ASSUME NEW p \in Procs, InitPut(p)
      PROVE  [Abs!Next]_Abs!vars
  BY <1>0, <1>5 DEF BootOnce, InitPut, Put, Abs!vars
<1>6. ASSUME NEW p \in Procs, AllocWrites(p)
      PROVE  [Abs!Next]_Abs!vars
  BY <1>6, WritesFresh DEF Abs!Next, Abs!Acquire
<1>7. ASSUME NEW p \in Procs, ReleaseWrites(p)
      PROVE  [Abs!Next]_Abs!vars
  <2>1. Releasing(p) /\ target[p] \in Addrs
    BY <1>0, <1>7 DEF Releasing, TargetsKnown, ReleaseWrites, ReleaseCAS
  <2>2. OwnersOnly => \A q \in Procs : target[p] \notin held[q]
    BY <1>0, <2>1 DEF OwnedApart, Owned
  <2>3. Abs!Reclaim(target[p])
    BY <1>7, <2>1, <2>2, WritesFresh DEF Abs!Reclaim
  <2> QED
    BY <2>1, <2>3 DEF Abs!Next
<1>8. ASSUME NEW p \in Procs, AllocUnanswered(p) \/ ReleaseUnanswered(p)
      PROVE  [Abs!Next]_Abs!vars
  BY <1>b, <1>8 DEF AllocUnanswered, ReleaseUnanswered, Unanswered
<1>9. ASSUME NEW p \in Procs, Crash(p)
      PROVE  [Abs!Next]_Abs!vars
  BY <1>2, <1>9, <1>a DEF Crash
<1>10. ASSUME NEW w \in delayed, Deliver(w)
       PROVE  [Abs!Next]_Abs!vars
  <2>1. CASE ~ Matches(w.index)
    BY <1>0, <1>b, <1>10, <2>1 DEF Deliver, DelayedSafe, Exists, NoKey
  <2>2. CASE Matches(w.index)
    <3>1. kv'.allocated = w.allocated /\ held' = held
      BY <1>10, <2>2 DEF Deliver, Put
    <3>2. CASE /\ Free(kv.allocated) # {}
               /\ w.allocated = kv.allocated \cup {LowestFree(kv.allocated)}
      BY <3>1, <3>2 DEF Abs!Next, Abs!Leak
    <3>3. ASSUME NEW a \in kv.allocated, w.allocated = kv.allocated \ {a},
                 OwnersOnly => \A p \in Procs : a \notin Owned(p)
          PROVE  [Abs!Next]_Abs!vars
      <4>1. Abs!Reclaim(a)
        BY <3>1, <3>3 DEF Abs!Reclaim, Owned
      <4> QED
        BY <1>a, <4>1 DEF Abs!Next
    <3> QED
      BY <1>0, <1>10, <2>2, <3>2, <3>3 DEF DelayedSafe, SafeValue
  <2> QED
    BY <2>1, <2>2
<1>11. CASE UNCHANGED vars
  BY <1>b, <1>11 DEF vars
<1>12. ASSUME NEW p \in Procs, Step(p) \/ Fault(p)
       PROVE  [Abs!Next]_Abs!vars
  BY <1>b, <1>4, <1>5, <1>6, <1>7, <1>8, <1>12, StepKinds DEF LateBoot
<1> QED
  BY <1>1, <1>3, <1>9, <1>10, <1>11, <1>12 DEF Next, Call

\* The read-and-compare-and-set loops over Consul implement the pool in which
\* every call is one step.
THEOREM Refinement ==
    ASSUME SequentialBoot
    PROVE  Spec => ImplementsAddressPool
<1>1. IInv /\ [Next]_vars => [Abs!Next]_Abs!vars
  BY AbsStep
<1> QED
  BY AbsInit, Invariance, <1>1, PTL DEF Spec, ImplementsAddressPool, Abs!Spec
=============================================================================
