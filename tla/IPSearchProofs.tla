--------------------------- MODULE IPSearchProofs ---------------------------
(***************************************************************************)
(* For every range of IPv4 addresses that does not end at the top of the   *)
(* address space, the search of IPSearch.tla finds the lowest free address *)
(* and gives up only on a full range.                                      *)
(***************************************************************************)
EXTENDS IPSearch, TLAPS

\* The ends of a range in bounds are numbers, in order.
LEMMA BoundsAreNumbers ==
    ASSUME TypeOK, InBounds
    PROVE  /\ start \in Nat /\ end \in Nat /\ start <= end /\ end < Top
           /\ ToInt(start) = start /\ ToInt(end) = end
BY TopAssumption, IPv6Assumption DEF TypeOK, InBounds, Accepted, ToInt, Words

LEMMA InitInv == Init => IInv
BY TopAssumption, NoIPAssumption
   DEF Init, IInv, TypeOK, StaysInRange, PassedTaken, Words

LEMMA TypeStep == ASSUME TypeOK, [Next]_vars PROVE TypeOK'
<1> USE TopAssumption DEF TypeOK, pool
<1>1. CASE Begin
  BY <1>1 DEF Begin, ToInt, Words
<1>2. CASE Skip
  BY <1>2 DEF Skip, Succ, Words
<1>3. CASE Take
  BY <1>3 DEF Take
<1>4. CASE GiveUp
  BY <1>4 DEF GiveUp
<1>5. ASSUME NEW a \in allocated, Release(a) PROVE TypeOK'
  BY <1>5 DEF Release
<1>6. CASE UNCHANGED vars
  BY <1>6 DEF vars
<1> QED BY <1>1, <1>2, <1>3, <1>4, <1>5, <1>6 DEF Next

LEMMA InvStep == ASSUME IInv, [Next]_vars PROVE IInv'
<1>1. TypeOK'
  BY TypeStep DEF IInv
<1>2. start' = start /\ end' = end
  BY DEF Next, vars, pool, Begin, Skip, Take, GiveUp, Release
<1>3. CASE ~InBounds
  BY <1>1, <1>2, <1>3 DEF IInv, StaysInRange, PassedTaken, InBounds
<1>4. CASE InBounds
  <2>1. /\ start \in Nat /\ end \in Nat /\ start <= end /\ end < Top
        /\ ToInt(start) = start /\ ToInt(end) = end
    BY <1>4, BoundsAreNumbers DEF IInv
  <2>2. ip \in Nat /\ allocated \subseteq Range
    BY <1>4, TopAssumption DEF IInv, TypeOK, Words, StaysInRange
  <2>3. CASE Begin
    BY <1>1, <1>2, <2>1, <2>2, <2>3
       DEF IInv, StaysInRange, PassedTaken, Begin, pool, Range
  <2>4. CASE Skip
    <3>1. ip <= end /\ start <= ip /\ (\A a \in Range : a < ip => a \in allocated)
      BY <1>4, <2>1, <2>4 DEF IInv, PassedTaken, Skip, InLoop
    <3>2. ip' = ip + 1 /\ ip \in allocated /\ allocated' = allocated
      BY <2>1, <2>2, <2>4, <3>1, TopAssumption DEF Skip, Succ, pool
    <3>3. \A a \in Range : a < ip + 1 => a < ip \/ a = ip
      BY <2>1, <2>2 DEF Range
    <3> QED BY <1>1, <1>2, <2>1, <2>2, <3>1, <3>2, <3>3
            DEF IInv, StaysInRange, PassedTaken, Range
  <2>5. CASE Take
    <3>1. ip \in Range
      BY <1>4, <2>1, <2>2, <2>5 DEF IInv, PassedTaken, Take, InLoop, Range
    <3> QED BY <1>1, <1>2, <2>2, <2>5, <3>1
            DEF IInv, StaysInRange, PassedTaken, Take, Range
  <2>6. CASE GiveUp
    BY <1>1, <1>2, <2>2, <2>6
       DEF IInv, StaysInRange, PassedTaken, GiveUp, pool, Range
  <2>7. ASSUME NEW a \in allocated, Release(a) PROVE IInv'
    BY <1>1, <1>2, <2>2, <2>7
       DEF IInv, StaysInRange, PassedTaken, Release, Range
  <2>8. CASE UNCHANGED vars
    BY <1>1, <2>8 DEF IInv, StaysInRange, PassedTaken, vars, pool, InBounds, Range
  <2> QED BY <2>3, <2>4, <2>5, <2>6, <2>7, <2>8 DEF Next
<1> QED BY <1>3, <1>4

\* IInv of IPSearch.tla: what the loop of findNextAvailableIP has passed is
\* taken, and its counter does not wrap around (consul.go:394).
THEOREM Invariance == Spec => []IInv
<1>1. IInv /\ [Next]_vars => IInv'
  BY InvStep
<1> QED BY <1>1, InitInv, PTL DEF Spec

\* StaysInRange of IPSearch.tla: a pool never holds an address outside its
\* range (consul.go:357).
THEOREM PoolStaysInRange == Spec => []StaysInRange
<1>1. IInv => StaysInRange
  BY DEF IInv
<1> QED BY <1>1, Invariance, PTL

\* FindsLowest of IPSearch.tla: the loop of findNextAvailableIP does what
\* LowestFree of Addresses.tla says, on which the other modules rest.
THEOREM SearchFindsLowest == Spec => FindsLowest
<1>1. ASSUME IInv, Next, InBounds
      PROVE  /\ allocated' \ allocated # {} =>
                   \A a \in Range : a < result' => a \in allocated
             /\ GiveUp => Range \subseteq allocated
  <2>1. /\ start \in Nat /\ end \in Nat /\ ToInt(end) = end
    BY <1>1, BoundsAreNumbers DEF IInv
  <2>2. ip \in Nat
    BY <1>1, TopAssumption DEF IInv, TypeOK, Words
  <2>3. pc = "scan" => \A a \in Range : a < ip => a \in allocated
    BY <1>1 DEF IInv, PassedTaken
  <2>4. ASSUME allocated' \ allocated # {}
        PROVE  \A a \in Range : a < result' => a \in allocated
    <3>1. Take
      BY <1>1, <2>4 DEF Next, Begin, Skip, GiveUp, Release, pool
    <3> QED BY <2>3, <3>1 DEF Take
  <2>5. ASSUME GiveUp
        PROVE  Range \subseteq allocated
    <3>1. pc = "scan" /\ ip > end
      BY <2>1, <2>2, <2>5 DEF GiveUp, InLoop
    <3>2. \A a \in Range : a < ip
      BY <2>1, <2>2, <3>1 DEF Range
    <3> QED BY <2>3, <3>1, <3>2
  <2> QED BY <2>4, <2>5
<1>2. IInv /\ [Next]_vars =>
        [ InBounds =>
            /\ allocated' \ allocated # {} =>
                  \A a \in Range : a < result' => a \in allocated
            /\ GiveUp => Range \subseteq allocated ]_vars
  BY <1>1
<1> QED BY <1>2, Invariance, PTL DEF Spec, FindsLowest
=============================================================================
