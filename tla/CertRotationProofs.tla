------------------------- MODULE CertRotationProofs -------------------------
(***************************************************************************)
(* Proofs about CertRotation.tla: type correctness, and that a worker that *)
(* has missed no window runs with a valid certificate, for every lifetime  *)
(* of certificates, every number of workers and every phase of the ticker. *)
(***************************************************************************)
EXTENDS CertRotation, TLAPS

\* The numbers a lifetime determines.
LEMMA Times ==
    /\ Period \in Nat \ {0} /\ Threshold \in Nat
    /\ 5 * Period <= CertTTL
    /\ 4 * Threshold <= CertTTL
    /\ Expired \in Int /\ Expired < 0
    /\ MaxLag \in Nat /\ MaxLag <= CertTTL
    /\ CertTTL \in Nat /\ Grace \in Nat /\ Several \in Nat \ {0}
BY TimesAssumption DEF Period, Threshold, Expired

TypeInv == TypeOK /\ SignedInRound

LEMMA TypeInit == Init => TypeInv
<1> SUFFICES ASSUME Init PROVE TypeInv
  OBVIOUS
<1>1. 0 \in Expired .. CertTTL /\ Period \in 1 .. Period /\ -1 \in -1 .. MaxLag
      /\ 0 \in 0 .. MaxLag /\ 0 \in 0 .. Several /\ 0 \in 0 .. MaxDeaths
  BY Times, TimesAssumption
<1>2. due \in BOOLEAN
  BY Zenon DEF Init
<1>3. SignedInRound
  BY DEF Init, SignedInRound
<1> QED
  BY <1>1, <1>2, <1>3 DEF Init, TypeInv, TypeOK

\* The round goes on to the next record with counters in range.
LEMMA NextRecordTyped ==
    ASSUME TypeInv, NEW w \in Workers, NextRecord(w)
    PROVE  /\ round' \subseteq Workers /\ cur' = NoWorker
           /\ age' = -1 /\ lag' \in 0 .. MaxLag
BY Times DEF TypeInv, TypeOK, NextRecord

LEMMA MissTyped ==
    ASSUME TypeInv, NEW S, Miss(S) PROVE missed' \in [Workers -> 0 .. Several]
<1>1. ASSUME NEW n \in 0 .. Several, n < Several PROVE n + 1 \in 0 .. Several
  BY <1>1, Times
<1> QED
  BY <1>1 DEF TypeInv, TypeOK, Miss

LEMMA NewCertsTyped ==
    ASSUME TypeInv, NEW S, NewCerts(S)
    PROVE  /\ left' \in [Workers -> Expired .. CertTTL]
           /\ env' \in [Workers -> Expired .. CertTTL]
           /\ missed' \in [Workers -> 0 .. Several]
BY Times DEF TypeInv, TypeOK, NewCerts

LEMMA TypeStep == ASSUME TypeInv, [Next]_vars PROVE TypeInv'
<1> USE DEF TypeInv, TypeOK, SignedInRound, node, certs, rotation
<1>1. CASE Minute
  <2>1. \A t \in Expired .. CertTTL : Minus1(t) \in Expired .. CertTTL
    BY Times DEF Minus1
  <2>2. left' \in [Workers -> Expired .. CertTTL] /\ env' \in [Workers -> Expired .. CertTTL]
    BY <1>1, <2>1 DEF Minute
  <2>3. timer' \in 1 .. Period
    BY <1>1, Times DEF Minute
  <2>6. due' \in BOOLEAN
    BY <1>1, Zenon DEF Minute
  <2>4. lag' \in 0 .. MaxLag
    BY <1>1, Times DEF Minute
  <2>5. age' \in -1 .. MaxLag /\ SignedInRound'
    BY <1>1, Times DEF Minute, Idle
  <2> QED
    BY <1>1, <2>2, <2>3, <2>4, <2>5, <2>6 DEF Minute
<1>2. CASE RotateCertificates
  <2>1. due' \in BOOLEAN
    BY <1>2, Zenon DEF RotateCertificates
  <2>2. /\ missed' \in [Workers -> 0 .. Several]
        /\ round' \subseteq Workers
        /\ lag' \in 0 .. MaxLag
    BY <1>2, MissTyped, Times DEF RotateCertificates, Known, Idle
  <2>3. SignedInRound'
    BY <1>2, Times DEF RotateCertificates, Idle
  <2> QED
    BY <1>2, <2>1, <2>2, <2>3 DEF RotateCertificates
<1>3. ASSUME NEW w \in Workers, CheckCert(w) PROVE TypeInv'
  BY <1>3, MissTyped, NextRecordTyped, Times DEF CheckCert
<1>4. ASSUME NEW w \in Workers, SignNewCert(w) PROVE TypeInv'
  BY <1>4, MissTyped, NextRecordTyped, Times, WorkersAssumption DEF SignNewCert
<1>5. ASSUME NEW w \in Workers, Reload(w) PROVE TypeInv'
  <2>1. left' \in [Workers -> Expired .. CertTTL] /\ missed' \in [Workers -> 0 .. Several]
    BY <1>5, MissTyped, Times DEF Reload
  <2> QED
    BY <1>5, <2>1, NextRecordTyped, Times DEF Reload
<1>6. ASSUME NEW w \in Workers, StartInstance(w) PROVE TypeInv'
  BY <1>6, NewCertsTyped, Times DEF StartInstance
<1>7. ASSUME NEW w \in Workers, WorkerStep(w) \/ WorkerDies(w) PROVE TypeInv'
  BY <1>7, Times, TimesAssumption DEF WorkerStep, WatchCertExpiry, RunFromEnv, WorkerDies
<1>8. CASE AgentDies \/ AgentStops
  <2>1. due' \in BOOLEAN
    BY <1>8, Zenon DEF AgentDies, AgentStops, AgentEnds
  <2> QED
    BY <1>8, <2>1, Times, TimesAssumption DEF AgentDies, AgentStops, AgentEnds
<1>9. CASE AgentStarts
  <2>1. PICK S \in SUBSET Known, T \in SUBSET Known :
           /\ worker' = [w \in Workers |-> CASE w \in S -> "run"
                                             [] w \in T -> "stopped"
                                             [] OTHER -> worker[w]]
           /\ NewCerts(S)
           /\ tracked' = S
    BY <1>9 DEF AgentStarts
  <2>2. worker' \in [Workers -> {"none", "run", "dead", "exited", "stopped"}]
    BY <2>1
  <2> QED
    BY <1>9, <2>1, <2>2, NewCertsTyped, Times DEF AgentStarts, Known
<1>10. CASE UNCHANGED vars
  BY <1>10 DEF vars
<1> QED
  BY <1>1, <1>2, <1>3, <1>4, <1>5, <1>6, <1>7, <1>8, <1>9, <1>10 DEF Next, AgentStep

\* Every variable keeps its type: no round holds on to an old certificate or
\* lasts longer than MaxLag, whoever dies.
THEOREM TypeCorrect == Spec => []TypeOK
<1>1. TypeInv => TypeOK
  BY DEF TypeInv
<1> QED
  BY TypeInit, TypeStep, <1>1, PTL DEF Spec
-----------------------------------------------------------------------------

\* The margin of the threshold over the window covers the slowest round, and
\* a certificate is long enough for two of them and a window.
LEMMA Margin ==
    ASSUME RoundsInTime
    PROVE  /\ Threshold >= MaxLag + Period
           /\ CertTTL - MaxLag > MaxLag + Period
           /\ MaxLag < Period
           /\ Threshold < CertTTL
BY Times DEF RoundsInTime

\* The invariant as long as no process has died.
Alive ==
    /\ TypeOK /\ SignedInRound
    /\ NobodyDies /\ RoundUnderWay /\ OutlastsWait

LEMMA InvInit == Init => IInv
<1> SUFFICES ASSUME Init PROVE IInv
  OBVIOUS
<1>1. TypeOK /\ SignedInRound
  BY TypeInit DEF TypeInv
<1>2. NobodyDies /\ RoundUnderWay /\ OutlastsWait
  BY DEF Init, NobodyDies, RoundUnderWay, OutlastsWait, Idle
<1> QED
  BY <1>1, <1>2 DEF IInv

\* A worker that misses a window it needs is counted.
LEMMA MissCounts ==
    ASSUME TypeOK, NEW S, Miss(S), NEW w \in Workers
    PROVE  /\ w \in S /\ missed'[w] = 0 => left[w] > Threshold
           /\ missed'[w] = 0 => missed[w] = 0
           /\ w \notin S => missed'[w] = missed[w]
BY Times DEF TypeOK, Miss

LEMMA MinuteStep ==
    ASSUME Alive, RoundsInTime, TypeOK', Minute
    PROVE  RoundUnderWay' /\ OutlastsWait'
<1> USE DEF Alive, TypeOK
<1>1. \A w \in Workers :
          /\ left'[w] <= left[w]
          /\ left[w] >= 0 => left'[w] = left[w] - 1
  BY Times DEF Minute, Minus1
<1>2. agent = "up" /\ UNCHANGED <<worker, missed, round, cur>>
  BY DEF Minute, NobodyDies
<1>3. CASE due \/ ~Idle
  <2>1. lag' = lag + 1 /\ lag + 1 <= MaxLag /\ lag + timer = Period /\ timer # 1
    BY <1>3, Margin, Times DEF Minute, RoundUnderWay
  <2>2. timer' = timer - 1
    BY <1>2, <2>1 DEF Minute
  <2>3. due' <=> due
    BY <1>2, <2>1, Zenon DEF Minute
  <2>4. RoundUnderWay'
    BY <1>1, <1>2, <2>1, <2>2, <2>3, WorkersAssumption, Times
       DEF RoundUnderWay, Idle, Known
  <2>5. ASSUME NEW w \in Workers PROVE Wait(w)' = Wait(w) - 1 /\ Wait(w) \in Nat
    BY <1>2, <2>1, <2>2, <2>3, Times DEF Wait
  <2> QED
    BY <1>1, <1>2, <2>4, <2>5, Times DEF OutlastsWait
<1>4. CASE ~due /\ Idle
  <2>1. lag' = 0
    BY <1>4 DEF Minute
  <2>2. CASE timer = 1
    <3>1. timer' = Period
      BY <1>2, <2>2 DEF Minute
    <3>2. due'
      BY <1>2, <2>2, Zenon DEF Minute
    <3>3. RoundUnderWay'
      BY <1>2, <1>4, <2>1, <3>1, <3>2, WorkersAssumption, Times DEF RoundUnderWay, Idle, Known
    <3>4. ASSUME NEW w \in Workers PROVE Wait(w)' = MaxLag /\ Wait(w) = MaxLag + 1
      BY <1>4, <2>1, <2>2, <3>2, Times DEF Wait, Idle
    <3> QED
      BY <1>1, <1>2, <3>3, <3>4, Times DEF OutlastsWait
  <2>3. CASE timer # 1
    <3>1. timer' = timer - 1
      BY <1>2, <2>3 DEF Minute
    <3>2. ~due'
      BY <1>2, <1>4, <2>3, Zenon DEF Minute
    <3>3. RoundUnderWay'
      BY <1>2, <1>4, <2>1, <3>1, <3>2, WorkersAssumption DEF RoundUnderWay, Idle, Known
    <3>4. ASSUME NEW w \in Workers
          PROVE  Wait(w)' = Wait(w) - 1 /\ Wait(w) \in Nat
      BY <1>2, <1>4, <2>1, <3>1, <3>2, Times DEF Wait, Idle
    <3> QED
      BY <1>1, <1>2, <3>3, <3>4, Times DEF OutlastsWait
  <2> QED
    BY <2>2, <2>3
<1> QED
  BY <1>3, <1>4

LEMMA RotateStep ==
    ASSUME Alive, RoundsInTime, TypeOK', RotateCertificates
    PROVE  RoundUnderWay' /\ OutlastsWait'
<1> USE DEF Alive, TypeOK
<1>1. /\ due /\ Idle /\ ~due'
      /\ UNCHANGED <<worker, left, timer, cur>>
      /\ lag + timer = Period
  BY DEF RotateCertificates, RoundUnderWay, node
<1>2. CASE round' = Known /\ UNCHANGED missed /\ lag' = IF Known = {} THEN 0 ELSE lag
  <2>1. RoundUnderWay'
    BY <1>1, <1>2, WorkersAssumption DEF RoundUnderWay, Idle, Known
  <2>2. ASSUME NEW w \in Known PROVE Wait(w)' = Wait(w)
    BY <1>1, <1>2, <2>2 DEF Wait
  <2> QED
    BY <1>1, <1>2, <2>1, <2>2 DEF OutlastsWait, Known
<1>3. CASE Miss(Known) /\ lag' = 0 /\ UNCHANGED round
  <2>1. RoundUnderWay'
    BY <1>1, <1>3, WorkersAssumption DEF RoundUnderWay, Idle, Known
  <2>2. ASSUME NEW w \in Workers PROVE Wait(w)' = MaxLag + timer
    BY <1>1, <1>3 DEF Wait, Idle
  <2> QED
    BY <1>1, <1>3, <2>1, <2>2, MissCounts, Margin, Times DEF OutlastsWait, Known
<1> QED
  BY <1>2, <1>3 DEF RotateCertificates

\* A worker that leaves the round has missed a window or waits for the next.
LEMMA NextRecordStep ==
    ASSUME Alive, RoundsInTime, TypeOK', NEW w \in round, NextRecord(w),
           UNCHANGED <<worker, timer, due>>,
           \A v \in Workers \ {w} : left'[v] = left[v] /\ missed'[v] = missed[v],
           worker[w] = "run" /\ missed'[w] = 0 => left'[w] > MaxLag + timer
    PROVE  RoundUnderWay' /\ OutlastsWait'
<1> USE DEF Alive, TypeOK
<1>1. ~due /\ ~due'
  BY DEF RoundUnderWay, Idle
<1>2. /\ round' = round \ {w} /\ cur' = NoWorker
      /\ lag' = IF round = {w} THEN 0 ELSE lag
  BY DEF NextRecord
<1>3. RoundUnderWay'
  BY <1>1, <1>2 DEF RoundUnderWay, Idle, Known
<1>4. ASSUME NEW v \in Workers \ {w} PROVE Wait(v)' = Wait(v)
  BY <1>1, <1>2 DEF Wait
<1>5. Wait(w)' = MaxLag + timer
  BY <1>1, <1>2 DEF Wait
<1> QED
  BY <1>3, <1>4, <1>5 DEF OutlastsWait

LEMMA CheckCertStep ==
    ASSUME Alive, RoundsInTime, TypeOK', NEW w \in Workers, CheckCert(w)
    PROVE  RoundUnderWay' /\ OutlastsWait'
<1> USE DEF Alive
<1>1. w \in round /\ UNCHANGED <<worker, left, timer, due>>
  BY DEF CheckCert, node
<1>2. CASE Miss({w}) /\ NextRecord(w)
  BY <1>1, <1>2, MissCounts, NextRecordStep, Margin, Times DEF TypeOK
<1>3. CASE left[w] > Threshold /\ NextRecord(w) /\ UNCHANGED missed
  BY <1>1, <1>3, NextRecordStep, Margin, Times DEF TypeOK
<1>4. CASE ~(left[w] > Threshold) /\ cur' = w /\ UNCHANGED <<round, age, lag, missed>>
  <2>1. RoundUnderWay'
    BY <1>1, <1>4, Times DEF RoundUnderWay, Idle, Known, TypeOK
  <2> QED
    BY <1>1, <1>4, <2>1 DEF OutlastsWait, Wait
<1> QED
  BY <1>2, <1>3, <1>4 DEF CheckCert

LEMMA SignNewCertStep ==
    ASSUME Alive, RoundsInTime, TypeOK', NEW w \in Workers, SignNewCert(w)
    PROVE  RoundUnderWay' /\ OutlastsWait'
<1> USE DEF Alive
<1>1. /\ cur = w /\ w \in round /\ left[w] <= Threshold
      /\ UNCHANGED <<worker, left, timer, due>>
  BY WorkersAssumption DEF SignNewCert, RoundUnderWay, node
<1>2. CASE UNCHANGED <<round, cur, lag, missed>>
  BY <1>1, <1>2 DEF RoundUnderWay, OutlastsWait, Wait, Idle, Known
<1>3. CASE Miss({w}) /\ NextRecord(w)
  BY <1>1, <1>3, MissCounts, NextRecordStep, Times DEF TypeOK
<1> QED
  BY <1>2, <1>3 DEF SignNewCert

LEMMA ReloadStep ==
    ASSUME Alive, RoundsInTime, TypeOK', NEW w \in Workers, Reload(w)
    PROVE  RoundUnderWay' /\ OutlastsWait'
<1> USE DEF Alive
<1>1. /\ cur = w /\ w \in round /\ left[w] <= Threshold
      /\ UNCHANGED <<worker, timer, due>> /\ NextRecord(w)
  BY WorkersAssumption DEF Reload, RoundUnderWay, node
<1>2. CASE left' = [left EXCEPT ![w] = CertTTL - age] /\ missed' = [missed EXCEPT ![w] = 0]
  <2>1. CertTTL - age > MaxLag + timer
    BY Margin, Times DEF SignedInRound, TypeOK
  <2> QED
    BY <1>1, <1>2, <2>1, NextRecordStep DEF TypeOK
<1>3. CASE Miss({w}) /\ UNCHANGED left
  BY <1>1, <1>3, MissCounts, NextRecordStep, Times DEF TypeOK
<1> QED
  BY <1>2, <1>3 DEF Reload

LEMMA StartInstanceStep ==
    ASSUME Alive, RoundsInTime, TypeOK', NEW w \in Workers, StartInstance(w)
    PROVE  NobodyDies' /\ RoundUnderWay' /\ OutlastsWait'
<1> USE DEF Alive, TypeOK
<1>1. /\ worker[w] = "none" /\ worker' = [worker EXCEPT ![w] = "run"]
      /\ tracked' = tracked \cup {w}
      /\ UNCHANGED <<agent, timer, due, round, cur, lag>>
      /\ left' = [v \in Workers |-> IF v = w THEN CertTTL ELSE left[v]]
      /\ missed' = [v \in Workers |-> IF v = w THEN 0 ELSE missed[v]]
  BY DEF StartInstance, NewCerts, rotation
<1>2. NobodyDies'
  BY <1>1 DEF NobodyDies
<1>3. cur # w
  BY <1>1, WorkersAssumption DEF RoundUnderWay, Known
<1>4. RoundUnderWay'
  BY <1>1, <1>3, WorkersAssumption DEF RoundUnderWay, Idle, Known
<1>5. CertTTL > Wait(w)
  BY Margin, Times DEF Wait
<1> QED
  BY <1>1, <1>2, <1>4, <1>5 DEF OutlastsWait, Wait

\* What a step that is no death preserves.
LEMMA AliveStep ==
    ASSUME RoundsInTime, Alive, TypeOK', [Next]_vars, deaths' = deaths, deaths = 0
    PROVE  NobodyDies' /\ RoundUnderWay' /\ OutlastsWait'
<1> USE DEF Alive
<1>1. deaths \in Nat
  BY TimesAssumption DEF TypeOK
<1>2. CASE Minute
  <2>1. NobodyDies'
    BY <1>2 DEF Minute, NobodyDies, node
  <2> QED
    BY <1>2, <2>1, MinuteStep
<1>3. CASE AgentStep
  <2>1. NobodyDies'
    BY <1>3 DEF AgentStep, RotateCertificates, CheckCert, SignNewCert, Reload, NobodyDies, node
  <2> QED
    BY <1>3, <2>1, RotateStep, CheckCertStep, SignNewCertStep, ReloadStep DEF AgentStep
<1>4. ASSUME NEW w \in Workers, StartInstance(w) PROVE  NobodyDies' /\ RoundUnderWay' /\ OutlastsWait'
  BY <1>4, StartInstanceStep
<1>5. ASSUME NEW w \in Workers, WorkerStep(w) PROVE  NobodyDies' /\ RoundUnderWay' /\ OutlastsWait'
  <2>1. /\ worker' = [worker EXCEPT ![w] = "exited"]
        /\ worker[w] = "run"
        /\ UNCHANGED <<node, left, env, missed, rotation>>
    BY <1>5 DEF WorkerStep, WatchCertExpiry, RunFromEnv, NobodyDies
  <2>2. NobodyDies' /\ RoundUnderWay' /\ OutlastsWait'
    BY <2>1 DEF NobodyDies, RoundUnderWay, OutlastsWait, Wait, Idle, Known, TypeOK, node, rotation
  <2> QED
    BY <2>2
<1>6. CASE UNCHANGED vars
  BY <1>6 DEF vars, node, certs, rotation, NobodyDies, RoundUnderWay,
     OutlastsWait, Wait, Idle, Known
<1>7. ~AgentDies /\ ~AgentStops /\ ~AgentStarts /\ \A w \in Workers : ~WorkerDies(w)
  BY <1>1 DEF NobodyDies, AgentDies, AgentStops, AgentEnds, AgentStarts, WorkerDies
<1> QED
  BY <1>2, <1>3, <1>4, <1>5, <1>6, <1>7 DEF Next

LEMMA InvStep ==
    ASSUME RoundsInTime, IInv, [Next]_vars PROVE IInv'
<1> USE DEF IInv
<1>1. TypeOK' /\ SignedInRound'
  BY TypeStep DEF TypeInv
<1>2. deaths \in Nat /\ (deaths' = deaths \/ deaths' = deaths + 1)
  <2>1. deaths \in Nat
    BY TimesAssumption DEF TypeOK
  <2>2. CASE Minute \/ AgentStep \/ UNCHANGED vars
    BY <2>1, <2>2 DEF vars, node, Minute, AgentStep, RotateCertificates, CheckCert,
       SignNewCert, Reload
  <2>3. CASE \E w \in Workers : StartInstance(w) \/ WorkerStep(w) \/ WorkerDies(w)
    BY <2>1, <2>3 DEF node, WorkerStep, StartInstance, WatchCertExpiry, RunFromEnv, WorkerDies
  <2>4. CASE AgentDies \/ AgentStops \/ AgentStarts
    BY <2>1, <2>4 DEF AgentDies, AgentStops, AgentEnds, AgentStarts
  <2> QED
    BY <2>1, <2>2, <2>3, <2>4 DEF Next
<1>3. ASSUME deaths' = 0 PROVE NobodyDies' /\ RoundUnderWay' /\ OutlastsWait'
  BY <1>1, <1>2, <1>3, AliveStep DEF Alive
<1> QED
  BY <1>1, <1>3

\* The inductive invariant holds when rounds are quick.
THEOREM Invariance == ASSUME RoundsInTime PROVE Spec => []IInv
<1>1. IInv /\ [Next]_vars => IInv'
  BY InvStep
<1> QED
  BY InvInit, <1>1, PTL DEF Spec

\* As long as no process has died, a worker that has missed no window runs
\* with a valid certificate: the threshold of a quarter and the window of a fifth leave enough time, for
\* every lifetime and whenever the worker was started.
THEOREM RenewedInTime ==
    ASSUME RoundsInTime PROVE Spec => []ValidUnlessMissed
<1>1. IInv => ValidUnlessMissed
  BY Times DEF IInv, TypeOK, OutlastsWait, Wait, ValidUnlessMissed
<1> QED
  BY Invariance, <1>1, PTL
=============================================================================
