---------------------------- MODULE CertRotation ----------------------------
(***************************************************************************)
(* Certificate rotation on one node: the rotation worker of the agent      *)
(* (pkg/agent/agent.go, rotateCertificates and rotateSingleCert), and the  *)
(* expiry watchdog and config reload of each Nebula worker process         *)
(* (pkg/worker/worker.go).  The agent looks at the certificates every      *)
(* fifth of their lifetime and renews those with less than a quarter left; *)
(* a worker whose certificate has been expired for a while shuts down, and *)
(* one that dies comes back with the certificate it was started with.      *)
(*                                                                         *)
(* Time is counted in the watchdog's intervals, minutes.  The allocations  *)
(* of the workers live on, and their records stay.                         *)
(***************************************************************************)
EXTENDS Integers

CONSTANTS
    Workers,
    CertTTL,    \* CertTTL
    Grace,      \* gracePeriod, 5
    MaxLag,     \* assumption: a rotation round ends so soon after its tick
    Faults,     \* what may fail, a subset of FaultKinds
    MaxDeaths,  \* bound: processes that die, in all
    Several,    \* bound: missed windows are counted up to here
    NoWorker

FaultKinds == {
    "list",            \* getLocalAllocations
    "read",            \* GetCertFromConfig
    "sign",            \* the metadata, the certificate, the CA or the config
    "reload",          \* ReloadConfig, and nothing is reloaded
    "start",           \* the restart of an instance when the agent starts
    "worker",          \* the worker process dies
    "agent" }          \* the agent process dies

ASSUME TimesAssumption ==
    /\ CertTTL \in Nat /\ CertTTL >= 5
    /\ Grace \in Nat
    /\ MaxLag \in Nat /\ MaxLag <= CertTTL
    /\ MaxDeaths \in Nat
    /\ Several \in Nat \ {0}
ASSUME WorkersAssumption == NoWorker \notin Workers
ASSUME FaultsAssumption == Faults \subseteq FaultKinds

Period == CertTTL \div 5

TenthOfTTL == CertTTL \div 10   \* mutant of Threshold
Threshold == CertTTL \div 4

VARIABLES
    agent,    \* the agent process
    worker,   \* worker[w]: the process of w's unit
    tracked,  \* the workers in NebulaManager.instances
    left,     \* left[w]: what is left of the certificate w runs with
    env,      \* env[w]: of the one in NEBULA_CONFIG of its unit
    timer,    \* until the rotation ticker fires
    due,      \* a tick is waiting in the ticker's channel
    round,    \* the records the round has yet to look at
    cur,      \* the worker being rotated
    age,      \* the age of the certificate signed for it, or -1
    lag,      \* since the tick of this round
    missed,   \* history: windows w has missed since it has its certificate
    deaths

node == <<agent, tracked, deaths>>
certs == <<worker, left, env, missed>>
rotation == <<timer, due, round, cur, age, lag>>
vars == <<node, certs, rotation>>

Expired == -Grace - 1   \* so long that nothing more changes

Init ==
    /\ agent = "up"
    /\ worker = [w \in Workers |-> "none"]
    /\ tracked = {}
    /\ left = [w \in Workers |-> 0]
    /\ env = [w \in Workers |-> 0]
    /\ timer = Period
    /\ due = FALSE
    /\ round = {}
    /\ cur = NoWorker
    /\ age = -1
    /\ lag = 0
    /\ missed = [w \in Workers |-> 0]
    /\ deaths = 0

MayFail(f) == f \in Faults
Idle == round = {} /\ cur = NoWorker

\* The workers whose allocations have records.  (One that Nomad does not
\* report as running is left out of a round, with the effect of a "read" that
\* fails.)
Known == {w \in Workers : worker[w] # "none"}
-----------------------------------------------------------------------------
(* Time.                                                                   *)

Minus1(t) == IF t > Expired THEN t - 1 ELSE t

\* A round is not held up for more than MaxLag, the watchdog looks every
\* minute, and systemd restarts a worker at once.
Minute ==
    /\ ~Idle \/ due => lag < MaxLag
    /\ \A w \in Workers :
          /\ worker[w] # "dead"
          /\ worker[w] = "run" => left[w] >= -Grace
    /\ left' = [w \in Workers |-> Minus1(left[w])]
    /\ env' = [w \in Workers |-> Minus1(env[w])]
    /\ IF agent = "up"
       THEN /\ timer' = IF timer = 1 THEN Period ELSE timer - 1
            /\ due' = (due \/ timer = 1)
       ELSE UNCHANGED <<timer, due>>
    /\ lag' = IF ~Idle \/ due THEN lag + 1 ELSE 0
    /\ age' = IF age >= 0 THEN age + 1 ELSE age
    /\ UNCHANGED <<node, worker, missed, round, cur>>
-----------------------------------------------------------------------------
(* The rotation worker of the agent.                                       *)

\* The windows S misses: those of its workers whose certificate was due.
Miss(S) ==
    missed' = [w \in Workers |->
        IF w \in S /\ left[w] <= Threshold /\ missed[w] < Several
        THEN missed[w] + 1 ELSE missed[w]]

\* Mutant: what was signed for one record is kept for the next.
NextRecordKeepsCert(w) ==
    /\ round' = round \ {w}
    /\ cur' = NoWorker
    /\ age' = age
    /\ lag' = IF round = {w} THEN 0 ELSE lag

\* The round goes on to the next record.
NextRecord(w) ==
    /\ round' = round \ {w}
    /\ cur' = NoWorker
    /\ age' = -1
    /\ lag' = IF round = {w} THEN 0 ELSE lag

\* getLocalAllocations lists the records.
RotateCertificates ==
    /\ agent = "up"
    /\ due /\ Idle
    /\ due' = FALSE
    /\ \/ /\ round' = Known
          /\ lag' = IF Known = {} THEN 0 ELSE lag
          /\ UNCHANGED missed
       \/ /\ MayFail("list")
          /\ Miss(Known)
          /\ lag' = 0
          /\ UNCHANGED round
    /\ UNCHANGED <<node, worker, left, env, timer, cur, age>>

\* The agent knows the worker and gets an answer from it: GetCertFromConfig
\* returns the certificate w runs with, and ReloadConfig can replace it.
Reachable(w) == worker[w] = "run" /\ w \in tracked

\* GetCertFromConfig, and the comparison with a quarter of the lifetime.
CheckCert(w) ==
    /\ w \in round /\ cur = NoWorker
    /\ \/ /\ ~Reachable(w) \/ MayFail("read")
          /\ Miss({w})
          /\ NextRecord(w)
       \/ /\ Reachable(w)
          /\ IF left[w] > Threshold
             THEN NextRecord(w)
             ELSE cur' = w /\ UNCHANGED <<round, age, lag>>
          /\ UNCHANGED missed
    /\ UNCHANGED <<node, worker, left, env, timer, due>>

\* rotateSingleCert up to the new config.
SignNewCert(w) ==
    /\ cur = w /\ age = -1
    /\ \/ /\ age' = 0
          /\ UNCHANGED <<round, cur, lag, missed>>
       \/ /\ MayFail("sign")
          /\ Miss({w})
          /\ NextRecord(w)
    /\ UNCHANGED <<node, worker, left, env, timer, due>>

\* ReloadConfig: the worker takes the new certificate over.  Whether its
\* answer arrives makes no difference: a failed record is only counted.
Reload(w) ==
    /\ cur = w /\ age >= 0
    /\ \/ /\ Reachable(w)
          /\ left' = [left EXCEPT ![w] = CertTTL - age]
          /\ missed' = [missed EXCEPT ![w] = 0]
       \/ /\ ~Reachable(w) \/ MayFail("reload")
          /\ Miss({w})
          /\ UNCHANGED left
    /\ NextRecord(w)
    /\ UNCHANGED <<node, worker, env, timer, due>>
-----------------------------------------------------------------------------
(* The workers.                                                            *)

\* The units of S are started with new certificates.
NewCerts(S) ==
    /\ left' = [w \in Workers |-> IF w \in S THEN CertTTL ELSE left[w]]
    /\ env' = [w \in Workers |-> IF w \in S THEN CertTTL ELSE env[w]]
    /\ missed' = [w \in Workers |-> IF w \in S THEN 0 ELSE missed[w]]

\* The ADD of an allocation.
StartInstance(w) ==
    /\ agent = "up"
    /\ worker[w] = "none"
    /\ worker' = [worker EXCEPT ![w] = "run"]
    /\ NewCerts({w})
    /\ tracked' = tracked \cup {w}
    /\ UNCHANGED <<agent, deaths, rotation>>

\* Mutant: the worker ends in failure, so that systemd starts it again.
WatchEndsInFailure(w) ==
    /\ worker[w] = "run"
    /\ left[w] < -Grace
    /\ worker' = [worker EXCEPT ![w] = "dead"]
    /\ UNCHANGED <<node, left, env, missed, rotation>>

\* watchCertExpiry: the worker shuts down, and systemd does not restart what
\* has ended well.
WatchCertExpiry(w) ==
    /\ worker[w] = "run"
    /\ left[w] < -Grace
    /\ worker' = [worker EXCEPT ![w] = "exited"]
    /\ UNCHANGED <<node, left, env, missed, rotation>>

WorkerDies(w) ==
    /\ MayFail("worker") /\ deaths < MaxDeaths
    /\ worker[w] = "run"
    /\ worker' = [worker EXCEPT ![w] = "dead"]
    /\ deaths' = deaths + 1
    /\ UNCHANGED <<agent, tracked, left, env, missed, rotation>>

\* Restart=on-failure: the new process reads NEBULA_CONFIG, and Nebula may
\* refuse a certificate that has expired, until systemd gives up.
RunFromEnv(w) ==
    /\ worker[w] = "dead"
    /\ \/ /\ worker' = [worker EXCEPT ![w] = "run"]
          /\ left' = [left EXCEPT ![w] = env[w]]
       \/ /\ env[w] <= 0
          /\ worker' = [worker EXCEPT ![w] = "exited"]
          /\ UNCHANGED left
    /\ UNCHANGED <<node, env, missed, rotation>>
-----------------------------------------------------------------------------
(* The agent process dies and comes back; the units go on without it.      *)

AgentEnds ==
    /\ agent = "up"
    /\ agent' = "down"
    /\ deaths' = deaths + 1
    /\ tracked' = {}
    /\ due' = FALSE
    /\ round' = {}
    /\ cur' = NoWorker
    /\ age' = -1
    /\ lag' = 0
    /\ UNCHANGED timer

AgentDies ==
    /\ MayFail("agent") /\ deaths < MaxDeaths
    /\ AgentEnds
    /\ UNCHANGED certs

\* Stop: StopAll stops the units the agent knows.
AgentStops ==
    /\ MayFail("agent") /\ deaths < MaxDeaths
    /\ AgentEnds
    /\ worker' = [w \in Workers |-> IF w \in tracked THEN "stopped" ELSE worker[w]]
    /\ UNCHANGED <<left, env, missed>>

\* restartLocalInstances starts every instance anew.  The agent does not know
\* one that fails to start; its old unit may be stopped by then.  (It starts them
\* one after another; the time this takes is not counted.)
AgentStarts ==
    /\ agent = "down"
    /\ agent' = "up"
    /\ \E S \in SUBSET Known, T \in SUBSET Known :
          /\ MayFail("start") \/ S = Known
          /\ T \cap S = {}
          /\ worker' = [w \in Workers |-> CASE w \in S -> "run"
                                            [] w \in T -> "stopped"
                                            [] OTHER -> worker[w]]
          /\ NewCerts(S)
          /\ tracked' = S
    /\ timer' = Period
    /\ UNCHANGED <<deaths, due, round, cur, age, lag>>

AgentStep ==
    \/ RotateCertificates
    \/ \E w \in Workers : CheckCert(w) \/ SignNewCert(w) \/ Reload(w)

WorkerStep(w) == WatchCertExpiry(w) \/ RunFromEnv(w)

Next ==
    \/ Minute
    \/ AgentStep
    \/ \E w \in Workers : StartInstance(w) \/ WorkerStep(w) \/ WorkerDies(w)
    \/ AgentDies \/ AgentStops \/ AgentStarts

Spec == Init /\ [][Next]_vars

\* Time passes, and both programs go on with what is due.  A dead agent need
\* not come back.
FairSpec ==
    /\ Spec
    /\ WF_vars(Minute)
    /\ WF_vars(AgentStep)
    /\ \A w \in Workers : WF_vars(WorkerStep(w))
-----------------------------------------------------------------------------
(* Properties.                                                             *)

\* The variables hold values of their types.
TypeOK ==
    /\ agent \in {"up", "down"}
    /\ worker \in [Workers -> {"none", "run", "dead", "exited", "stopped"}]
    /\ tracked \subseteq Workers
    /\ left \in [Workers -> Expired .. CertTTL]
    /\ env \in [Workers -> Expired .. CertTTL]
    /\ timer \in 1 .. Period
    /\ due \in BOOLEAN
    /\ round \subseteq Workers
    /\ cur \in Workers \cup {NoWorker}
    /\ age \in -1 .. MaxLag
    /\ lag \in 0 .. MaxLag
    /\ missed \in [Workers -> 0 .. Several]
    /\ deaths \in 0 .. MaxDeaths

\* As long as no process has died, a worker that has missed no window runs
\* with a valid certificate: the renewal at a quarter of the lifetime comes in
\* time for every phase of the ticker and every slow round.
ValidUnlessMissed ==
    deaths = 0 =>
        \A w \in Workers : worker[w] = "run" /\ missed[w] = 0 => left[w] > 0

\* A worker with an expired certificate gets a new one or shuts down, even if
\* the agent is gone for good.
ExpiryIsResolved ==
    \A w \in Workers :
        worker[w] = "run" /\ left[w] <= 0
            ~> left[w] > 0 \/ worker[w] \in {"exited", "stopped"}

\* "An expired cert means the agent missed several rotation windows" (worker.go
\* :116): a worker that has shut down has missed at least two.
SeveralWindowsMissed ==
    \A w \in Workers : worker[w] = "exited" => missed[w] >= 2
-----------------------------------------------------------------------------
(* The inductive invariant of CertRotationProofs.tla.                      *)

\* A round is over before the margin between threshold and window is used up,
\* and before the next window.
RoundsInTime ==
    /\ MaxLag <= Threshold - Period
    /\ MaxLag < Period

\* The agent is there and knows every worker that runs.
NobodyDies ==
    /\ agent = "up"
    /\ \A w \in Workers :
          /\ worker[w] # "dead"
          /\ worker[w] = "run" => w \in tracked

\* A signed certificate is for the worker being rotated, and no older than
\* its round.
SignedInRound ==
    /\ age >= 0 => cur # NoWorker
    /\ age <= lag

\* The time since the tick of the round under way is counted, and that round
\* rotates certificates that are due.
RoundUnderWay ==
    /\ due => Idle
    /\ round \subseteq Known
    /\ due \/ ~Idle => lag + timer = Period
    /\ cur # NoWorker => cur \in round /\ left[cur] <= Threshold

\* How long it may still take until w is looked at, and renewed.
Wait(w) == IF due \/ w \in round THEN MaxLag - lag ELSE MaxLag + timer

\* A worker that has missed no window outlasts the wait for the next one.
OutlastsWait ==
    \A w \in Workers :
        worker[w] = "run" /\ missed[w] = 0 => left[w] > Wait(w)

IInv ==
    /\ TypeOK
    /\ SignedInRound
    /\ deaths = 0 => NobodyDies /\ RoundUnderWay /\ OutlastsWait
=============================================================================
