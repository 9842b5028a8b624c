# nebula-nomad-cni: specifications and proofs

TLA+ specifications of the CNI plugin, the agent and the workers of
nebula-nomad-cni, the TLC configurations that check them on small instances,
and TLAPS proofs about the IP pool, the request handlers, the plugin, the
cleanup, the restart, certificate rotation, the worker and the Vault signer. Line numbers refer to the
source under `src/`.

    tlc -workers 2 -config IPPool_safe.cfg MCIPPool.tla
    tlapm IPPoolProofs.tla

## 1. The system

A Nomad task gets a Nebula (mesh VPN) interface through a CNI plugin. On each
node the plugin calls an agent over a unix socket; the agent takes an address
from a pool in Consul, signs a certificate, starts a Nebula worker as a
transient systemd unit in the task's network namespace, and records the
allocation in Consul. The agents of all nodes share one Consul.

    Nomad --ADD/DEL--> CNI plugin --HTTP--> agent --KV, CAS--> Consul
                                             |  |---------> Nomad API, Vault or local CA
                                             |--D-Bus--> systemd --> worker (Nebula)
                                             |--unix socket: get-config, reload--^

| Component | State | Operations | What makes it correct |
|---|---|---|---|
| IP pool (`pkg/agent/consul.go`) | one Consul key: range, allocated addresses, ModifyIndex | InitializeIPPool, AllocateIP, ReleaseIP, GetIPPool | no lost update, no address to two callers, calls end |
| allocation records (`consul.go`) | one Consul key per allocation | store, get, delete, list | a record stands for a unit and an allocated address |
| request handlers (`pkg/agent/agent.go`) | none but the calls in progress | handleAllocate, handleDeallocate | roll-back undoes its own work only; release after stop |
| NebulaManager (`pkg/agent/nebula.go`) | map of instances, a lock, the connection to systemd; systemd's units | StartInstance, StopInstance, StopAll, StopOrphanedUnits, ReloadConfig, GetCertFromConfig | the map and the units agree |
| cleanup (`agent.go:336`) | what it has listed in the pass | one pass at start, one each hour | reclaims what is orphaned and nothing else |
| restart of instances (`agent.go:530`) | the local records it has listed | one pass before the agent listens | every live record has its unit again |
| certificate rotation (`agent.go:628`) | a ticker, the round in progress | rotateCertificates, rotateSingleCert | a certificate is renewed before it expires |
| worker process (`pkg/worker/worker.go`) | the configuration it runs with, and the one in its environment | watchCertExpiry, reload, shutdown, socket server | acknowledged reloads are in effect; it does not outlive its certificate; it ends cleanly |
| worker RPC client (`pkg/worker/client.go`) | none | ping, get-config, reload, stop | five-second deadline |
| Vault signer (`pkg/agent/vault.go`) | a token on a shared client | check, renew, log in, sign | no request with a token that could have been renewed |
| local signer (`pkg/agent/signing.go`) | CA certificate and key | sign | |
| Nomad client (`pkg/agent/nomad.go`) | none | GetTaskMetadata | |
| CNI plugin (`cmd/nebula-nomad-cni`), client library (`pkg/client`) | none; the macvlan interface and firewall of the task | cmdAdd, cmdDel; 30 s time-out | a successful ADD works; a successful DEL leaves nothing |
| instance configuration (`nebula.go:223`, `yaml.go`) | none | merge of base, job and PKI maps | the agent's PKI wins |
| configuration, mains, version, packaging | none | | |

What is hard about it:

* *Concurrency.* Each request has a goroutine; handlers, hourly cleanup,
  rotation and StopAll of one agent run beside each other and beside those of
  all other agents. Consul's compare-and-set protects the pool, a mutex the map
  of instances; nothing protects what spans two calls. Requests for one
  allocation overlap, because the client gives up after 30 seconds and its
  handler does not.
* *Failure.* A call on Consul may fail with or without effect, or take effect
  later; systemd may refuse; an agent or a worker may die between any two steps.
* *Stale lists.* Cleanup, restart and rotation act on lists they have read
  earlier. Cleanup compares a list of records with a pool, and later with
  units, read after it.
* *Time.* Rotation works in windows of a fifth of the certificate's lifetime
  with a threshold of a quarter; the worker's watchdog has a fixed grace of
  five minutes.

`PROJECT.json` lists each such hazard at its line, with the property that
covers it or the reason why none does.

## 2. The modules

    Addresses ----- AddressPool            (abstract pool)
        |   \          ^    ^
        |    IPPool ---'    | implement    MCIPPool         IPPoolProofs
        |                   |
    Allocation -------------'              MCAllocation     AllocationProofs
        |   \                                                  |        |
        |    Plugin                        MCPlugin         PluginProofs |
    Cluster                                MCCluster        ClusterProofs

    IPSearch                               MCIPSearch       IPSearchProofs
    CertRotation                           MCCertRotation   CertRotationProofs
    VaultSigner                            MCVaultSigner    VaultSignerProofs
    WorkerProcess                          MCWorkerProcess  WorkerProcessProofs

A module below another extends it: Plugin and Cluster are the handlers with
those who call them and those who work beside them.

**Addresses** is the range of the pool and `LowestFree`, the address that
`findNextAvailableIP` returns: it scans upwards from the start of the range, so
it finds the least address that is not allocated (IPSearch shows it). Addresses
are integers; the mask suffix is cut off on both sides of each comparison in the
code. An address outside the range cannot get into the pool's list.

**IPSearch** is that loop with its unsigned counter, which wraps at `Top`, and
`ipToInt`, which takes an IPv6 address for 0. `Begin`, `Skip`, `Take` and
`GiveUp` are its steps; `Accepted` are the ranges `InitializeIPPool` writes. One
caller fills the pool and `Release`s addresses in any order.

**AddressPool** is what callers rely on: `Acquire` gives the lowest free
address in one step, `Leak` takes one for a caller that never learns of it,
`GiveUp` and `Reclaim` are the two halves of a release.

**IPPool** models `InitializeIPPool`, `AllocateIP` and `ReleaseIP` request by
request. `kv` is the Consul key with its ModifyIndex, `snap[p]` what the last
Get of goroutine `p` returned, `attempt[p]` the loop counter, `delayed` the
writes whose caller has an error already and which Consul may still receive
(`Deliver`): compare-and-sets and, with `LatePuts`, the unconditional Put of a
boot. `AllocGet`/`AllocCAS` and `ReleaseGet`/`ReleaseCAS` are the
halves of a round, `Retry` is the end of a lost round, `InitPut` the
unconditional Put of an agent that found no pool. A caller of ReleaseIP ignores
its error, so `held` loses the address when the call begins. `held` and `began`
are history variables.

**Allocation** models the two handlers over pool, records, instances and units.
Each call a handler makes is one step, in the order of the code, with a
disjunct or an action for its failure: `AddMetadata`, `AddCheck`,
`AddAllocate`, `AddSign`, `AddStart`, `AddStore`, the roll-back `AddUndoStop`,
`AddUndoRelease`; `DelLookup`, `DelStop`, `DelRelease`, `DelDelete`. That
AllocateIP and ReleaseIP are single steps here is justified from both sides.
IPPool implements AddressPool, in which they are, and so do the handlers
(`UsesAddressPool`): `AddAllocate` is `Acquire`, its failure with an effect is
`Leak`, `ReleaseIP` is `Reclaim`, of an address that its handlers and tasks no
longer rely on (`Relied`). That is what IPPool assumes of its callers
(`OwnersOnly`). A write that arrives after its caller has gone on is kept to
IPPool. `FaultKinds` names the calls that may fail; each run
chooses among them. A failed call may have had its effect: "allocate" covers
both, "store_applied" is a record stored, "start_applied" a unit started,
"stop_unit" a unit forgotten that runs on. `nomad[a]` runs from running to complete (the DEL may come)
to gone (garbage-collected).

**Plugin** puts the CNI plugin and the client library before the handlers.
`conf` is the network configuration; `addCni[r]` and `delCni[d]` say where each
invocation is. `CmdAdd`, `DelegateMacvlan`, `ApplyFirewall`, `SendAllocate`,
`AddReturns` follow `cmdAdd`; `CmdDel`, `DelReturns`, `DelegateMacvlanDel` follow
`cmdDel`. `HandleAdd` and `HandleDel` are Allocation's handlers, which run once
the request is sent, also when the plugin gave up after 30 seconds. Nomad runs
one invocation for an allocation at a time (`Busy`), and sends the DELs when the
task is over. The macvlan plugin is external: it fails when its interface
exists. An ADD may fail even after the agent's success, when its result cannot
be printed ("print"). `overtook` is a history variable: the DELs that read the record while
the handler of an ADD was at work.

**Cluster** adds the agents of several nodes: `agent[n]` is the process,
`clean[n]` the cleanup pass or restart it is in with all it has listed,
`closing[n]` what StopAll has still to visit. `CleanList` .. `CleanDone` follow
`cleanupStaleAllocations` call by call: records, then pool, then units;
`RestartList` .. `RestartDone` follow `restartLocalInstances`; `AgentStarts`
runs both before requests are served. The restart takes what Nomad reports as
running and is not repeated: "pending" is a task that Nomad does not report yet. `Crash`, `Stop`/`StopAll`/`StopDone` end a
process: its map of instances and its requests are lost, Consul and the units
stay. A DEL that finds no agent is lost (`DelLost`).

**CertRotation** models time, in minutes: `left[w]` is what remains of the
certificate worker `w` runs with, `env[w]` of the one in its environment,
`timer` and `due` the ticker and the tick waiting in its channel (a Go ticker
keeps one), `round` and `cur` the round in progress, `missed[w]` a history of
the windows in which a due certificate was not renewed. `RotateCertificates`,
`CheckCert`, `SignNewCert`, `Reload` are the round; `WatchCertExpiry` is the
watchdog; `RunFromEnv` is systemd's Restart=on-failure, which brings back the
certificate of the environment. `AgentStops` is the orderly end of the agent, in
which StopAll stops the units it knows, and `AgentDies` the other one;
`AgentStarts` starts all instances anew, or fails to for some, which the agent
then does not know.

**VaultSigner** is one Vault client shared by concurrent calls of
SignCertificate and GetCACertificate. `token` is the client's token, as its time
to live and what is left of its maximum lifetime, in minutes; `got[p]` is a token
Vault has issued to a login whose answer is on its way. `EnsureValidToken`,
`LookupSelf`, `RenewSelf`, `LoginAppRole`, `SetToken` follow `ensureValidToken`;
`Request` is the call proper, with whatever token the client has by then.

**WorkerProcess** is one worker process and the clients of its socket: `Run`
(`StartNebula`, `StartSocketServer`, `AcceptEnds`), a goroutine per connection
(`AcceptConnection`, `Decode`, `GetConfig`, `ReloadConfig`, `SendResponse`), the
watchdog in the two steps it reads and acts in (`WatchReads`, `WatchCompares`),
and `Shutdown`, the four calls of which interleave with those of another
shutdown and with the end of the process. A configuration is known by its
certificate: the number of the reload that brought it. `Scripts` are the
requests a run lets arrive. CertRotation has the same worker as one state, over
time and over restarts.

## 3. The runs

Bounds are the constants of the `.cfg` files; every one has a name in the module.

| Run | Shows | Instance |
|---|---|---|
| `IPPool_safe` | `Exclusive`: no address with two holders, every held one allocated. `ContentionGenuine`: a call that ends with "too much contention" was overtaken in each round. `ImplementsAddressPool`. `CallsReturn` under fairness. `IInv`, the invariant of the proofs | 3 goroutines, 2 addresses, 2 rounds, 2 calls each, one booting agent, holders release |
| `IPPool_boot` (violation) | two agents booting into an empty Consul: the second Put empties a pool in use | 2 booting agents |
| `Allocation_safe` | `ExclusiveIP`: no two units with one address, none free that a unit uses. `SuccessBacked`: an answered ADD keeps record, unit and address, however many ADDs of that allocation overlap. `UsesAddressPool`: the handlers implement the abstract pool as its callers. `IInv` | 2 allocations, 3 ADDs (two of one allocation), 1 DEL each, 3 addresses |
| `Plugin_del` | `AddedWorks`: a successful ADD has its record, unit, address, interface and firewall. `DelLeavesNothing`: a successful DEL leaves none of them. `LeaksOnlyWhenOvertaken`: no address is lost, unless a DEL overtook an ADD. `PluginInv` and `DelInv`, the invariants of the proofs | 1 allocation, 2 ADDs, 2 DELs, all failures but those of systemd with an effect ("stop_unit", "start_applied") and of a pool that does not answer |
| `Cluster_recover` | `EventuallyTidy`: after the last crash and request no address, record or unit is left over | 1 allocation, 2 nodes (both clean up), 1 ADD, 1 DEL, one stop or crash, calls that fail with an effect, a Nomad that fails or reports late |
| `Cluster_spare` | `CleanupSparesListed`: a pass leaves alone what it has listed and Nomad knows. `PassesApart`, the invariant it follows from. `RestartRestores`: an agent that listens again has every live instance, with the address of its record. `RestartInv`, the invariant it follows from | 2 allocations, 1 node, 2 ADDs, 1 DEL, two stops or crashes |
| `Cluster_orphan_ip` (violation) | cleanup reclaims an address that is in a record | 1 allocation, 1 node, no fault |
| `CertRotation_rotate` | `ValidUnlessMissed`: a worker that missed no window has a valid certificate, as long as no process died. `ExpiryIsResolved`: an expired certificate is replaced or its worker ends. `IInv`, the invariant of the proofs | 2 workers, lifetime 20, a round at most 1 late, 1 death of agent or worker, all faults |
| `CertRotation_several` (violation) | one window in which signing fails is enough for a shutdown | 1 worker, the default lifetime of 60 minutes |
| `VaultSigner_token` | `NeverLapses`: a request finds the token expired only when Vault no longer renews it. `IInv`, the invariant of the proofs | 2 callers, window 3, time to live 5, maximum 7, calls of at most 2 minutes, all faults |
| `IPSearch_scan` | `StaysInRange`, `FindsLowest`: the lowest free address, "none" only on a full range. `SearchEnds`. `IInv`, the invariant of the proofs | addresses of 6 values, every range, every order of taking and releasing |
| `WorkerProcess_serve` | `AcknowledgedInEffect`, `ReadsItsReloads`: an acknowledged reload is in effect and read back. `WatchdogSpares` it. `OrderlyExit`, `ShutdownEnds`: a shutdown ends and leaves neither socket nor Nebula. `WorkerOK`: no waiting client is forgotten. `WorkerInv`, the invariant of the proofs | 6 scripts of up to 4 requests, all faults |

Why these bounds are enough to be interesting:

* *IPPool.* Three goroutines are a loser, a winner and a bystander; two
  addresses let the pool be full and an address be given out again; two rounds
  let a call lose once and go on, and lose twice and give up (the code has ten);
  two calls let a goroutine release what it took. Lost answers are unbounded.
* *Allocation.* Two ADDs of one allocation overlap at any step, beside a third
  ADD and the DELs of both; three addresses are one per ADD.
* *Plugin.* Two ADDs and two DELs make a repeated ADD, a repeated DEL, an ADD
  whose handler outlives its invocation and a DEL that overtakes it. It has
  neither the "allocate" nor the "release" fault: an address is lost by
  definition when AllocateIP took it and its caller got an error, or when
  ReleaseIP fails, and cleanup is there for these (`Cluster_recover` has both).
  There is one allocation: with a second one and "store_applied", an address can
  be released, and given out again, while the record that was left behind still
  names it; see section 4.
* *Cluster.* One allocation suffices for the left-overs, since they do not
  interact; two nodes because both agents clean the same record. What differs
  with a second allocation, an address reused at once, is in `Cluster_spare`.
  There a process may end twice, so that the second end meets the restart after
  the first; its list of records, too, may fail.
* *CertRotation.* A lifetime of 20 has a window of 4 and a threshold of 5, the
  smallest margin (1) that there can be; two workers share a round.
  A worker may start at any phase of the ticker. `MaxLag` is how long after its
  tick a round may last, waiting for the one before included. It is an
  assumption on the environment, as the code bounds no round: it must not exceed
  the margin, a twentieth of the lifetime (3 minutes for the default hour). The
  bound is tight: with 2 instead of 1 `ValidUnlessMissed` is violated.
* *VaultSigner.* The window is just longer than a call, and a token just longer
  than two (`CallsPrompt`); the maximum lifetime lets a token be renewed in full,
  in part, and no more. Two calls suffice for one to replace the token another
  has checked. The code's window is five minutes; it sets no bound on
  a call itself but relies on the time-outs of Vault's client library.
* *IPSearch.* Six addresses have ranges of every length at either end of the
  address space; the state space covers every subset of every range.
* *WorkerProcess.* The scripts are rotations beside a read, a rotation beside a
  STOP, two STOPs, a silent client, and failing requests; the watchdog may expire
  any certificate at any time. Two reloads are needed for a late one to undo a
  newer one, and a third to be acknowledged after it.

`CHECK_DEADLOCK FALSE` is set where the number of calls, requests and failures
is bounded and the system rests in the end; CertRotation and VaultSigner, where
time goes on, and IPSearch are checked for deadlock.

*Fairness.* A goroutine inside a call is scheduled and its requests return
(`WF` of `Step`, of a handler that has begun, of the agent's and the workers'
steps); the hourly tick comes; systemd starts an agent again that has ended
(README.md:53, `Restart=always`); time passes. Nothing forces a request to
arrive, a task to stop, a call to fail, a delayed write to arrive. In
CertRotation a dead agent need not come back. In WorkerProcess the goroutines of
connections, the shutdowns and the accept loop go on while the process lives;
the watchdog need not tick, no request has to come and a silent client may stay
silent for ever. In IPSearch the loop goes on.

## 4. Where code and comments disagree

* `consul.go:51` says the pool is initialised "if it doesn't exist"; the Put
  at line 113 is unconditional, so the pool of an agent that booted in between
  is emptied (`IPPool_boot`). All results on the pool assume `SequentialBoot`:
  the pool exists, or a single agent boots first. It also excludes that the Put
  of a boot arrives after that agent has got an error and was started again
  (`LatePuts`), which has the same effect.
* `agent.go:365` calls the addresses it reclaims orphans with "no Consul record";
  the records were read before the pool, so an ADD in between loses its
  address, which is then given out again (`Cluster_orphan_ip`).
* `worker.go:115` says an expired certificate means "several" missed windows;
  with the default lifetime of an hour (`config.go:50`) a certificate with 4 to
  6 minutes left in a failed window (it had more than the threshold of 15 in the
  one before) is past expiry and grace before the next, 12 minutes later
  (`CertRotation_several`).

Behaviour that no comment denies, or that a reader sees at once, and that shapes
the assumptions of the runs and theorems:

* `nebula.go:282` says a stopped unit has "no Consul record and no live Nomad
  task"; Nomad is not asked, and the records are those listed before the pool was
  read, so the unit of an ADD that came in between is stopped.
  `CleanupSparesListed` is about what the pass has listed.
* `agent.go:341` says a dangling record is one whose task is gone; any error of
  Nomad makes a record dangling. `PassesApart` fails when "nomad" is among
  `CleanerFaults`, hence the assumption `NomadAnswers`.
* `main.go:92` of the agent takes signals while Start restarts the instances
  (`agent.go:530`). An agent that is told to stop then stops what it has
  restarted while the restart goes on, and what the restart creates after
  StopAll has passed stays a unit of a process that ends.
  `RestartRestores` is about agents that nobody has told to stop, also those
  started after such an end.
* `agent.go:516` restarts and rotates what Nomad reports as running
  (`nomad.go:160`). A CNI ADD comes before its task runs, so an allocation may
  have its record and network while Nomad does not list it yet: an agent that
  starts just then passes it over, and does not look again. `RestartRestores`
  excludes this (`RestartsSucceed`); `EventuallyTidy` is checked with it.
* `nebula.go:88` takes an error of StartTransientUnit for a unit that does not run.
  If systemd has started it all the same,
  the roll-back frees its address under it, until the next cleanup stops it.
* A DEL that overtakes the handler of an ADD whose plugin gave up finds no
  record and succeeds, or deletes the record of a unit that is started after it
  (`AddStart` follows `DelStop`); every later DEL succeeds without stopping that
  unit. The hourly cleanup stops it.
* An ADD repeated after one that failed half-way finds the macvlan interface in
  place, and fails; one repeated after a time-out gets "allocation already
  exists". Both need a DEL first.
* A reload whose client gave up after five seconds is still served, and may undo
  a newer one. `AcknowledgedInEffect`, `ReadsItsReloads` and `WatchdogSpares`
  name this exception.
* The record of a failed store that Consul has applied is deleted, and its
  address released, by the next DEL or cleanup, whoever has the address by then.
* A pool whose range ends at 255.255.255.255 and is full hands out 0.0.0.0, and
  so does one with an IPv6 range (`consul.go:394`, `consul.go:409`).

## 5. The proofs

TLAPS proves the following for every value of the constants: any range, any
number of goroutines, allocations and requests, any number of rounds and calls.

| Theorem | Statement | Assumptions |
|---|---|---|
| `IPPoolProofs!TypeCorrect` | `Spec => []TypeOK` | those of the constants |
| `IPPoolProofs!Invariance` | `Spec => []IInv` | `SequentialBoot` |
| `IPPoolProofs!ExclusiveOwnership` | `Spec => []Exclusive` | `SequentialBoot`, `OwnersOnly` |
| `IPPoolProofs!ContentionIsGenuine` | `Spec => []ContentionGenuine` | `SequentialBoot` |
| `IPPoolProofs!Refinement` | `Spec => Abs!Spec` | `SequentialBoot` |
| `AllocationProofs!TypeCorrect` | `Spec => []TypeOK` | those of the constants |
| `AllocationProofs!Invariance` | `Spec => []IInv` | `QuietFaults`, `OneDel` |
| `AllocationProofs!ExclusiveAddresses` | `Spec => []ExclusiveIP` | `QuietFaults`, `OneDel` |
| `AllocationProofs!SuccessIsBacked` | `Spec => []SuccessBacked` | `QuietFaults`, `OneDel` |
| `AllocationProofs!HandlersUsePool` | `Spec => UsesAddressPool` | `QuietFaults`, `OneDel` |
| `CertRotationProofs!TypeCorrect` | `Spec => []TypeOK` | those of the constants |
| `CertRotationProofs!Invariance` | `Spec => []IInv` | `RoundsInTime` |
| `CertRotationProofs!RenewedInTime` | `Spec => []ValidUnlessMissed` | `RoundsInTime` |
| `PluginProofs!PluginCallsHandlers` | `PluginSpec => Spec` | those of the constants |
| `PluginProofs!PluginInvariance` | `PluginSpec => []PluginInv` | those of the constants |
| `PluginProofs!AddedKeepsWorking` | `PluginSpec => []AddedWorks` | `QuietFaults`, `OneDel` |
| `PluginProofs!CalmInvariance` | `PluginSpec => []CalmInv` | those of the constants |
| `PluginProofs!NetworkIsCleared` | `PluginSpec => []NetworkCleared` | those of the constants |
| `PluginProofs!DelInvariance` | `PluginSpec => []DelInv` | `NothingLost`, `SystemdObeys` |
| `PluginProofs!LeaksNeedOvertaking` | `PluginSpec => []LeaksOnlyWhenOvertaken` | `NothingLost` |
| `PluginProofs!DelsLeaveNothing` | `PluginSpec => []DelLeavesNothing` | `SystemdObeys` |
| `ClusterProofs!ClusterTypesCorrect` | `ClusterSpec => []ClusterTypeOK` | those of the constants |
| `ClusterProofs!PassesStayApart` | `ClusterSpec => []PassesApart` | `NomadAnswers` |
| `ClusterProofs!CleanupSparesTheListed` | `ClusterSpec => CleanupSparesListed` | `NomadAnswers` |
| `ClusterProofs!RestartsGoOn` | `ClusterSpec => []RestartInv` | `NomadAnswers`, `RestartsSucceed` |
| `ClusterProofs!RestartsRestore` | `ClusterSpec => RestartRestores` | `NomadAnswers`, `RestartsSucceed` |
| `WorkerProcessProofs!TypeCorrect` | `Spec => []TypeOK` | those of the constants |
| `WorkerProcessProofs!Invariance` | `Spec => []WorkerInv` | those of the constants |
| `WorkerProcessProofs!EndsOrderly` | `Spec => []OrderlyExit` | those of the constants |
| `WorkerProcessProofs!NobodyForgotten` | `Spec => []WorkerOK` | those of the constants |
| `WorkerProcessProofs!AcknowledgedStaysInEffect` | `Spec => []AcknowledgedInEffect` | those of the constants |
| `WorkerProcessProofs!AgentReadsItsReloads` | `Spec => []ReadsItsReloads` | those of the constants |
| `WorkerProcessProofs!WatchdogIsRight` | `Spec => WatchdogSpares` | those of the constants |
| `VaultSignerProofs!TypeCorrect` | `Spec => []TypeOK` | those of the constants |
| `VaultSignerProofs!Invariance` | `Spec => []IInv` | `CallsPrompt` |
| `VaultSignerProofs!TokenNeverLapses` | `Spec => []NeverLapses` | `CallsPrompt` |
| `IPSearchProofs!Invariance` | `Spec => []IInv` | those of the constants |
| `IPSearchProofs!PoolStaysInRange` | `Spec => []StaysInRange` | those of the constants |
| `IPSearchProofs!SearchFindsLowest` | `Spec => FindsLowest` | those of the constants |

*The pool.* `Exclusive` is not inductive: a compare-and-set that succeeds must
write a value computed from the present one. `IInv` says so. `ReadsVersioned`:
if the index has not moved, what was read is what is there. `DelayedSafe`: a
late write that can still succeed takes one free address or returns one that
nobody owns. `OwnedApart` counts an address as owned until its release is over,
because the release, too, may arrive late. `RoundsLost` relates the loop counter
to the index at the beginning of the call, and gives `ContentionGenuine`.
`BootOnce` is where `SequentialBoot` enters. Each write changes the index, so a
write refutes the `Matches` of all others (`WritesFresh`). In the refinement
every step is a stutter but the successful compare-and-sets, late writes
(`Leak` or `Reclaim`), and steps that drop held addresses (`GiveUp`).

*The handlers.* An address has several owners in the course of a request: the
handler's local variable, the unit, the record, the handler of the DEL.
`Claims(a, ip)` unites them and `ClaimsApart` says that a claimed address is
allocated and claimed by one allocation. A record counts only while somebody may
act on it (`RecordLive`): after a DEL that could not delete it, a record is
stale, and its address may have a new owner. `HandsApart` and `GivingBackApart`
keep two requests of one allocation apart, `StarterOwnsUnit` makes a roll-back
stop the unit it has started and no other, `UnitsTracked` is what makes
StartInstance refuse the second ADD.

The assumptions are needed, as TLC shows when they are dropped. `QuietFaults`
leaves out three failures: a Put of the record that was stored though its answer
was an error (the roll-back then frees an address that a record names), a unit
that systemd started though the call failed, and one it did not stop (the
address of both is freed under them). `OneDel`: with two
DELs of one allocation the second may release an address that was given to
another allocation after the first had released it. `ExclusiveIP` fails without
any one of the four. After these failures cleanup tidies up what is left in the
end (`EventuallyTidy` is checked with the three, for one allocation; what the
next owner of such an address suffers meanwhile is covered by no property).

*The handlers as callers.* The pool's `ExclusiveOwnership` assumes that callers
give back only what is theirs (`OwnersOnly`). `HandlersUsePool` shows it of the
handlers, with an allocation as the holder of what its ADDs rely on (`Relied`).
A step of theirs is one of AddressPool or leaves the pool and its holders alone;
when it releases an address, `HandsApart` and `GivingBackApart` say that nobody
relies on it.

*Rotation.* That a certificate is valid now says nothing of the next minute.
`OutlastsWait` says that it lasts longer than the worker may have to wait until
a round looks at it (`Wait`): the rest of the round under way if it is still to
come in that one, and otherwise the time to the next tick and a whole round
after it. A record that is passed over had more than a quarter of its lifetime
left, and a window and a round take less (`RoundsInTime`); one that was renewed
has a certificate no older than the round (`SignedInRound`); one that could not
be renewed has missed a window and is out of the statement. `RoundUnderWay` ties
the time since the tick to the ticker. All this, and `ValidUnlessMissed`, is said
of the time before the first death, which restarts the clock: an agent that is
away misses its windows without counting them, and a worker that dies comes back
with an old certificate. `TypeCorrect` needs no assumption; its core is that a
signed certificate ages with its round.

*The plugin.* That the handlers' theorems hold under the plugin is
`PluginCallsHandlers`: each of its steps is a step of Allocation or leaves it
alone. `AddedWorks` then needs `SuccessBacked` and that nobody takes the
interface away while the task runs: `PluginInv` says that no cmdDel has begun by
then, and that an invocation past a step of the network has its effect.

*What is left after a DEL.* An allocation is calm (`Calm`) as long as none of
its DELs has found the handler of an ADD at work. `CalmInv` holds with any
failure. In a calm allocation one ADD at most has started the instance
(`OneStarter`), because the map refuses the second; its DELs run after its ADDs
(`DelsLast`), so what a DEL has stopped stays stopped and what it has deleted
stays away. `DelsLeaveNothing` needs, beside it, that map and units agree
(`UnitsTracked`), which `SystemdObeys` gives (systemd's starts and stops fail
without effect or not at all), and `NetworkCleared` for the
interface. `LeaksNeedOvertaking` needs that every allocated address has an owner
(`PoolOwned`): a handler, a DEL that gives it back, or a record that the ADD
which has the address has left there. No other ADD overwrites that record:
`OneStarter` lets none store beside one that has succeeded. `NothingLost` excludes an AllocateIP that takes an address and
returns an error, and a ReleaseIP that fails: each of them is a leak by
definition.

*The cleanup.* `ClusterTypeOK` needs that no request is in flight at an agent
that is down, because `Exit` would leave its control state behind. A pass keeps
what it will act on apart from what it has listed and Nomad knows (`PassApart`):
records it removes are those Nomad has forgotten, which it does not take back;
the addresses it reclaims are in none of the listed records; the units it stops
have none, or one that was cleaned away. `CleanupSparesListed` follows for each
step, from the state of that pass alone, so handlers, agents and other passes
need not be looked at.

*The restart.* `RestartInv` follows a process from its start. It begins without
instances (`StartsEmpty`), acts on those of its own node (`KeepsToItsNode`), and
of every running task it knows the record as it is, and has it restored or still on
its list (`RestoresListed`). The record does not change meanwhile: no handler of
the node serves before the agent listens, and the cleanup of another agent
deletes only records that Nomad has forgotten, which is `PassesApart`. Hence
`NomadAnswers`; `RestartsSucceed` says that signing and starting do not fail
and that Nomad reports the running tasks, as the code does not repeat a restart.

*The worker.* `InOrder` is the order of the calls of a shutdown: what is left of
each (`Made`) tells which have been made, and since each call is harmless when
repeated, another shutdown does not disturb it. The listener is closed after
Nebula has stopped and the context is done, which is `OrderlyExit`.
`Connections` ties a goroutine to its client. `OneAtATime` says that the agent sends a
request when those before are over; so a RELOAD that is served late, after a
newer one, has a client that gave up, and `ReloadsKept` says that what the
worker has, what a GET_CONFIG has read and what the watchdog has seen covers
every RELOAD that was served, but for this exception. `Covers` is kept by a
newer RELOAD and by a late one.

*The signer.* `NeverLapses` is about now; `RequestsCovered` says that whoever is
past the check has a shared token that lasts for the rest of its call. Another
call may put its own token there, which was issued after that call began, and so
lasts longer than a call does: `LoginsFresh` says how old a token on its way can
be. `CallsPrompt` is the assumption that a call is shorter than the window, and
two are shorter than a token's time to live.

*The search.* `PassedTaken`: whatever the loop has passed is taken, and it is at
most one past the end. The counter does not wrap because the end is below the
top (`InBounds`).

Out of the prover's reach, and left to TLC: the liveness properties
(`CallsReturn`, `EventuallyTidy`, `ExpiryIsResolved`, `SearchEnds`,
`ShutdownEnds`), since they rest on fairness and ENABLED; induction over data;
and RECURSIVE operators, of which there are none. Every other property of a
passing run is proved. That `LowestFree` is what the loop returns is proved of IPSearch
as a state machine; the two are tied by `FindsLowest`, not by a refinement.

## 6. What is not modelled

* The merge of configurations (`nebula.go:223`) and the selection of a task's
  metadata (`nomad.go`): functions of their input, without state. The other
  modules take from them that they may fail.
* The local signer: it reads two files and signs; it has no state that changes.
* Parsing, marshalling, logging, configuration, packaging; the rules of the
  firewall, which are written in one transaction.
* systemd's job queue: a unit that was told to stop counts as stopped, and its
  successor of the same name does not wait for it. The connection to systemd: an
  instance in the map is stopped over the connection that started it, and that
  StopAll closes it just before the process exits is left out.
* The check of the network namespace in the restart: it lasts as long as the
  task. A restart that fails for one instance, or passes it over, is not repeated
  by the code, and `RestartRestores` is checked and proved without such failures
  (`RestartsSucceed`).
* How long the restart takes: it goes through the records one by one
  (`agent.go:530`), which Cluster models; in CertRotation it is one step that
  takes no time. A worker whose certificate in the environment has expired is
  started by systemd again and again until it reaches the start limit;
  CertRotation has it end at once.
* What Nebula makes of a configuration it is given: its reload callbacks may
  refuse a certificate, and `worker.go:271` answers success all the same. That
  the settings are in effect is what WorkerProcess says of an acknowledged reload.
* Data races on the worker's Settings map inside Nebula's configuration package,
  which is not part of this repository: the map is replaced by one assignment,
  and a reader sees the old map or the new one.
* The agent's own connection to systemd (`nebula.go:106`): it is made and used
  without the lock by the cleanup and never made anew once it breaks.

## 7. Plan

Done: 1. Addresses, AddressPool, IPPool and their proofs, because all else rests
on the pool. 2. Allocation and its proofs. 3. Cluster. 4. CertRotation and its
proofs. 5. IPSearch, VaultSigner and Plugin with their proofs, WorkerProcess, and
the proofs about the cleanup. 6. The proofs about DELs, the restart and the
worker, and the handlers as callers of the abstract pool.

Next, in this order:

1. *Refinement.* CertRotation's worker and that of WorkerProcess as two views of
   one abstract worker, so that the late RELOAD of the one is seen by the other.
2. *Pure functions.* The priority of job over base over default in the merge of
   configurations, the agent's key pair over all; the roles and metadata of a task.
