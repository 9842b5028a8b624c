------------------------------- MODULE Plugin -------------------------------
(***************************************************************************)
(* The CNI plugin, cmd/nebula-nomad-cni/main.go, and the client library it *)
(* calls the agent with, pkg/client/client.go, composed with the handlers  *)
(* of Allocation.tla.                                                      *)
(*                                                                         *)
(* cmdAdd delegates to the macvlan plugin, sets its firewall and asks the  *)
(* agent for the Nebula address; cmdDel asks the agent first and then      *)
(* delegates the removal, whose failure it only logs.  Neither undoes what *)
(* it did before a failure, and both give up on the agent after 30 seconds *)
(* while the handler goes on.                                              *)
(*                                                                         *)
(* Nomad runs one invocation of the plugin for an allocation at a time.    *)
(* An invocation whose configuration does not parse has no effect and is   *)
(* left out.                                                               *)
(***************************************************************************)
EXTENDS Allocation

CONSTANT PluginFaults  \* what may fail, a subset of PluginFaultKinds

PluginFaultKinds == {
    "macvlan",      \* the macvlan plugin cannot add its interface, or its
                    \*   result does not convert
    "firewall",     \* the network namespace or nftables
    "unreachable",  \* nobody listens on the agent's socket
    "print",        \* the result cannot be written
    "timeout",      \* no answer within 30 seconds
    "macvlan_del" } \* the macvlan plugin cannot remove its interface

ASSUME PluginFaultsAssumption == PluginFaults \subseteq PluginFaultKinds

VARIABLES
    conf,      \* the network configuration: "plain", or with conf.MacVLAN
               \*   enabled "macvlan", or "firewall" if that has one as well
    addCni,    \* addCni[r]: where the cmdAdd that sends request r is
    delCni,    \* delCni[d]: where the cmdDel that sends request d is
    ifaces,    \* the allocations whose namespace has the macvlan interface
    filtered,  \* those whose namespace has the firewall rules
    warned,    \* the DELs that logged a failed removal of the interface
    overtook   \* history: the DELs that read the record while a handler of
               \*   an ADD for their allocation was running

network == <<ifaces, filtered>>
plugin == <<conf, addCni, delCni, network, warned>>

PluginInit ==
    /\ Init
    /\ conf \in {"plain", "macvlan", "firewall"}
    /\ addCni = [r \in AddReqs |-> "idle"]
    /\ delCni = [d \in DelReqs |-> "idle"]
    /\ ifaces = {} /\ filtered = {}
    /\ warned = {} /\ overtook = {}

MayBreak(f) == f \in PluginFaults

macvlan == conf # "plain"
firewall == conf = "firewall"

Over == {"idle", "ok", "failed", "gave_up"}

\* Nomad has an invocation for a under way.
Busy(a) ==
    \/ \E r \in AddReqs : AllocOf[r] = a /\ addCni[r] \notin Over
    \/ \E d \in DelReqs : AllocOf[d] = a /\ delCni[d] \notin Over

AddCni(r, l) == addCni' = [addCni EXCEPT ![r] = l]
DelCni(d, l) == delCni' = [delCni EXCEPT ![d] = l]
-----------------------------------------------------------------------------
(* cmdAdd.                                                                 *)

CmdAdd(r) ==
    /\ addCni[r] = "idle"
    /\ nomad[AllocOf[r]] = "running" /\ ~Busy(AllocOf[r])
    /\ AddCni(r, IF macvlan THEN "macvlan" ELSE "request")
    /\ UNCHANGED <<vars, conf, delCni, network, warned, overtook>>

\* Mutant of DelegateMacvlan: an interface that exists is taken as it is.
DelegateMacvlanReuses(r) ==
    /\ addCni[r] = "macvlan"
    /\ \/ /\ AllocOf[r] \notin ifaces
          /\ ifaces' = ifaces \cup {AllocOf[r]}
          /\ AddCni(r, IF firewall THEN "firewall" ELSE "request")
       \/ /\ AllocOf[r] \in ifaces
          /\ AddCni(r, "request")
          /\ UNCHANGED ifaces
    /\ UNCHANGED <<vars, conf, delCni, filtered, warned, overtook>>

\* delegateMacvlan.  The macvlan plugin fails when the interface exists.
DelegateMacvlan(r) ==
    /\ addCni[r] = "macvlan"
    /\ \/ /\ AllocOf[r] \notin ifaces
          /\ ifaces' = ifaces \cup {AllocOf[r]}
          /\ \/ AddCni(r, IF firewall THEN "firewall" ELSE "request")
             \/ MayBreak("macvlan") /\ AddCni(r, "failed")
       \/ /\ AllocOf[r] \in ifaces \/ MayBreak("macvlan")
          /\ AddCni(r, "failed")
          /\ UNCHANGED ifaces
    /\ UNCHANGED <<vars, conf, delCni, filtered, warned, overtook>>

\* applyFirewall: one nftables transaction.
ApplyFirewall(r) ==
    /\ addCni[r] = "firewall"
    /\ \/ filtered' = filtered \cup {AllocOf[r]} /\ AddCni(r, "request")
       \/ MayBreak("firewall") /\ AddCni(r, "failed") /\ UNCHANGED filtered
    /\ UNCHANGED <<vars, conf, delCni, ifaces, warned, overtook>>

\* Client.Allocate sends the request.
SendAllocate(r) ==
    /\ addCni[r] = "request"
    /\ AddCni(r, "wait") \/ (MayBreak("unreachable") /\ AddCni(r, "failed"))
    /\ UNCHANGED <<vars, conf, delCni, network, warned, overtook>>

\* The answer of the agent arrives, or does not; the result is printed.
AddReturns(r) ==
    /\ addCni[r] = "wait"
    /\ \/ addPc[r] \in {"ok", "failed"} /\ AddCni(r, addPc[r])
       \/ addPc[r] = "ok" /\ MayBreak("print") /\ AddCni(r, "failed")
       \/ MayBreak("timeout") /\ AddCni(r, "gave_up")
    /\ UNCHANGED <<vars, conf, delCni, network, warned, overtook>>

\* The handler runs once its request is sent, waited for or not.
HandleAdd(r) ==
    /\ addCni[r] \in {"wait", "gave_up"}
    /\ Add(r)
    /\ UNCHANGED <<plugin, overtook>>
-----------------------------------------------------------------------------
(* cmdDel.                                                                 *)

CmdDel(d) ==
    /\ delCni[d] = "idle"
    /\ nomad[AllocOf[d]] # "running" /\ ~Busy(AllocOf[d])
    /\ DelCni(d, "wait") \/ (MayBreak("unreachable") /\ DelCni(d, "failed"))
    /\ UNCHANGED <<vars, conf, addCni, network, warned, overtook>>

\* Mutant of DelReturns: what the agent answers is not looked at.
DelReturnsAnyway(d) ==
    /\ delCni[d] = "wait"
    /\ \/ /\ delPc[d] \in {"ok", "failed"}
          /\ DelCni(d, IF macvlan THEN "macvlan" ELSE "ok")
       \/ MayBreak("timeout") /\ DelCni(d, "gave_up")
    /\ UNCHANGED <<vars, conf, addCni, network, warned, overtook>>

DelReturns(d) ==
    /\ delCni[d] = "wait"
    /\ \/ delPc[d] = "ok" /\ DelCni(d, IF macvlan THEN "macvlan" ELSE "ok")
       \/ delPc[d] = "failed" /\ DelCni(d, "failed")
       \/ MayBreak("timeout") /\ DelCni(d, "gave_up")
    /\ UNCHANGED <<vars, conf, addCni, network, warned, overtook>>

\* delegateMacvlanDel.  cmdDel succeeds whatever comes of it.
DelegateMacvlanDel(d) ==
    /\ delCni[d] = "macvlan"
    /\ DelCni(d, "ok")
    /\ \/ ifaces' = ifaces \ {AllocOf[d]} /\ UNCHANGED warned
       \/ MayBreak("macvlan_del") /\ warned' = warned \cup {d} /\ UNCHANGED ifaces
    /\ UNCHANGED <<vars, conf, addCni, filtered, overtook>>

AddRuns(a) ==
    \E r \in AddReqs : AllocOf[r] = a /\ addPc[r] \notin {"idle", "ok", "failed"}

HandleDel(d) ==
    /\ delCni[d] \in {"wait", "gave_up"}
    /\ Del(d)
    /\ overtook' = IF delPc[d] = "idle" /\ AddRuns(AllocOf[d])
                   THEN overtook \cup {d} ELSE overtook
    /\ UNCHANGED plugin

PluginNext ==
    \/ \E r \in AddReqs :
          \/ CmdAdd(r) \/ DelegateMacvlan(r) \/ ApplyFirewall(r)
          \/ SendAllocate(r) \/ AddReturns(r) \/ HandleAdd(r)
    \/ \E d \in DelReqs :
          \/ CmdDel(d) \/ DelReturns(d) \/ DelegateMacvlanDel(d) \/ HandleDel(d)
    \/ \E a \in Allocs :
          (TaskStops(a) \/ TaskForgotten(a)) /\ UNCHANGED <<plugin, overtook>>

PluginSpec == PluginInit /\ [][PluginNext]_<<vars, plugin, overtook>>
-----------------------------------------------------------------------------
(* Properties.                                                             *)

\* While the task runs, an ADD that Nomad was told has succeeded has all it
\* was told of: the record, the unit and the address, and with macvlan the
\* interface, behind its firewall where there is one; also when an ADD
\* before it failed half-way (main.go:124-152) or goes on after its plugin
\* gave up.
AddedWorks ==
    \A r \in AddReqs :
        LET a == AllocOf[r] IN
        addCni[r] = "ok" /\ nomad[a] = "running" =>
            /\ addIP[r] \in pool /\ records[a] = addIP[r] /\ units[a] = addIP[r]
            /\ macvlan => a \in ifaces
            /\ firewall => a \in filtered

\* A DEL that Nomad was told has succeeded leaves no record, no instance, no
\* unit and, unless it logged a warning, no interface, whatever ADDs and DELs
\* failed before it (main.go:260-310).  The exception is an allocation one of
\* whose DELs found the handler of an ADD at work: it may delete the record
\* of a unit that is started meanwhile, and every later DEL then succeeds
\* without stopping it.  The hourly cleanup has to.
DelLeavesNothing ==
    \A d \in DelReqs :
        LET a == AllocOf[d] IN
        delCni[d] = "ok" =>
            /\ d \notin warned => a \notin ifaces
            /\ (\A e \in overtook : AllocOf[e] # a) =>
                  records[a] = NoIP /\ units[a] = NoIP /\ a \notin instances

\* As long as no DEL found the handler of an ADD at work, every allocated
\* address is in a record or in the hands of a handler that will record it or
\* give it back, however many ADDs are repeated after a time-out.
LeaksOnlyWhenOvertaken == overtook = {} => NoLeak
-----------------------------------------------------------------------------
(* The inductive invariant of PluginProofs.tla, beside that of the handlers. *)

AddCniControl == {"macvlan", "firewall", "request", "wait"} \cup Over
DelCniControl == {"wait", "macvlan"} \cup Over

PluginTypeOK ==
    /\ conf \in {"plain", "macvlan", "firewall"}
    /\ addCni \in [AddReqs -> AddCniControl]
    /\ delCni \in [DelReqs -> DelCniControl]
    /\ ifaces \subseteq Allocs /\ filtered \subseteq Allocs
    /\ warned \subseteq DelReqs /\ overtook \subseteq DelReqs

\* A cmdAdd that is past a step of the network's has its effect while the
\* task runs, and one that succeeded was answered with success.
NetworkReady(r) ==
    /\ addCni[r] = "ok" => addPc[r] = "ok"
    /\ nomad[AllocOf[r]] = "running" =>
          /\ macvlan /\ addCni[r] \in {"firewall", "request", "wait", "ok"} =>
                AllocOf[r] \in ifaces
          /\ firewall /\ addCni[r] \in {"request", "wait", "ok"} =>
                AllocOf[r] \in filtered

\* While the task runs no cmdDel has begun that could take its interface.
PluginInv ==
    /\ PluginTypeOK
    /\ \A d \in DelReqs : nomad[AllocOf[d]] = "running" => delCni[d] = "idle"
    /\ \A r \in AddReqs : NetworkReady(r)

\* A call that fails loses no address: AllocateIP that fails has taken none
\* and ReleaseIP does not fail.
NothingLost == Faults \cap {"allocate", "release"} = {}

\* systemd stops what it is told to, and starts nothing when it fails to.
SystemdObeys == Faults \cap {"stop_unit", "start_applied"} = {}

\* No DEL for a has found the handler of an ADD at work.
Calm(a) == \A e \in overtook : AllocOf[e] # a

DelsIdle(a) == \A d \in DelReqs : AllocOf[d] = a => delPc[d] = "idle"

\* The handler of ADD r has started the unit, and not yet passed it on.
Starter(r) == addPc[r] \in {"store", "undo_stop"}

\* The instance of a calm allocation is that of one handler that started it,
\* until a DEL comes, and no ADD succeeds beside that handler.
OneStarter(a) ==
    /\ \A r \in AddReqs : AllocOf[r] = a /\ Starter(r) =>
          /\ a \in instances
          /\ \A s \in AddReqs \ {r} :
                AllocOf[s] = a => ~Starter(s) /\ addPc[s] # "ok"
    /\ \A s \in AddReqs :
          AllocOf[s] = a /\ addPc[s] = "ok" /\ DelsIdle(a) => a \in instances
    /\ a \in instances => \E s \in AddReqs :
          /\ AllocOf[s] = a
          /\ Starter(s) \/ (addPc[s] = "ok" /\ records[a] = addIP[s])

\* The DELs of a calm allocation run when its ADDs are over: the record a DEL
\* has read stays or is deleted, and what the DEL has stopped stays stopped.
DelsLast(a) ==
    /\ AddRuns(a) => DelsIdle(a)
    /\ \A d \in DelReqs : AllocOf[d] = a =>
          /\ delPc[d] \in {"stop", "release", "delete"} =>
                records[a] \in {NoIP, delIP[d]}
          /\ delPc[d] \in {"release", "delete", "ok"} => a \notin instances
          /\ delPc[d] = "ok" => records[a] = NoIP

\* The handler of an ADD that has an address, or has passed it on, knows it.
HandsFull == \A r \in AddReqs : InHand(r) \/ addPc[r] = "ok" => addIP[r] \in Addrs

CalmInv ==
    /\ DelsWait
    /\ HandsFull
    /\ \A a \in Allocs : Calm(a) => OneStarter(a) /\ DelsLast(a)

\* The address is in a hand, in the record that the ADD which has it has left
\* and no DEL is about to delete, or about to be given back.
Owned(ip) ==
    \/ \E r \in AddReqs : InHand(r) /\ addIP[r] = ip
    \/ \E r \in AddReqs :
          /\ addPc[r] = "ok" /\ addIP[r] = ip /\ records[AllocOf[r]] = ip
          /\ \A d \in DelReqs :
                AllocOf[d] = AllocOf[r] /\ delPc[d] = "delete" => delIP[d] # ip
    \/ \E d \in DelReqs : GivingBack(d) /\ delIP[d] = ip

PoolOwned == overtook = {} => \A ip \in pool : Owned(ip)

\* Nomad lets no cmdAdd and cmdDel of an allocation overlap, a cmdDel succeeds
\* after its handler, and it takes the interface away or says that it did not.
NetworkCleared ==
    /\ \A r \in AddReqs : addCni[r] \in {"macvlan", "firewall"} => macvlan
    /\ ~macvlan => ifaces = {}
    /\ \A d \in DelReqs : delCni[d] # "idle" =>
          \A r \in AddReqs : AllocOf[r] = AllocOf[d] => addCni[r] \in Over
    /\ \A d \in DelReqs :
          /\ delCni[d] \in {"macvlan", "ok"} => delPc[d] = "ok"
          /\ delCni[d] = "ok" /\ d \notin warned => AllocOf[d] \notin ifaces

DelInv == CalmInv /\ PoolOwned /\ UnitsTracked /\ NetworkCleared
=============================================================================
