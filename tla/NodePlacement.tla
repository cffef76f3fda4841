--------------------------- MODULE NodePlacement ---------------------------
(***************************************************************************)
(* How the egress IPs that namespaces hold get to the nodes and move when  *)
(* nodes fail, recover, join, leave or are relabelled: the second half of  *)
(* a reconcile cycle (processReconcileContext from getAssignedIPsByNode    *)
(* on), on a cloud (AWS, Azure), on bare metal with several CIDRs, where   *)
(* the operator writes the IPs of a HostSubnet, and on bare metal with one *)
(* CIDR, where it writes the CIDR and the SDN places the IPs.              *)
(*                                                                         *)
(* A cycle lists nodes, HostSubnets and namespaces from caches that trail  *)
(* the API server, plans which node carries which IP, frees the instances' *)
(* network interfaces of the IPs they should not have, adds the ones they  *)
(* should have, and writes the HostSubnets.  Each of the three is done for *)
(* all nodes in parallel, all answers are awaited, and an error ends the   *)
(* cycle and puts the request back.  Between any two steps nodes change,   *)
(* namespaces get and lose IPs, and the process crashes.                   *)
(*                                                                         *)
(* Abstractions.  assignIPsToNodes is one step that returns any plan       *)
(* (NodeAssignment shows that it returns one).  The first half of the      *)
(* cycle is NamespaceAssignment's; here the IPs in demand change freely.   *)
(* The topology label of a node does not change, the labels that select it *)
(* do.  Whether a node's own address (HostIP) is in a CIDR is independent  *)
(* of that label, and does not change.  AWS works from the instances it has described during the load,     *)
(* Azure reads an interface again before it writes it: as only this worker *)
(* writes them both see the same.                                          *)
(***************************************************************************)
EXTENDS NodePlans, Sequences

CONSTANTS
  Zone,         \* the CIDR of each node, by its topology label
  Platforms,    \* "cloud" (AWS, Azure), "baremetal" (several CIDRs), "onecidr"
  HostIPInCIDR, \* by platform, the nodes whose own address is in one of the CIDRs
  Churn,        \* what may change: "readiness", "membership", "labels"
  MaxChanges,   \* bound on changes of nodes and demand
  MaxFaults,    \* bound on the calls that fail
  MaxCrashes,   \* bound on the crashes of the process
  MaxStaleReads \* bound on the reads of a cache that trails the API server

ASSUME PlacementAssumption ==
  /\ Zone \in [Nodes -> Zones \cup {NoZone}]
  /\ Platforms \subseteq {"cloud", "baremetal", "onecidr"}
  /\ HostIPInCIDR \in [Platforms -> SUBSET Nodes]
  /\ Churn \subseteq {"readiness", "membership", "labels"}
  /\ MaxChanges \in Nat /\ MaxFaults \in Nat
  /\ MaxCrashes \in Nat /\ MaxStaleReads \in Nat

VARIABLES
  platform,               \* where the operator runs: it does not change
  node, hs,               \* API server: the nodes and their HostSubnets
  machines,               \* nodes whose machine (instance) exists
  nic,                    \* secondary IPs of the machines' network interfaces
  demand,                 \* IPs of referring namespaces, as the cache has them
  nodeCache, hsCache,     \* the informers' copies
  nodeEvents, hsEvents,   \* watch events not yet delivered
  queued,                 \* the EgressIPAM is in the queue
  up,                     \* the operator's process is running
  gauge,                  \* ipAllocated by node; 0 if it was not set
  pc,                     \* where the worker is
  loading,                \* what the load still waits for
  rcNode, rcHs, rcDemand, rcNic, rcMachines, \* what the cycle has loaded
  plan, keys,             \* rc.FinallyAssignedIPsByNode and its keys
  pending,                \* nodes whose answer is still awaited
  failed,                 \* an error among the answers
  changes, faults, crashes, staleReads

clusterVars == <<platform, node, hs, machines, nic, demand>>
informerVars == <<nodeCache, hsCache, nodeEvents, hsEvents>>
loadedVars == <<loading, rcNode, rcHs, rcDemand, rcNic, rcMachines>>
rcVars == <<loadedVars, plan, keys, pending, failed>>
boundVars == <<changes, faults, crashes, staleReads>>
vars == <<clusterVars, informerVars, queued, up, gauge, pc, rcVars, boundVars>>

Cloud == platform = "cloud"

NoIPs == [n \in Nodes |-> {}]

NoNode == [exists |-> FALSE, ready |-> FALSE, sel |-> FALSE]
NoNodes == [n \in Nodes |-> NoNode]

NoSubnet(rv) == [exists |-> FALSE, ips |-> {}, cidr |-> FALSE, rv |-> rv]
NoSubnets == [n \in Nodes |-> NoSubnet(0)]

NoGauges == [n \in Nodes |-> 0]

-----------------------------------------------------------------------------
(* The cluster                                                             *)

Outside ==
  UNCHANGED <<platform, nodeCache, hsCache, up, gauge, pc, rcVars, faults, crashes,
              staleReads>>

Changing == changes < MaxChanges /\ changes' = changes + 1 /\ Outside

PutNode(n, new) ==
  /\ node' = [node EXCEPT ![n] = new]
  /\ nodeEvents' = IF up THEN Append(nodeEvents, [node |-> n, new |-> new]) ELSE nodeEvents

PutHostSubnet(n, new) ==
  /\ hs' = [hs EXCEPT ![n] = new]
  /\ hsEvents' = IF up THEN Append(hsEvents, [node |-> n, new |-> new]) ELSE hsEvents

\* A node becomes ready or stops being so.
ReadinessChanges(n) ==
  /\ "readiness" \in Churn
  /\ node[n].exists /\ n \in machines
  /\ PutNode(n, [node[n] EXCEPT !.ready = ~@])
  /\ Changing
  /\ UNCHANGED <<demand, queued, hs, machines, nic, hsEvents>>

\* A label that the node selector asks for is removed or added.
LabelsChange(n) ==
  /\ "labels" \in Churn
  /\ node[n].exists
  /\ PutNode(n, [node[n] EXCEPT !.sel = ~@])
  /\ Changing
  /\ UNCHANGED <<demand, queued, hs, machines, nic, hsEvents>>

\* A machine is terminated, and its interface goes with it.
MachineGoes(n) ==
  /\ "membership" \in Churn
  /\ n \in machines
  /\ machines' = machines \ {n} /\ nic' = [nic EXCEPT ![n] = {}]
  /\ Changing
  /\ UNCHANGED <<demand, queued, node, hs, nodeEvents, hsEvents>>

\* A new machine registers its node.
NodeJoins(n) ==
  /\ "membership" \in Churn
  /\ n \notin machines /\ ~node[n].exists /\ ~hs[n].exists
  /\ machines' = machines \cup {n}
  /\ \E ready \in BOOLEAN : PutNode(n, [exists |-> TRUE, ready |-> ready, sel |-> TRUE])
  /\ Changing
  /\ UNCHANGED <<demand, queued, hs, nic, hsEvents>>

\* A namespace gets ip: the change of its annotations is an event that
\* enqueues the EgressIPAM.
Demand(ip) ==
  /\ ip \notin demand
  /\ demand' = demand \cup {ip}
  /\ queued' = up
  /\ Changing
  /\ UNCHANGED <<node, hs, machines, nic, nodeEvents, hsEvents>>

\* A namespace loses ip.  A deletion enqueues the EgressIPAM, an opt-out
\* does not.
Release(ip) ==
  /\ ip \in demand
  /\ demand' = demand \ {ip}
  /\ queued' \in {queued, up}
  /\ Changing
  /\ UNCHANGED <<node, hs, machines, nic, nodeEvents, hsEvents>>

\* The node of a machine that is gone is deleted.
NodeGoes(n) ==
  /\ node[n].exists /\ n \notin machines
  /\ PutNode(n, NoNode)
  /\ Outside
  /\ UNCHANGED <<demand, queued, hs, machines, nic, hsEvents, changes>>

\* The SDN adds the HostSubnet of a node, and removes it with the node.
SDNFollows(n) ==
  /\ node[n].exists # hs[n].exists
  /\ PutHostSubnet(n, [NoSubnet(hs[n].rv + 1) EXCEPT !.exists = node[n].exists])
  /\ Outside
  /\ UNCHANGED <<demand, queued, node, machines, nic, nodeEvents, changes>>

ClusterFollows == \E n \in Nodes : NodeGoes(n) \/ SDNFollows(n)

-----------------------------------------------------------------------------
(* Informers, predicates and handlers                                      *)

\* Mutant: only a node that recovers triggers a cycle.
EnqueueForNode_Recovery(n, old, new) ==
  new.exists /\ ~old.ready /\ new.ready /\ Zone[n] \in Zones

\* IsCreatedOrDeletedOrReadinessChanged, matchesNode, which looks at the
\* topology label only, and the handlers, of which Delete is empty.
EnqueueForNode(n, old, new) ==
  new.exists /\ (~old.exists \/ old.ready # new.ready) /\ Zone[n] \in Zones

\* The HostIP is in one of the CIDRs; the topology label does not matter here.
MatchesHostSubnet(n) == n \in HostIPInCIDR[platform]

\* Mutant: the Delete handler is empty, like the one of nodes.
EnqueueForHostSubnet_NoDelete(n, old, new) ==
  new.exists /\ [old EXCEPT !.rv = 0] # [new EXCEPT !.rv = 0] /\ MatchesHostSubnet(n)

\* IsCreatedORDeletedOrIsEgressCIDRsChanged; all three handlers enqueue.
EnqueueForHostSubnet(n, old, new) ==
  [old EXCEPT !.rv = 0] # [new EXCEPT !.rv = 0] /\ MatchesHostSubnet(n)

Delivering == up /\ UNCHANGED <<clusterVars, up, gauge, pc, rcVars, boundVars>>

DeliverNode ==
  /\ nodeEvents # << >>
  /\ LET e == Head(nodeEvents) IN
       /\ nodeCache' = [nodeCache EXCEPT ![e.node] = e.new]
       /\ queued' = (queued \/ EnqueueForNode(e.node, nodeCache[e.node], e.new))
  /\ nodeEvents' = Tail(nodeEvents)
  /\ Delivering
  /\ UNCHANGED <<hsCache, hsEvents>>

DeliverHostSubnet ==
  /\ hsEvents # << >>
  /\ LET e == Head(hsEvents) IN
       /\ hsCache' = [hsCache EXCEPT ![e.node] = e.new]
       /\ queued' = (queued \/ EnqueueForHostSubnet(e.node, hsCache[e.node], e.new))
  /\ hsEvents' = Tail(hsEvents)
  /\ Delivering
  /\ UNCHANGED <<nodeCache, nodeEvents>>

-----------------------------------------------------------------------------
(* The cycle                                                               *)

NoContext ==
  /\ loading' = {} /\ rcNode' = NoNodes /\ rcHs' = NoSubnets
  /\ rcDemand' = {} /\ rcNic' = NoIPs /\ rcMachines' = {}
  /\ plan' = NoIPs /\ keys' = {} /\ pending' = {} /\ failed' = FALSE

InCycle == up /\ UNCHANGED <<platform, node, machines, demand, nodeCache, hsCache,
                             nodeEvents, up, changes, crashes>>

\* Mutant: what a cycle has loaded outlives it.
EndCycle_KeepsContext(error) ==
  pc' = "idle" /\ queued' = (queued \/ error) /\ UNCHANGED rcVars

\* ManageSuccess, or ManageError, whose error puts the request back.
EndCycle(error) ==
  /\ pc' = "idle" /\ NoContext
  /\ queued' = (queued \/ error)

Fault == faults < MaxFaults /\ faults' = faults + 1

\* A read of a cache, which may trail the API server.
Read(events) ==
  \/ events = << >> /\ UNCHANGED staleReads
  \/ events # << >> /\ staleReads < MaxStaleReads /\ staleReads' = staleReads + 1

StartCycle ==
  /\ pc = "idle" /\ queued
  /\ pc' = "load" /\ queued' = FALSE
  /\ loading' = {"nodes", "hostsubnets", "namespaces"}
  /\ InCycle
  /\ UNCHANGED <<hs, nic, hsEvents, gauge, rcNode, rcHs, rcDemand, rcNic, rcMachines,
                 plan, keys, pending, failed, faults, staleReads>>

Listed(kind) ==
  /\ pc = "load" /\ kind \in loading
  /\ loading' = loading \ {kind}
  /\ InCycle
  /\ UNCHANGED <<hs, nic, hsEvents, gauge, queued, pc, rcNic, rcMachines, plan, keys,
                 pending, failed, faults>>

\* getAllNodes.
ListNodes ==
  /\ Listed("nodes") /\ Read(nodeEvents)
  /\ rcNode' = nodeCache
  /\ UNCHANGED <<rcHs, rcDemand>>

\* getAllHostSubnets.
ListHostSubnets ==
  /\ Listed("hostsubnets") /\ Read(hsEvents)
  /\ rcHs' = hsCache
  /\ UNCHANGED <<rcNode, rcDemand>>

\* getReferringNamespaces; IPs that the cycle itself adds are in demand too.
ListNamespaces ==
  /\ Listed("namespaces")
  /\ rcDemand' = demand
  /\ UNCHANGED <<rcNode, rcHs, staleReads>>

\* What the steps from the load on leave alone, if nothing is written.
NoWrite == InCycle /\ UNCHANGED <<hs, nic, hsEvents, gauge, staleReads>>

\* An error of the load, the namespaces or the NetNamespaces.
LoadFails ==
  /\ pc = "load"
  /\ Fault
  /\ EndCycle(TRUE)
  /\ NoWrite

Loaded == pc = "load" /\ loading = {}

\* getSelectedNodes, the selected HostSubnets, the ready ones of the nodes.
Selected == {n \in Nodes : rcNode[n].exists /\ rcNode[n].sel}
SelectedHostSubnets == {n \in Selected : rcHs[n].exists}
Ready == {n \in Selected : rcNode[n].ready}

\* getNodesIPsByCIDR: a listed node without HostSubnet is an error.
HostSubnetMissing == \E n \in Nodes : rcNode[n].exists /\ ~rcHs[n].exists

\* Mutant: what the HostSubnets carry is not looked at.
Hosted_None == NoIPs

\* getAssignedIPsByNode, before it leaves out the nodes that are not ready.
Hosted == [n \in Nodes |-> IF n \in SelectedHostSubnets THEN rcHs[n].ips ELSE {}]

\* The cycle ends with an error: DescribeInstances does not know an
\* instance, a HostSubnet is missing, or a zone is without ready node.
CannotPlan ==
  /\ Loaded
  /\ \/ Cloud /\ \E n \in Selected : n \notin machines
     \/ HostSubnetMissing
     \/ NoPlan(Zone, Ready, Hosted, rcDemand)
  /\ EndCycle(TRUE)
  /\ NoWrite
  /\ UNCHANGED faults

\* The instances are described, and assignIPsToNodes returns a plan.
AssignIPsToNodes ==
  /\ Loaded /\ ~HostSubnetMissing
  /\ rcNic' = nic /\ rcMachines' = machines
  /\ \E p \in [Nodes -> SUBSET rcDemand] :
       /\ IsPlan(Zone, Ready, Hosted, rcDemand, p)
       /\ plan' = p
       /\ keys' = PlanKeys(Zone, Ready, p) \cap Selected
  /\ CASE platform = "cloud"     -> pc' = "remove" /\ pending' = keys'
       [] platform = "baremetal" -> pc' = "hostsubnets" /\ pending' = SelectedHostSubnets
       [] platform = "onecidr"   ->
            pc' = "cidrs" /\ pending' = {n \in Selected : Zone[n] \in Zones}
  /\ NoWrite
  /\ UNCHANGED <<queued, loading, rcNode, rcHs, rcDemand, failed, faults>>

\* The answer for node n has come in.
Answered(n, error) ==
  /\ pending' = pending \ {n}
  /\ failed' = (failed \/ error)
  /\ InCycle
  /\ UNCHANGED <<queued, pc, gauge, loadedVars, plan, keys, staleReads>>

\* Mutant: nodes that are not ready keep what they have.
ToBeRemoved_ReadyOnly(n) == IF n \in Ready THEN rcNic[n] \ plan[n] ELSE {}

\* removeAWSUnusedIPs, removeUnNeededAzureAssignedIPs.
ToBeRemoved(n) == rcNic[n] \ plan[n]

\* Nothing is removed from an instance that has gone meanwhile.
RemoveIPs(n) ==
  /\ pc = "remove" /\ n \in pending /\ n \in rcMachines
  /\ n \in machines \/ ToBeRemoved(n) = {}
  /\ nic' = [nic EXCEPT ![n] = @ \ ToBeRemoved(n)]
  /\ Answered(n, FALSE)
  /\ UNCHANGED <<hs, hsEvents, faults>>

RemoveIPsFails(n) ==
  /\ pc = "remove" /\ n \in pending /\ n \in rcMachines
  /\ \/ n \notin machines /\ UNCHANGED <<nic, faults>>
     \/ Fault /\ nic' \in {nic, [nic EXCEPT ![n] = @ \ ToBeRemoved(n)]}
  /\ Answered(n, TRUE)
  /\ UNCHANGED <<hs, hsEvents>>

\* All answers are in: on to the next of the three, unless one was an error.
ToNext(next, nodes) ==
  /\ pending = {}
  /\ IF failed THEN EndCycle(TRUE)
     ELSE /\ pc' = next /\ pending' = nodes
          /\ UNCHANGED <<queued, loadedVars, plan, keys, failed>>
  /\ NoWrite
  /\ UNCHANGED faults

RemovesDone == pc = "remove" /\ ToNext("add", keys)

\* reconcileAWSAssignedIPs, addNeededAzureAssignedIPs.
ToBeAssigned(n) == plan[n] \ rcNic[n]

\* The cloud refuses an address that another interface has.
Assignable(n) ==
  /\ n \in machines \/ ToBeAssigned(n) = {}
  /\ \A m \in Nodes \ {n} : nic[m] \cap ToBeAssigned(n) = {}

AddIPs(n) ==
  /\ pc = "add" /\ n \in pending
  /\ Assignable(n)
  /\ nic' = [nic EXCEPT ![n] = @ \cup ToBeAssigned(n)]
  /\ Answered(n, FALSE)
  /\ UNCHANGED <<hs, hsEvents, faults>>

AddIPsFails(n) ==
  /\ pc = "add" /\ n \in pending
  /\ \/ (n \notin machines \/ ~Assignable(n)) /\ UNCHANGED <<nic, faults>>
     \/ Fault /\ UNCHANGED nic
     \/ Fault /\ Assignable(n) /\ nic' = [nic EXCEPT ![n] = @ \cup ToBeAssigned(n)]
  /\ Answered(n, TRUE)
  /\ UNCHANGED <<hs, hsEvents>>

AddsDone == pc = "add" /\ ToNext("hostsubnets", SelectedHostSubnets)

\* The API server takes an update of the version that it has.
Accepts(n) == hs[n].exists /\ hs[n].rv = rcHs[n].rv

WriteHostSubnet(n, ips, cidr) ==
  PutHostSubnet(n, [exists |-> TRUE, ips |-> ips, cidr |-> cidr, rv |-> hs[n].rv + 1])

\* reconcileHSAssignedIPs: a HostSubnet that has its IPs is not written.
UpdateHostSubnet(n) ==
  /\ pc = "hostsubnets" /\ n \in pending
  /\ \/ plan[n] = rcHs[n].ips /\ UNCHANGED <<hs, hsEvents>>
     \/ plan[n] # rcHs[n].ips /\ Accepts(n) /\ WriteHostSubnet(n, plan[n], FALSE)
  /\ Answered(n, FALSE)
  /\ UNCHANGED <<nic, faults>>

UpdateHostSubnetFails(n) ==
  /\ pc = "hostsubnets" /\ n \in pending
  /\ plan[n] # rcHs[n].ips
  /\ \/ ~Accepts(n) /\ UNCHANGED <<hs, hsEvents, faults>>
     \/ Fault /\ UNCHANGED <<hs, hsEvents>>
     \/ Fault /\ Accepts(n) /\ WriteHostSubnet(n, plan[n], FALSE)
  /\ Answered(n, TRUE)
  /\ UNCHANGED nic

\* assignCIDRsToHostSubnets: one HostSubnet after the other, in any order.
AssignCIDR(n) ==
  /\ pc = "cidrs" /\ n \in pending
  /\ \/ rcHs[n].cidr /\ UNCHANGED <<hs, hsEvents>>
     \/ ~rcHs[n].cidr /\ Accepts(n) /\ WriteHostSubnet(n, {}, TRUE)
  /\ Answered(n, FALSE)
  /\ UNCHANGED <<nic, faults>>

\* Mutant: an error leaves only its own HostSubnet without the CIDR.
AssignCIDRFails_Skipped(n) ==
  /\ pc = "cidrs" /\ n \in pending
  /\ ~rcHs[n].cidr
  /\ (~Accepts(n) /\ UNCHANGED faults) \/ Fault
  /\ Answered(n, FALSE)
  /\ UNCHANGED <<nic, hs, hsEvents>>

\* The first error ends the cycle.
AssignCIDRFails(n) ==
  /\ pc = "cidrs" /\ n \in pending
  /\ ~rcHs[n].cidr
  /\ \/ ~Accepts(n) /\ UNCHANGED <<hs, hsEvents, faults>>
     \/ Fault /\ UNCHANGED <<hs, hsEvents>>
     \/ Fault /\ Accepts(n) /\ WriteHostSubnet(n, {}, TRUE)
  /\ EndCycle(TRUE)
  /\ InCycle
  /\ UNCHANGED <<nic, gauge, staleReads>>

\* Mutant: only the nodes that carry something are counted.
Measured_Carriers == {n \in keys : plan[n] # {}}

\* The nodes whose gauge updateMetrics sets.
Measured == keys

\* updateMetrics, unless there was an error; the primary IP counts.
FinishCycle ==
  /\ pc \in {"hostsubnets", "cidrs"} /\ pending = {}
  /\ EndCycle(failed)
  /\ gauge' = IF failed THEN gauge
              ELSE [n \in Nodes |-> IF n \in Measured THEN Cardinality(plan[n]) + 1
                                                     ELSE gauge[n]]
  /\ InCycle
  /\ UNCHANGED <<hs, nic, hsEvents, faults, staleReads>>

CycleStep ==
  \/ StartCycle \/ ListNodes \/ ListHostSubnets \/ ListNamespaces \/ LoadFails
  \/ CannotPlan \/ AssignIPsToNodes
  \/ \E n \in Nodes :
       \/ RemoveIPs(n) \/ RemoveIPsFails(n)
       \/ AddIPs(n) \/ AddIPsFails(n)
       \/ UpdateHostSubnet(n) \/ UpdateHostSubnetFails(n)
       \/ AssignCIDR(n) \/ AssignCIDRFails(n)
  \/ RemovesDone \/ AddsDone \/ FinishCycle

-----------------------------------------------------------------------------
(* The process                                                             *)

\* The process ends: what it has in memory is gone.
Stop ==
  /\ up /\ up' = FALSE
  /\ pc' = "idle" /\ NoContext
  /\ queued' = FALSE
  /\ nodeCache' = NoNodes /\ hsCache' = NoSubnets
  /\ nodeEvents' = << >> /\ hsEvents' = << >>
  /\ gauge' = NoGauges
  /\ UNCHANGED <<clusterVars, changes, faults, staleReads>>

\* The goroutine for a node whose instance was not found, or was found
\* without interface, dereferences nil or indexes an empty slice: a panic.
InstancePanics ==
  /\ pc = "remove" /\ \E n \in pending : n \notin rcMachines
  /\ Stop
  /\ UNCHANGED crashes

Crash ==
  /\ crashes < MaxCrashes /\ crashes' = crashes + 1
  /\ Stop

\* The caches are listed anew and every object arrives as a create event.
Restart ==
  /\ ~up /\ up' = TRUE
  /\ nodeCache' = node /\ hsCache' = hs
  /\ queued' = TRUE
  /\ UNCHANGED <<clusterVars, nodeEvents, hsEvents, gauge, pc, rcVars, boundVars>>

-----------------------------------------------------------------------------

Init ==
  /\ platform \in Platforms
  /\ node = [n \in Nodes |-> [exists |-> TRUE, ready |-> TRUE, sel |-> TRUE]]
  /\ hs = [n \in Nodes |-> [NoSubnet(1) EXCEPT !.exists = TRUE]]
  /\ nodeCache = node /\ hsCache = hs
  /\ machines = Nodes /\ nic = NoIPs /\ demand = {}
  /\ nodeEvents = << >> /\ hsEvents = << >>
  /\ queued = TRUE /\ up = TRUE /\ gauge = NoGauges
  /\ pc = "idle" /\ loading = {}
  /\ rcNode = NoNodes /\ rcHs = NoSubnets /\ rcDemand = {} /\ rcNic = NoIPs
  /\ rcMachines = {}
  /\ plan = NoIPs /\ keys = {} /\ pending = {} /\ failed = FALSE
  /\ changes = 0 /\ faults = 0 /\ crashes = 0 /\ staleReads = 0

NodeChanges(n) ==
  ReadinessChanges(n) \/ LabelsChange(n) \/ MachineGoes(n) \/ NodeJoins(n)

Next ==
  \/ \E n \in Nodes : NodeChanges(n)
  \/ \E ip \in IPs : Demand(ip) \/ Release(ip)
  \/ ClusterFollows
  \/ DeliverNode \/ DeliverHostSubnet
  \/ CycleStep
  \/ InstancePanics \/ Crash \/ Restart

Spec == Init /\ [][Next]_vars

\* The informers and the worker keep running, the process is restarted, and
\* nodes and HostSubnets follow their machines; nothing obliges machines,
\* namespaces, faults or crashes to do anything.
Fairness ==
  /\ WF_vars(DeliverNode) /\ WF_vars(DeliverHostSubnet)
  /\ WF_vars(CycleStep \/ InstancePanics) /\ WF_vars(Restart)
  /\ WF_vars(ClusterFollows)

FairSpec == Spec /\ Fairness

-----------------------------------------------------------------------------
(* Properties                                                              *)

NodeObjects == [exists : BOOLEAN, ready : BOOLEAN, sel : BOOLEAN]

Subnets == [exists : BOOLEAN, ips : SUBSET IPs, cidr : BOOLEAN, rv : Nat]

Events(objects) == [node : Nodes, new : objects]

ClusterTypeOK ==
  /\ platform \in Platforms
  /\ node \in [Nodes -> NodeObjects] /\ hs \in [Nodes -> Subnets]
  /\ machines \subseteq Nodes
  /\ nic \in [Nodes -> SUBSET IPs] /\ demand \subseteq IPs

InformerTypeOK ==
  /\ nodeCache \in [Nodes -> NodeObjects] /\ hsCache \in [Nodes -> Subnets]
  /\ nodeEvents \in Seq(Events(NodeObjects))
  /\ hsEvents \in Seq(Events(Subnets))
  /\ queued \in BOOLEAN /\ up \in BOOLEAN /\ gauge \in [Nodes -> Nat]

LoadTypeOK ==
  /\ loading \subseteq {"nodes", "hostsubnets", "namespaces"}
  /\ rcNode \in [Nodes -> NodeObjects] /\ rcHs \in [Nodes -> Subnets]
  /\ rcDemand \subseteq IPs /\ rcNic \in [Nodes -> SUBSET IPs]
  /\ rcMachines \subseteq Nodes

PlanTypeOK ==
  /\ pc \in {"idle", "load", "remove", "add", "hostsubnets", "cidrs"}
  /\ plan \in [Nodes -> SUBSET IPs] /\ keys \subseteq Nodes
  /\ pending \subseteq Nodes /\ failed \in BOOLEAN
  /\ pc = "idle" => loading = {} /\ pending = {} /\ ~failed

BoundsTypeOK ==
  changes \in Nat /\ faults \in Nat /\ crashes \in Nat /\ staleReads \in Nat

TypeOK == ClusterTypeOK /\ InformerTypeOK /\ LoadTypeOK /\ PlanTypeOK /\ BoundsTypeOK

\* "This should preserve IPs that are already assigned" (ipam.go), on the
\* cluster: a HostSubnet that stays loses an IP only in a cycle that saw its
\* node not ready or the IP not in demand, also when the cycle worked from an
\* old copy of the HostSubnet.
CarriedIPsKept ==
  [][\A n \in Nodes : hs'[n].exists =>
       \A ip \in hs[n].ips \ hs'[n].ips : n \notin Ready \/ ip \notin rcDemand]_vars

\* The controller has nothing left to do, and neither have those who delete
\* the nodes of machines that are gone and keep the HostSubnets.
AtRest ==
  /\ up /\ ~queued /\ pc = "idle"
  /\ nodeEvents = << >> /\ hsEvents = << >>
  /\ \A n \in Nodes : /\ node[n].exists <=> n \in machines
                      /\ node[n].exists <=> hs[n].exists

\* ip reaches the outside through node n.
CarriedBy(ip, n) ==
  node[n].exists /\ node[n].ready /\ ip \in hs[n].ips /\ (Cloud => ip \in nic[n])

\* Every node of a zone has its own address in one of the CIDRs, so that a
\* change of its HostSubnet wakes the controller.  On a cloud this has to be
\* so (the CIDRs are the nodes' subnets), on bare metal it need not.
HostSubnetsWatched == \A n \in Nodes : Zone[n] \in Zones => MatchesHostSubnet(n)

\* "This operator has the ability to detect failed nodes and move the
\* egressIPs these nodes were carring to other nodes" (readme.md), where the
\* nodes' own addresses are in the CIDRs: when the controller has nothing
\* left to do, every IP in demand is in the HostSubnet and on the interface
\* of a ready node, whatever nodes, failed calls and crashes did before.  In
\* particular the IPs of a deleted node have moved, though the deletion of
\* the node itself triggers nothing.  Elsewhere they have not: neither the
\* deleted node nor its HostSubnet wakes the controller.
CarriedAtRest ==
  HostSubnetsWatched /\ AtRest /\ platform # "onecidr"
    => \A ip \in demand : \E n \in Nodes : CarriedBy(ip, n)

\* "all the hostsubnet relative to the nodes selected by this EgressIPAM will
\* be update to have the EgressCIDRs field" (readme.md): with one CIDR on
\* bare metal that has the nodes' own addresses in it, when the controller
\* has nothing left to do, also for nodes that joined during a cycle and
\* after a cycle that stopped half-way.
CIDRsAtRest ==
  HostSubnetsWatched /\ AtRest /\ platform = "onecidr"
    => \A n \in Nodes : node[n].exists /\ node[n].sel /\ Zone[n] \in Zones => hs[n].cidr

\* When the controller has nothing left to do, the interfaces have exactly
\* the IPs that the HostSubnets say, though the two are written at
\* different times and the plan may come from an old HostSubnet.
InterfacesMatchAtRest ==
  HostSubnetsWatched /\ AtRest /\ Cloud => \A n \in Nodes : nic[n] = hs[n].ips

\* Where the nodes' own addresses are in the CIDRs: when the controller has
\* nothing left to do, the gauge of a selected node of a zone counts the IPs
\* that its HostSubnet carries, also after failed cycles and a crash, which
\* forgets the gauges.
GaugesAtRest ==
  HostSubnetsWatched /\ AtRest /\ platform # "onecidr"
    => \A n \in Nodes : node[n].exists /\ node[n].sel /\ Zone[n] \in Zones
                         => gauge[n] = Cardinality(hs[n].ips) + 1

\* An IP is in the HostSubnets of two nodes.
Doubled(ip) == \E n, m \in Nodes : n # m /\ ip \in hs[n].ips \cap hs[m].ips

\* A node that is no longer selected keeps its IPs: nothing takes them away.
Abandoned(n) == node[n].exists /\ ~node[n].sel /\ (hs[n].ips # {} \/ nic[n] # {})

ReadyNodes == {n \in Nodes : node[n].exists /\ node[n].ready /\ node[n].sel}

ZonesServed == \A ip \in demand : Candidates(Zone, ReadyNodes, ZoneOf[ip]) # {}

\* Sooner or later, once no zone is without a ready node, and unless an IP
\* has got into two HostSubnets or stays on a node that is not selected any
\* more, every IP in demand is carried by a ready node and the controller
\* comes to rest.
EventuallyCarried ==
  <>[](/\ ZonesServed
       /\ \A ip \in IPs : ~Doubled(ip)
       /\ \A n \in Nodes : ~Abandoned(n))
    => <>[](/\ AtRest
            /\ platform # "onecidr" => \A ip \in demand : \E n \in Nodes : CarriedBy(ip, n))
=============================================================================
