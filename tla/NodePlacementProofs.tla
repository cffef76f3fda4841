------------------------ MODULE NodePlacementProofs ------------------------
(***************************************************************************)
(* Proofs about NodePlacement, for any nodes, IPs, zones, platforms and    *)
(* bounds: the types, and that a node that stays ready loses no IP that    *)
(* stays in demand.                                                        *)
(***************************************************************************)
EXTENDS NodePlacement, FiniteSetTheorems, TLAPS

-----------------------------------------------------------------------------
(* Types                                                                   *)

LEMMA NodeObjectTypes ==
  /\ NoNode \in NodeObjects
  /\ \A o \in NodeObjects : /\ [o EXCEPT !.ready = ~o.ready] \in NodeObjects
                            /\ [o EXCEPT !.sel = ~o.sel] \in NodeObjects
  /\ \A r \in BOOLEAN : [exists |-> TRUE, ready |-> r, sel |-> TRUE] \in NodeObjects
BY DEF NoNode, NodeObjects

LEMMA SubnetTypes ==
  /\ \A rv \in Nat : NoSubnet(rv) \in Subnets
  /\ \A rv \in Nat, e \in BOOLEAN : [NoSubnet(rv) EXCEPT !.exists = e] \in Subnets
  /\ \A ips \in SUBSET IPs, c \in BOOLEAN, rv \in Nat :
       [exists |-> TRUE, ips |-> ips, cidr |-> c, rv |-> rv] \in Subnets
BY DEF NoSubnet, Subnets

LEMMA NothingTypes ==
  /\ NoIPs \in [Nodes -> SUBSET IPs] /\ NoNodes \in [Nodes -> NodeObjects]
  /\ NoSubnets \in [Nodes -> Subnets] /\ NoGauges \in [Nodes -> Nat]
BY NodeObjectTypes, SubnetTypes DEF NoIPs, NoNodes, NoSubnets, NoGauges

LEMMA PutNodeType ==
  ASSUME TypeOK, NEW n \in Nodes, NEW new \in NodeObjects, PutNode(n, new)
  PROVE  /\ node' \in [Nodes -> NodeObjects]
         /\ nodeEvents' \in Seq(Events(NodeObjects))
<1>1. [node |-> n, new |-> new] \in Events(NodeObjects)
  BY DEF Events
<1>2. node' \in [Nodes -> NodeObjects]
  BY DEF TypeOK, ClusterTypeOK, PutNode
<1>3. nodeEvents \in Seq(Events(NodeObjects))
  BY DEF TypeOK, InformerTypeOK
<1> QED
  BY <1>1, <1>2, <1>3 DEF PutNode

LEMMA PutHostSubnetType ==
  ASSUME TypeOK, NEW n \in Nodes, NEW new \in Subnets, PutHostSubnet(n, new)
  PROVE  /\ hs' \in [Nodes -> Subnets]
         /\ hsEvents' \in Seq(Events(Subnets))
<1>1. [node |-> n, new |-> new] \in Events(Subnets)
  BY DEF Events
<1>2. hs' \in [Nodes -> Subnets]
  BY DEF TypeOK, ClusterTypeOK, PutHostSubnet
<1>3. hsEvents \in Seq(Events(Subnets))
  BY DEF TypeOK, InformerTypeOK
<1> QED
  BY <1>1, <1>2, <1>3 DEF PutHostSubnet

\* What the cluster does leaves the process alone, but for events and queue.
LEMMA OutsideType ==
  ASSUME TypeOK, Outside, ClusterTypeOK', changes' \in Nat, queued' \in BOOLEAN,
         nodeEvents' \in Seq(Events(NodeObjects)),
         hsEvents' \in Seq(Events(Subnets))
  PROVE  TypeOK'
BY DEF TypeOK, Outside, InformerTypeOK, LoadTypeOK, PlanTypeOK, BoundsTypeOK,
   rcVars, loadedVars

LEMMA ClusterType ==
  ASSUME TypeOK,
         \/ \E n \in Nodes : NodeChanges(n)
         \/ \E ip \in IPs : Demand(ip) \/ Release(ip)
         \/ ClusterFollows
  PROVE  TypeOK'
<1>0. /\ platform \in Platforms
      /\ node \in [Nodes -> NodeObjects] /\ hs \in [Nodes -> Subnets]
      /\ machines \subseteq Nodes /\ nic \in [Nodes -> SUBSET IPs] /\ demand \subseteq IPs
      /\ nodeEvents \in Seq(Events(NodeObjects))
      /\ hsEvents \in Seq(Events(Subnets))
      /\ queued \in BOOLEAN /\ up \in BOOLEAN /\ changes \in Nat
  BY DEF TypeOK, ClusterTypeOK, InformerTypeOK, BoundsTypeOK
<1>1. ASSUME NEW n \in Nodes, ReadinessChanges(n) \/ LabelsChange(n)
      PROVE  TypeOK'
  <2>1. PICK new \in NodeObjects : PutNode(n, new)
    BY <1>0, <1>1, NodeObjectTypes DEF ReadinessChanges, LabelsChange
  <2>2. /\ Outside /\ changes' = changes + 1
        /\ UNCHANGED <<demand, queued, hs, machines, nic, hsEvents>>
    BY <1>1 DEF ReadinessChanges, LabelsChange, Changing
  <2>3. /\ node' \in [Nodes -> NodeObjects]
        /\ nodeEvents' \in Seq(Events(NodeObjects))
    BY <2>1, PutNodeType
  <2>4. ClusterTypeOK'
    BY <1>0, <2>2, <2>3 DEF ClusterTypeOK, Outside
  <2> QED
    BY <1>0, <2>2, <2>3, <2>4, OutsideType
<1>2. ASSUME NEW n \in Nodes, MachineGoes(n)
      PROVE  TypeOK'
  <2>1. ClusterTypeOK' /\ Outside /\ changes' \in Nat
    BY <1>0, <1>2 DEF MachineGoes, Changing, Outside, ClusterTypeOK
  <2> QED
    BY <1>0, <1>2, <2>1, OutsideType DEF MachineGoes
<1>3. ASSUME NEW n \in Nodes, NodeJoins(n)
      PROVE  TypeOK'
  <2>1. PICK r \in BOOLEAN : PutNode(n, [exists |-> TRUE, ready |-> r, sel |-> TRUE])
    BY <1>3 DEF NodeJoins
  <2>2. /\ node' \in [Nodes -> NodeObjects]
        /\ nodeEvents' \in Seq(Events(NodeObjects))
    BY <2>1, PutNodeType, NodeObjectTypes
  <2>3. ClusterTypeOK' /\ Outside /\ changes' \in Nat
    BY <1>0, <1>3, <2>2 DEF NodeJoins, Changing, Outside, ClusterTypeOK
  <2> QED
    BY <1>0, <1>3, <2>2, <2>3, OutsideType DEF NodeJoins
<1>4. ASSUME NEW ip \in IPs, Demand(ip) \/ Release(ip)
      PROVE  TypeOK'
  <2>1. ClusterTypeOK' /\ Outside /\ changes' \in Nat
    BY <1>0, <1>4 DEF Demand, Release, Changing, Outside, ClusterTypeOK
  <2>2. queued' \in BOOLEAN
    BY <1>0, <1>4 DEF Demand, Release
  <2> QED
    BY <1>0, <1>4, <2>1, <2>2, OutsideType DEF Demand, Release
<1>5. ASSUME NEW n \in Nodes, NodeGoes(n)
      PROVE  TypeOK'
  <2>1. /\ node' \in [Nodes -> NodeObjects]
        /\ nodeEvents' \in Seq(Events(NodeObjects))
    BY <1>5, PutNodeType, NodeObjectTypes DEF NodeGoes
  <2>2. ClusterTypeOK'
    BY <1>0, <1>5, <2>1 DEF NodeGoes, Outside, ClusterTypeOK
  <2> QED
    BY <1>0, <1>5, <2>1, <2>2, OutsideType DEF NodeGoes
<1>6. ASSUME NEW n \in Nodes, SDNFollows(n)
      PROVE  TypeOK'
  <2>1. node[n].exists \in BOOLEAN /\ hs[n].rv + 1 \in Nat
    BY <1>0 DEF NodeObjects, Subnets
  <2>2. [NoSubnet(hs[n].rv + 1) EXCEPT !.exists = node[n].exists] \in Subnets
    BY <2>1, SubnetTypes
  <2>3. hs' \in [Nodes -> Subnets] /\ hsEvents' \in Seq(Events(Subnets))
    BY <1>6, <2>2, PutHostSubnetType DEF SDNFollows
  <2>4. ClusterTypeOK'
    BY <1>0, <1>6, <2>3 DEF SDNFollows, Outside, ClusterTypeOK
  <2> QED
    BY <1>0, <1>6, <2>3, <2>4, OutsideType DEF SDNFollows
<1> QED
  BY <1>1, <1>2, <1>3, <1>4, <1>5, <1>6 DEF NodeChanges, ClusterFollows

LEMMA DeliveryType ==
  ASSUME TypeOK, DeliverNode \/ DeliverHostSubnet
  PROVE  TypeOK'
<1>a. Delivering
  BY DEF DeliverNode, DeliverHostSubnet
<1>0. /\ ClusterTypeOK' /\ LoadTypeOK' /\ PlanTypeOK' /\ BoundsTypeOK'
      /\ up' \in BOOLEAN /\ gauge' \in [Nodes -> Nat]
  BY <1>a DEF Delivering, TypeOK, ClusterTypeOK, InformerTypeOK,
     LoadTypeOK, PlanTypeOK, BoundsTypeOK, clusterVars, rcVars, loadedVars, boundVars
<1>1. CASE DeliverNode
  <2>1. nodeEvents \in Seq(Events(NodeObjects)) /\ nodeEvents # << >>
    BY <1>1 DEF DeliverNode, TypeOK, InformerTypeOK
  <2>2. Head(nodeEvents) \in Events(NodeObjects)
        /\ nodeEvents' \in Seq(Events(NodeObjects))
    BY <1>1, <2>1 DEF DeliverNode
  <2>3. nodeCache' \in [Nodes -> NodeObjects]
    BY <1>1, <2>2 DEF DeliverNode, TypeOK, InformerTypeOK, Events
  <2>4. queued' \in BOOLEAN
    BY <1>1 DEF DeliverNode
  <2> QED
    BY <1>0, <1>1, <2>2, <2>3, <2>4 DEF DeliverNode, TypeOK, InformerTypeOK
<1>2. CASE DeliverHostSubnet
  <2>1. hsEvents \in Seq(Events(Subnets)) /\ hsEvents # << >>
    BY <1>2 DEF DeliverHostSubnet, TypeOK, InformerTypeOK
  <2>2. Head(hsEvents) \in Events(Subnets)
        /\ hsEvents' \in Seq(Events(Subnets))
    BY <1>2, <2>1 DEF DeliverHostSubnet
  <2>3. hsCache' \in [Nodes -> Subnets]
    BY <1>2, <2>2 DEF DeliverHostSubnet, TypeOK, InformerTypeOK, Events
  <2>4. queued' \in BOOLEAN
    BY <1>2 DEF DeliverHostSubnet
  <2> QED
    BY <1>0, <1>2, <2>2, <2>3, <2>4 DEF DeliverHostSubnet, TypeOK, InformerTypeOK
<1> QED
  BY <1>1, <1>2

LEMMA NoContextType ==
  ASSUME NoContext, pc' = "idle"
  PROVE  LoadTypeOK' /\ PlanTypeOK'
BY NothingTypes DEF NoContext, LoadTypeOK, PlanTypeOK

\* What the steps of a cycle leave alone.
LEMMA InCycleType ==
  ASSUME TypeOK, InCycle, hs' \in [Nodes -> Subnets], nic' \in [Nodes -> SUBSET IPs],
         hsEvents' \in Seq(Events(Subnets)), queued' \in BOOLEAN,
         gauge' \in [Nodes -> Nat], faults' \in Nat, staleReads' \in Nat
  PROVE  ClusterTypeOK' /\ InformerTypeOK' /\ BoundsTypeOK'
BY DEF TypeOK, InCycle, ClusterTypeOK, InformerTypeOK, BoundsTypeOK

\* The write of a HostSubnet, or none.
LEMMA WriteType ==
  ASSUME TypeOK, NEW n \in Nodes, NEW ips \in SUBSET IPs, NEW c \in BOOLEAN,
         UNCHANGED <<hs, hsEvents>> \/ WriteHostSubnet(n, ips, c)
  PROVE  hs' \in [Nodes -> Subnets] /\ hsEvents' \in Seq(Events(Subnets))
<1>1. CASE UNCHANGED <<hs, hsEvents>>
  BY <1>1 DEF TypeOK, ClusterTypeOK, InformerTypeOK
<1>2. CASE WriteHostSubnet(n, ips, c)
  <2>1. hs[n].rv + 1 \in Nat
    BY DEF TypeOK, ClusterTypeOK, Subnets
  <2>2. [exists |-> TRUE, ips |-> ips, cidr |-> c, rv |-> hs[n].rv + 1] \in Subnets
    BY <2>1, SubnetTypes
  <2> QED
    BY <1>2, <2>2, PutHostSubnetType DEF WriteHostSubnet
<1> QED
  BY <1>1, <1>2

LEMMA ReadType ==
  ASSUME TypeOK, NEW events, Read(events)
  PROVE  staleReads' \in Nat
BY DEF TypeOK, BoundsTypeOK, Read

LEMMA FaultType ==
  ASSUME TypeOK, faults' = faults \/ Fault
  PROVE  faults' \in Nat
BY DEF TypeOK, BoundsTypeOK, Fault

\* The end of a cycle.
LEMMA EndCycleType ==
  ASSUME TypeOK, InCycle, EndCycle(TRUE) \/ EndCycle(FALSE) \/ EndCycle(failed),
         hs' \in [Nodes -> Subnets], nic' \in [Nodes -> SUBSET IPs],
         hsEvents' \in Seq(Events(Subnets)), gauge' \in [Nodes -> Nat], faults' \in Nat,
         staleReads' \in Nat
  PROVE  TypeOK'
<1>1. queued' \in BOOLEAN
  BY Zenon DEF EndCycle
<1>2. NoContext /\ pc' = "idle"
  BY DEF EndCycle
<1>3. LoadTypeOK' /\ PlanTypeOK'
  BY <1>2, NoContextType
<1>4. ClusterTypeOK' /\ InformerTypeOK' /\ BoundsTypeOK'
  BY <1>1, InCycleType
<1> QED
  BY <1>3, <1>4 DEF TypeOK

\* The load.
LEMMA LoadType ==
  ASSUME TypeOK, \/ StartCycle \/ ListNodes \/ ListHostSubnets \/ ListNamespaces
                 \/ LoadFails \/ CannotPlan
  PROVE  TypeOK'
<1>0. /\ hs \in [Nodes -> Subnets] /\ nic \in [Nodes -> SUBSET IPs]
      /\ hsEvents \in Seq(Events(Subnets)) /\ queued \in BOOLEAN
      /\ gauge \in [Nodes -> Nat] /\ faults \in Nat /\ staleReads \in Nat
  BY DEF TypeOK, ClusterTypeOK, InformerTypeOK, BoundsTypeOK
<1>1. CASE StartCycle
  <2>1. LoadTypeOK' /\ PlanTypeOK'
    BY <1>1 DEF StartCycle, TypeOK, LoadTypeOK, PlanTypeOK
  <2>2. ClusterTypeOK' /\ InformerTypeOK' /\ BoundsTypeOK'
    BY <1>0, <1>1, InCycleType DEF StartCycle
  <2> QED
    BY <2>1, <2>2 DEF TypeOK
<1>2. CASE ListNodes \/ ListHostSubnets \/ ListNamespaces
  <2>1. PICK kind : Listed(kind)
    BY <1>2 DEF ListNodes, ListHostSubnets, ListNamespaces
  <2>2. LoadTypeOK'
    BY <1>2 DEF ListNodes, ListHostSubnets, ListNamespaces, Listed, TypeOK, LoadTypeOK,
       InformerTypeOK, ClusterTypeOK
  <2>3. PlanTypeOK'
    BY <2>1 DEF Listed, TypeOK, PlanTypeOK
  <2>4. staleReads' \in Nat
    BY <1>0, <1>2, ReadType DEF ListNodes, ListHostSubnets, ListNamespaces
  <2>5. ClusterTypeOK' /\ InformerTypeOK' /\ BoundsTypeOK'
    BY <1>0, <2>1, <2>4, InCycleType DEF Listed
  <2> QED
    BY <2>2, <2>3, <2>5 DEF TypeOK
<1>3. CASE LoadFails \/ CannotPlan
  <2>1. EndCycle(TRUE) /\ InCycle /\ UNCHANGED <<hs, nic, hsEvents, gauge, staleReads>>
    BY <1>3, Zenon DEF LoadFails, CannotPlan, NoWrite
  <2>2. faults' = faults \/ Fault
    BY <1>3, Zenon DEF LoadFails, CannotPlan
  <2> QED
    BY <1>0, <2>1, <2>2, FaultType, EndCycleType
<1> QED
  BY <1>1, <1>2, <1>3

\* The plan of a cycle, and the step that follows on the platform.
LEMMA PlanShape ==
  ASSUME TypeOK, AssignIPsToNodes
  PROVE  /\ plan' \in [Nodes -> SUBSET rcDemand]
         /\ IsPlan(Zone, Ready, Hosted, rcDemand, plan')
         /\ keys' = PlanKeys(Zone, Ready, plan') \cap Selected
         /\ \/ platform = "cloud" /\ pc' = "remove" /\ pending' = keys'
            \/ platform = "baremetal" /\ pc' = "hostsubnets" /\ pending' = SelectedHostSubnets
            \/ /\ platform = "onecidr" /\ pc' = "cidrs"
               /\ pending' = {n \in Selected : Zone[n] \in Zones}
<1>1. platform \in {"cloud", "baremetal", "onecidr"}
  BY PlacementAssumption DEF TypeOK, ClusterTypeOK
<1>2. PICK p \in [Nodes -> SUBSET rcDemand] :
        /\ IsPlan(Zone, Ready, Hosted, rcDemand, p)
        /\ plan' = p
        /\ keys' = PlanKeys(Zone, Ready, p) \cap Selected
  BY DEF AssignIPsToNodes
<1>3. (CASE platform = "cloud" -> pc' = "remove" /\ pending' = keys'
        [] platform = "baremetal" -> pc' = "hostsubnets" /\ pending' = SelectedHostSubnets
        [] platform = "onecidr" ->
             pc' = "cidrs" /\ pending' = {n \in Selected : Zone[n] \in Zones})
  BY Zenon DEF AssignIPsToNodes
<1>4. \/ platform = "cloud" /\ pc' = "remove" /\ pending' = keys'
      \/ platform = "baremetal" /\ pc' = "hostsubnets" /\ pending' = SelectedHostSubnets
      \/ /\ platform = "onecidr" /\ pc' = "cidrs"
         /\ pending' = {n \in Selected : Zone[n] \in Zones}
  BY <1>1, <1>3
<1> QED
  BY <1>2, <1>4

LEMMA PlanType ==
  ASSUME TypeOK, AssignIPsToNodes
  PROVE  TypeOK'
<1>0. /\ hs \in [Nodes -> Subnets] /\ nic \in [Nodes -> SUBSET IPs]
      /\ hsEvents \in Seq(Events(Subnets)) /\ queued \in BOOLEAN
      /\ gauge \in [Nodes -> Nat] /\ faults \in Nat /\ staleReads \in Nat
      /\ rcDemand \subseteq IPs /\ failed \in BOOLEAN
  BY DEF TypeOK, ClusterTypeOK, InformerTypeOK, BoundsTypeOK, LoadTypeOK, PlanTypeOK
<1>1. Selected \subseteq Nodes /\ SelectedHostSubnets \subseteq Nodes
  BY DEF Selected, SelectedHostSubnets
<1>2. plan' \in [Nodes -> SUBSET IPs] /\ keys' \subseteq Nodes
  BY <1>0, <1>1, PlanShape
<1>3. pc' \in {"remove", "hostsubnets", "cidrs"} /\ pending' \subseteq Nodes
  BY <1>1, <1>2, PlanShape
<1>4. failed' \in BOOLEAN /\ pc' # "idle"
  BY <1>0, <1>3 DEF AssignIPsToNodes
<1>5. PlanTypeOK'
  BY <1>2, <1>3, <1>4 DEF PlanTypeOK
<1>6. LoadTypeOK'
  BY DEF AssignIPsToNodes, TypeOK, LoadTypeOK, ClusterTypeOK
<1>7. InCycle /\ UNCHANGED <<hs, nic, hsEvents, gauge, staleReads, queued, faults>>
  BY DEF AssignIPsToNodes, NoWrite
<1>8. ClusterTypeOK' /\ InformerTypeOK' /\ BoundsTypeOK'
  BY <1>0, <1>7, InCycleType
<1> QED
  BY <1>5, <1>6, <1>8 DEF TypeOK

\* An answer that has come in.
LEMMA AnsweredType ==
  ASSUME TypeOK, NEW n \in Nodes, n \in pending,
         Answered(n, TRUE) \/ Answered(n, FALSE),
         hs' \in [Nodes -> Subnets], nic' \in [Nodes -> SUBSET IPs],
         hsEvents' \in Seq(Events(Subnets)), faults' \in Nat
  PROVE  TypeOK'
<1>1. /\ pending' = pending \ {n} /\ InCycle
      /\ UNCHANGED <<queued, pc, gauge, loadedVars, plan, keys, staleReads>>
  BY DEF Answered
<1>2. failed' \in BOOLEAN
  BY Zenon DEF Answered
<1>3. pc # "idle"
  BY DEF TypeOK, PlanTypeOK
<1>4. PlanTypeOK'
  BY <1>1, <1>2, <1>3 DEF TypeOK, PlanTypeOK
<1>5. LoadTypeOK'
  BY <1>1 DEF TypeOK, LoadTypeOK, loadedVars
<1>6. queued' \in BOOLEAN /\ gauge' \in [Nodes -> Nat] /\ staleReads' \in Nat
  BY <1>1 DEF TypeOK, InformerTypeOK, BoundsTypeOK
<1>7. ClusterTypeOK' /\ InformerTypeOK' /\ BoundsTypeOK'
  BY <1>1, <1>6, InCycleType
<1> QED
  BY <1>4, <1>5, <1>7 DEF TypeOK

\* The steps for one node, on the interfaces and on the HostSubnets.
LEMMA NodeStepType ==
  ASSUME TypeOK, NEW n \in Nodes,
         \/ RemoveIPs(n) \/ RemoveIPsFails(n)
         \/ AddIPs(n) \/ AddIPsFails(n)
         \/ UpdateHostSubnet(n) \/ UpdateHostSubnetFails(n)
         \/ AssignCIDR(n) \/ AssignCIDRFails(n)
  PROVE  TypeOK'
<1>0. /\ hs \in [Nodes -> Subnets] /\ nic \in [Nodes -> SUBSET IPs]
      /\ hsEvents \in Seq(Events(Subnets)) /\ gauge \in [Nodes -> Nat]
      /\ faults \in Nat /\ staleReads \in Nat
      /\ plan[n] \in SUBSET IPs /\ rcNic[n] \in SUBSET IPs
  BY DEF TypeOK, ClusterTypeOK, InformerTypeOK, BoundsTypeOK, LoadTypeOK, PlanTypeOK
<1>1. CASE RemoveIPs(n) \/ RemoveIPsFails(n) \/ AddIPs(n) \/ AddIPsFails(n)
  <2>1. nic' \in [Nodes -> SUBSET IPs]
    BY <1>0, <1>1 DEF RemoveIPs, RemoveIPsFails, AddIPs, AddIPsFails, ToBeRemoved, ToBeAssigned
  <2>2. faults' = faults \/ Fault
    BY <1>1, Zenon DEF RemoveIPs, RemoveIPsFails, AddIPs, AddIPsFails
  <2>3. /\ UNCHANGED <<hs, hsEvents>> /\ n \in pending
        /\ Answered(n, TRUE) \/ Answered(n, FALSE)
    BY <1>1, Zenon DEF RemoveIPs, RemoveIPsFails, AddIPs, AddIPsFails
  <2> QED
    BY <1>0, <2>1, <2>2, <2>3, FaultType, AnsweredType
<1>2. CASE UpdateHostSubnet(n) \/ UpdateHostSubnetFails(n)
  <2>1. UNCHANGED <<hs, hsEvents>> \/ WriteHostSubnet(n, plan[n], FALSE)
    BY <1>2, Zenon DEF UpdateHostSubnet, UpdateHostSubnetFails
  <2>2. faults' = faults \/ Fault
    BY <1>2, Zenon DEF UpdateHostSubnet, UpdateHostSubnetFails
  <2>3. /\ UNCHANGED nic /\ n \in pending
        /\ Answered(n, TRUE) \/ Answered(n, FALSE)
    BY <1>2, Zenon DEF UpdateHostSubnet, UpdateHostSubnetFails
  <2>4. hs' \in [Nodes -> Subnets] /\ hsEvents' \in Seq(Events(Subnets))
    BY <1>0, <2>1, WriteType
  <2> QED
    BY <1>0, <2>2, <2>3, <2>4, FaultType, AnsweredType
<1>3. CASE AssignCIDR(n) \/ AssignCIDRFails(n)
  <2>1. UNCHANGED <<hs, hsEvents>> \/ WriteHostSubnet(n, {}, TRUE)
    BY <1>3, Zenon DEF AssignCIDR, AssignCIDRFails
  <2>2. (faults' = faults \/ Fault) /\ nic' = nic
    BY <1>3, Zenon DEF AssignCIDR, AssignCIDRFails
  <2>3. hs' \in [Nodes -> Subnets] /\ hsEvents' \in Seq(Events(Subnets))
    BY <1>0, <2>1, WriteType
  <2>4. CASE AssignCIDR(n)
    BY <1>0, <2>2, <2>3, <2>4, FaultType, AnsweredType DEF AssignCIDR
  <2>5. CASE AssignCIDRFails(n)
    BY <1>0, <2>2, <2>3, <2>5, FaultType, EndCycleType DEF AssignCIDRFails
  <2> QED
    BY <1>3, <2>4, <2>5
<1> QED
  BY <1>1, <1>2, <1>3

LEMMA MeasureType ==
  ASSUME TypeOK, NEW n \in Nodes
  PROVE  Cardinality(plan[n]) \in Nat
<1>1. plan[n] \subseteq IPs
  BY DEF TypeOK, PlanTypeOK
<1>2. IsFiniteSet(plan[n])
  BY <1>1, NodePlansAssumption, FS_Subset
<1> QED
  BY <1>2, FS_CardinalityType

LEMMA DoneType ==
  ASSUME TypeOK, RemovesDone \/ AddsDone \/ FinishCycle
  PROVE  TypeOK'
<1>0. /\ hs \in [Nodes -> Subnets] /\ nic \in [Nodes -> SUBSET IPs]
      /\ hsEvents \in Seq(Events(Subnets)) /\ queued \in BOOLEAN
      /\ gauge \in [Nodes -> Nat] /\ faults \in Nat /\ staleReads \in Nat
      /\ keys \subseteq Nodes
  BY DEF TypeOK, ClusterTypeOK, InformerTypeOK, BoundsTypeOK, PlanTypeOK
<1>1. ASSUME NEW next \in {"add", "hostsubnets"}, NEW nodes \in SUBSET Nodes,
             ToNext(next, nodes)
      PROVE  TypeOK'
  <2>1. InCycle /\ UNCHANGED <<hs, nic, hsEvents, gauge, staleReads, faults>>
    BY <1>1 DEF ToNext, NoWrite
  <2>2. CASE failed
    BY <1>0, <1>1, <2>1, <2>2, EndCycleType DEF ToNext
  <2>3. CASE ~failed
    <3>1. pc' = next /\ pending' = nodes /\ UNCHANGED <<queued, loadedVars, plan, keys, failed>>
      BY <1>1, <2>3 DEF ToNext
    <3>2. LoadTypeOK' /\ PlanTypeOK'
      BY <1>1, <3>1 DEF TypeOK, LoadTypeOK, PlanTypeOK, loadedVars
    <3>3. ClusterTypeOK' /\ InformerTypeOK' /\ BoundsTypeOK'
      BY <1>0, <2>1, <3>1, InCycleType
    <3> QED
      BY <3>2, <3>3 DEF TypeOK
  <2> QED
    BY <2>2, <2>3
<1>2. SelectedHostSubnets \in SUBSET Nodes
  BY DEF SelectedHostSubnets, Selected
<1>3. CASE FinishCycle
  <2>1. gauge' \in [Nodes -> Nat]
    <3>1. \A n \in Nodes : Cardinality(plan[n]) + 1 \in Nat
      BY MeasureType
    <3> QED
      BY <1>0, <1>3, <3>1 DEF FinishCycle
  <2>2. InCycle /\ EndCycle(failed) /\ UNCHANGED <<hs, nic, hsEvents, faults, staleReads>>
    BY <1>3 DEF FinishCycle
  <2> QED
    BY <1>0, <2>1, <2>2, EndCycleType
<1> QED
  BY <1>0, <1>1, <1>2, <1>3 DEF RemovesDone, AddsDone

LEMMA ProcessType ==
  ASSUME TypeOK, InstancePanics \/ Crash \/ Restart
  PROVE  TypeOK'
<1>1. CASE InstancePanics \/ Crash
  <2>1. Stop /\ crashes' \in Nat
    BY <1>1 DEF InstancePanics, Crash, TypeOK, BoundsTypeOK
  <2>2. LoadTypeOK' /\ PlanTypeOK'
    BY <2>1, NoContextType DEF Stop
  <2>3. up' \in BOOLEAN /\ queued' \in BOOLEAN
    BY <2>1, Zenon DEF Stop
  <2>4. ClusterTypeOK' /\ InformerTypeOK' /\ BoundsTypeOK'
    BY <2>1, <2>3, NothingTypes
       DEF Stop, TypeOK, ClusterTypeOK, InformerTypeOK, BoundsTypeOK, clusterVars
  <2> QED
    BY <2>2, <2>4 DEF TypeOK
<1>2. CASE Restart
  <2>1. up' \in BOOLEAN /\ queued' \in BOOLEAN
    BY <1>2, Zenon DEF Restart
  <2> QED
    BY <1>2, <2>1 DEF Restart, TypeOK, ClusterTypeOK, InformerTypeOK, LoadTypeOK, PlanTypeOK,
       BoundsTypeOK, clusterVars, rcVars, loadedVars, boundVars
<1> QED
  BY <1>1, <1>2

LEMMA StutterType ==
  ASSUME TypeOK, UNCHANGED vars
  PROVE  TypeOK'
BY DEF TypeOK, ClusterTypeOK, InformerTypeOK, LoadTypeOK, PlanTypeOK, BoundsTypeOK, vars,
   clusterVars, informerVars, rcVars, loadedVars, boundVars

LEMMA InitType == Init => TypeOK
<1> SUFFICES ASSUME Init PROVE TypeOK
  OBVIOUS
<1>1. ClusterTypeOK
  BY NothingTypes, SubnetTypes DEF Init, ClusterTypeOK, NodeObjects
<1>2. InformerTypeOK
  <2>1. up \in BOOLEAN /\ queued \in BOOLEAN
    BY Zenon DEF Init
  <2>2. nodeCache = node /\ hsCache = hs /\ gauge = NoGauges
    BY DEF Init
  <2>3. nodeEvents \in Seq(Events(NodeObjects)) /\ hsEvents \in Seq(Events(Subnets))
    BY DEF Init
  <2> QED
    BY <1>1, <2>1, <2>2, <2>3, NothingTypes DEF ClusterTypeOK, InformerTypeOK
<1>3. LoadTypeOK /\ PlanTypeOK /\ BoundsTypeOK
  BY NothingTypes DEF Init, LoadTypeOK, PlanTypeOK, BoundsTypeOK
<1> QED
  BY <1>1, <1>2, <1>3 DEF TypeOK

LEMMA StepType == TypeOK /\ [Next]_vars => TypeOK'
BY ClusterType, DeliveryType, LoadType, PlanType, NodeStepType, DoneType, ProcessType,
   StutterType DEF Next, CycleStep

\* For any constants: the variables keep their types; in particular no cycle
\* leaves anything of its context behind, and the gauges are counts.
THEOREM PlacementTypes == Spec => []TypeOK
BY InitType, StepType, PTL DEF Spec

-----------------------------------------------------------------------------
(* The queues of the informers                                             *)

\* The elements of a queue of events, after one is added or taken out.
LEMMA EventTypes ==
  ASSUME NEW S, NEW s \in Seq(Events(S))
  PROVE  /\ Len(s) \in Nat /\ DOMAIN s = 1 .. Len(s)
         /\ \A i \in 1 .. Len(s) : s[i] \in Events(S) /\ s[i].node \in Nodes /\ s[i].new \in S
<1>1. Len(s) \in Nat /\ DOMAIN s = 1 .. Len(s) /\ \A i \in 1 .. Len(s) : s[i] \in Events(S)
  OBVIOUS
<1>2. \A e \in Events(S) : e.node \in Nodes /\ e.new \in S
  BY DEF Events
<1> QED
  BY <1>1, <1>2

LEMMA EventAdded ==
  ASSUME NEW S, NEW s \in Seq(Events(S)), NEW n \in Nodes, NEW o \in S, NEW t,
         t = Append(s, [node |-> n, new |-> o])
  PROVE  /\ Len(t) = Len(s) + 1
         /\ \A i \in 1 .. Len(s) : t[i] = s[i]
         /\ t[Len(s) + 1].node = n /\ t[Len(s) + 1].new = o
<1>1. [node |-> n, new |-> o] \in Events(S)
  BY DEF Events
<1>2. s \in Seq(Events(S))
  OBVIOUS
<1>3. /\ Len(t) = Len(s) + 1
      /\ \A i \in 1 .. Len(s) : t[i] = s[i]
      /\ t[Len(s) + 1] = [node |-> n, new |-> o]
  BY <1>1, <1>2
<1> QED
  BY <1>3

LEMMA EventTaken ==
  ASSUME NEW S, NEW s \in Seq(Events(S)), s # << >>
  PROVE  /\ Len(s) > 0 /\ Head(s) = s[1] /\ Len(Tail(s)) = Len(s) - 1
         /\ \A i \in 1 .. Len(s) - 1 : Tail(s)[i] = s[i + 1]
OBVIOUS

-----------------------------------------------------------------------------
(* Nothing that stays in demand is taken from a node that stays ready      *)

\* o is a copy of the HostSubnet of n: what is stored, or older.
IsVersion(n, o) == o = hs[n] \/ o.rv < hs[n].rv

SubnetCopies ==
  /\ \A n \in Nodes : hs[n].rv > 0 /\ IsVersion(n, hsCache[n]) /\ IsVersion(n, rcHs[n])
  /\ \A i \in DOMAIN hsEvents : IsVersion(hsEvents[i].node, hsEvents[i].new)

\* A HostSubnet that is gone carries nothing, and with one CIDR on bare metal
\* it is the SDN that places the IPs.
SubnetShapes ==
  \A n \in Nodes : ~hs[n].exists \/ platform = "onecidr" => hs[n].ips = {}

\* The steps that a platform takes.
PlatformSteps ==
  /\ platform = "onecidr" => pc \notin {"remove", "add", "hostsubnets"}
  /\ pc = "cidrs" => platform = "onecidr"

\* The plan keeps what it should, and only HostSubnets that were listed are
\* written.
PlanKeeps ==
  /\ pc \in {"remove", "add", "hostsubnets"} =>
       \A n \in Ready \cap SelectedHostSubnets : rcHs[n].ips \cap rcDemand \subseteq plan[n]
  /\ pc = "hostsubnets" => pending \subseteq SelectedHostSubnets

KeepInv == SubnetCopies /\ SubnetShapes /\ PlatformSteps /\ PlanKeeps

\* The writes of a HostSubnet.
SubnetWrite(n) ==
  \/ SDNFollows(n)
  \/ /\ pc = "hostsubnets" /\ n \in pending /\ plan[n] # rcHs[n].ips /\ Accepts(n)
     /\ WriteHostSubnet(n, plan[n], FALSE)
  \/ /\ pc = "cidrs" /\ n \in pending /\ ~rcHs[n].cidr /\ Accepts(n)
     /\ WriteHostSubnet(n, {}, TRUE)

\* Who changes the HostSubnets, their copies and their events.
LEMMA SubnetMoves ==
  ASSUME [Next]_vars
  PROVE  \/ UNCHANGED <<hs, hsCache, hsEvents, up>>
         \/ UNCHANGED <<hsCache, up>> /\ \E n \in Nodes : SubnetWrite(n)
         \/ DeliverHostSubnet
         \/ Stop
         \/ Restart
<1>1. CASE \/ \E n \in Nodes : NodeChanges(n)
           \/ \E ip \in IPs : Demand(ip) \/ Release(ip)
           \/ \E n \in Nodes : NodeGoes(n)
           \/ DeliverNode
  <2> SUFFICES UNCHANGED <<hs, hsCache, hsEvents, up>>
    OBVIOUS
  <2>1. ASSUME NEW n \in Nodes, NodeChanges(n)
        PROVE  UNCHANGED <<hs, hsCache, hsEvents, up>>
    BY <2>1 DEF NodeChanges, ReadinessChanges, LabelsChange, MachineGoes, NodeJoins,
       Changing, Outside
  <2>2. ASSUME NEW ip \in IPs, Demand(ip) \/ Release(ip)
        PROVE  UNCHANGED <<hs, hsCache, hsEvents, up>>
    BY <2>2 DEF Demand, Release, Changing, Outside
  <2>3. ASSUME NEW n \in Nodes, NodeGoes(n)
        PROVE  UNCHANGED <<hs, hsCache, hsEvents, up>>
    BY <2>3 DEF NodeGoes, Outside
  <2>4. DeliverNode => UNCHANGED <<hs, hsCache, hsEvents, up>>
    BY DEF DeliverNode, Delivering, clusterVars
  <2> QED
    BY <1>1, <2>1, <2>2, <2>3, <2>4
<1>2. ASSUME NEW n \in Nodes, SDNFollows(n)
      PROVE  UNCHANGED <<hsCache, up>> /\ SubnetWrite(n)
  BY <1>2 DEF SubnetWrite, SDNFollows, Outside
<1>3. CASE \/ StartCycle \/ ListNodes \/ ListHostSubnets \/ ListNamespaces \/ LoadFails
           \/ CannotPlan \/ AssignIPsToNodes \/ RemovesDone \/ AddsDone \/ FinishCycle
  BY <1>3 DEF StartCycle, ListNodes, ListHostSubnets, ListNamespaces, Listed, LoadFails,
     CannotPlan, AssignIPsToNodes, RemovesDone, AddsDone, ToNext, FinishCycle, NoWrite, InCycle
<1>4. ASSUME NEW n \in Nodes, RemoveIPs(n) \/ RemoveIPsFails(n) \/ AddIPs(n) \/ AddIPsFails(n)
      PROVE  UNCHANGED <<hs, hsCache, hsEvents, up>>
  BY <1>4 DEF RemoveIPs, RemoveIPsFails, AddIPs, AddIPsFails, Answered, InCycle
<1>5. ASSUME NEW n \in Nodes, \/ UpdateHostSubnet(n) \/ UpdateHostSubnetFails(n)
                              \/ AssignCIDR(n) \/ AssignCIDRFails(n)
      PROVE  /\ UNCHANGED <<hsCache, up>>
             /\ UNCHANGED <<hs, hsEvents>> \/ SubnetWrite(n)
  <2>1. UNCHANGED <<hsCache, up>>
    BY <1>5 DEF UpdateHostSubnet, UpdateHostSubnetFails, AssignCIDR, AssignCIDRFails, Answered,
       InCycle
  <2>2. UNCHANGED <<hs, hsEvents>> \/ SubnetWrite(n)
    BY <1>5, Zenon DEF UpdateHostSubnet, UpdateHostSubnetFails, AssignCIDR, AssignCIDRFails,
       SubnetWrite
  <2> QED
    BY <2>1, <2>2
<1>6. CASE InstancePanics \/ Crash \/ Restart
  BY <1>6 DEF InstancePanics, Crash
<1>7. CASE UNCHANGED vars
  BY <1>7 DEF vars, clusterVars, informerVars
<1> QED
  BY <1>1, <1>2, <1>3, <1>4, <1>5, <1>6, <1>7 DEF Next, ClusterFollows, CycleStep

\* Who changes what the cycle works from.
LEMMA CycleMoves ==
  ASSUME [Next]_vars
  PROVE  \/ UNCHANGED <<pc, rcVars>>
         \/ pc' = "idle" /\ NoContext
         \/ StartCycle \/ ListNodes \/ ListHostSubnets \/ ListNamespaces
         \/ AssignIPsToNodes
         \/ \E n \in pending : pending' = pending \ {n} /\ UNCHANGED <<pc, loadedVars, plan, keys>>
         \/ RemovesDone \/ AddsDone
<1>1. CASE \/ \E n \in Nodes : NodeChanges(n)
           \/ \E ip \in IPs : Demand(ip) \/ Release(ip)
           \/ ClusterFollows
  <2> SUFFICES UNCHANGED <<pc, rcVars>>
    OBVIOUS
  <2>1. ASSUME NEW n \in Nodes, NodeChanges(n) \/ NodeGoes(n) \/ SDNFollows(n)
        PROVE  UNCHANGED <<pc, rcVars>>
    BY <2>1 DEF NodeChanges, ReadinessChanges, LabelsChange, MachineGoes, NodeJoins, NodeGoes,
       SDNFollows, Changing, Outside
  <2>2. ASSUME NEW ip \in IPs, Demand(ip) \/ Release(ip)
        PROVE  UNCHANGED <<pc, rcVars>>
    BY <2>2 DEF Demand, Release, Changing, Outside
  <2> QED
    BY <1>1, <2>1, <2>2 DEF ClusterFollows
<1>2. CASE DeliverNode \/ DeliverHostSubnet
  BY <1>2 DEF DeliverNode, DeliverHostSubnet, Delivering
<1>3. CASE LoadFails \/ CannotPlan \/ FinishCycle
  BY <1>3 DEF LoadFails, CannotPlan, FinishCycle, EndCycle
<1>4. ASSUME NEW n \in Nodes, \/ RemoveIPs(n) \/ RemoveIPsFails(n)
                              \/ AddIPs(n) \/ AddIPsFails(n)
                              \/ UpdateHostSubnet(n) \/ UpdateHostSubnetFails(n)
                              \/ AssignCIDR(n)
      PROVE  /\ n \in pending /\ pending' = pending \ {n}
             /\ UNCHANGED <<pc, loadedVars, plan, keys>>
  BY <1>4 DEF RemoveIPs, RemoveIPsFails, AddIPs, AddIPsFails, UpdateHostSubnet,
     UpdateHostSubnetFails, AssignCIDR, Answered
<1>5. ASSUME NEW n \in Nodes, AssignCIDRFails(n)
      PROVE  pc' = "idle" /\ NoContext
  BY <1>5 DEF AssignCIDRFails, EndCycle
<1>6. CASE InstancePanics \/ Crash \/ Restart
  BY <1>6 DEF InstancePanics, Crash, Stop, Restart
<1>7. CASE UNCHANGED vars
  BY <1>7 DEF vars
<1> QED
  BY <1>1, <1>2, <1>3, <1>4, <1>5, <1>6, <1>7 DEF Next, CycleStep

\* Nobody changes the platform.
LEMMA PlatformStays ==
  ASSUME [Next]_vars
  PROVE  platform' = platform
<1>1. ASSUME NEW n \in Nodes, NodeChanges(n) \/ NodeGoes(n) \/ SDNFollows(n)
      PROVE  platform' = platform
  BY <1>1 DEF NodeChanges, ReadinessChanges, LabelsChange, MachineGoes, NodeJoins, NodeGoes,
     SDNFollows, Changing, Outside
<1>2. ASSUME NEW ip \in IPs, Demand(ip) \/ Release(ip)
      PROVE  platform' = platform
  BY <1>2 DEF Demand, Release, Changing, Outside
<1>3. CASE DeliverNode \/ DeliverHostSubnet \/ InstancePanics \/ Crash \/ Restart
  BY <1>3 DEF DeliverNode, DeliverHostSubnet, Delivering, InstancePanics, Crash, Stop, Restart,
     clusterVars
<1>4. CASE \/ StartCycle \/ ListNodes \/ ListHostSubnets \/ ListNamespaces \/ LoadFails
           \/ CannotPlan \/ AssignIPsToNodes \/ RemovesDone \/ AddsDone \/ FinishCycle
  BY <1>4 DEF StartCycle, ListNodes, ListHostSubnets, ListNamespaces, Listed, LoadFails,
     CannotPlan, AssignIPsToNodes, RemovesDone, AddsDone, ToNext, FinishCycle, NoWrite, InCycle
<1>5. ASSUME NEW n \in Nodes, \/ RemoveIPs(n) \/ RemoveIPsFails(n)
                              \/ AddIPs(n) \/ AddIPsFails(n)
                              \/ UpdateHostSubnet(n) \/ UpdateHostSubnetFails(n)
                              \/ AssignCIDR(n) \/ AssignCIDRFails(n)
      PROVE  platform' = platform
  BY <1>5 DEF RemoveIPs, RemoveIPsFails, AddIPs, AddIPsFails, UpdateHostSubnet,
     UpdateHostSubnetFails, AssignCIDR, AssignCIDRFails, Answered, InCycle
<1>6. CASE UNCHANGED vars
  BY <1>6 DEF vars, clusterVars
<1> QED
  BY <1>1, <1>2, <1>3, <1>4, <1>5, <1>6 DEF Next, ClusterFollows, CycleStep

\* What a write leaves: a new version of one HostSubnet, and its event.
LEMMA SubnetWritten ==
  ASSUME TypeOK, NEW n \in Nodes, SubnetWrite(n)
  PROVE  \E new \in Subnets :
           /\ new.rv = hs[n].rv + 1
           /\ hs' = [hs EXCEPT ![n] = new]
           /\ hsEvents' = IF up THEN Append(hsEvents, [node |-> n, new |-> new]) ELSE hsEvents
           /\ \/ new.ips = {} /\ ~new.cidr /\ SDNFollows(n)
              \/ /\ pc = "hostsubnets" /\ n \in pending /\ Accepts(n)
                 /\ new.exists /\ new.ips = plan[n] /\ ~new.cidr
              \/ /\ pc = "cidrs" /\ n \in pending /\ Accepts(n)
                 /\ new.exists /\ new.ips = {} /\ new.cidr
<1>0. /\ hs[n].rv + 1 \in Nat /\ node[n].exists \in BOOLEAN
      /\ plan[n] \in SUBSET IPs
  BY DEF TypeOK, ClusterTypeOK, PlanTypeOK, Subnets, NodeObjects
<1>1. CASE SDNFollows(n)
  <2> DEFINE new == [NoSubnet(hs[n].rv + 1) EXCEPT !.exists = node[n].exists]
  <2>1. new \in Subnets /\ new.rv = hs[n].rv + 1 /\ new.ips = {} /\ ~new.cidr
    BY <1>0, SubnetTypes DEF NoSubnet
  <2>2. PutHostSubnet(n, new)
    BY <1>1 DEF SDNFollows
  <2> HIDE DEF new
  <2> QED
    BY <1>1, <2>1, <2>2 DEF PutHostSubnet
<1>2. CASE /\ pc = "hostsubnets" /\ n \in pending /\ plan[n] # rcHs[n].ips /\ Accepts(n)
           /\ WriteHostSubnet(n, plan[n], FALSE)
  <2> DEFINE new == [exists |-> TRUE, ips |-> plan[n], cidr |-> FALSE, rv |-> hs[n].rv + 1]
  <2>1. /\ new \in Subnets /\ new.rv = hs[n].rv + 1 /\ new.exists /\ new.ips = plan[n]
        /\ ~new.cidr
    BY <1>0, SubnetTypes
  <2>2. PutHostSubnet(n, new)
    BY <1>2 DEF WriteHostSubnet
  <2> HIDE DEF new
  <2> QED
    BY <1>2, <2>1, <2>2 DEF PutHostSubnet
<1>3. CASE /\ pc = "cidrs" /\ n \in pending /\ ~rcHs[n].cidr /\ Accepts(n)
           /\ WriteHostSubnet(n, {}, TRUE)
  <2> DEFINE new == [exists |-> TRUE, ips |-> {}, cidr |-> TRUE, rv |-> hs[n].rv + 1]
  <2>1. /\ new \in Subnets /\ new.rv = hs[n].rv + 1 /\ new.exists /\ new.ips = {}
        /\ new.cidr
    BY <1>0, SubnetTypes
  <2>2. PutHostSubnet(n, new)
    BY <1>3 DEF WriteHostSubnet
  <2> HIDE DEF new
  <2> QED
    BY <1>3, <2>1, <2>2 DEF PutHostSubnet
<1> QED
  BY <1>1, <1>2, <1>3 DEF SubnetWrite

\* An old version stays an old version.
LEMMA VersionsStay ==
  ASSUME TypeOK, UNCHANGED hs \/ \E n \in Nodes : SubnetWrite(n),
         NEW m \in Nodes, NEW o \in Subnets, IsVersion(m, o)
  PROVE  /\ IsVersion(m, o)'
         /\ hs'[m].rv >= hs[m].rv
<1>1. hs'[m] = hs[m] \/ hs'[m].rv = hs[m].rv + 1
  <2>1. CASE UNCHANGED hs
    BY <2>1
  <2>2. ASSUME NEW n \in Nodes, SubnetWrite(n)
        PROVE  hs'[m] = hs[m] \/ hs'[m].rv = hs[m].rv + 1
    BY <2>2, SubnetWritten DEF TypeOK, ClusterTypeOK
  <2> QED
    BY <2>1, <2>2
<1>2. hs[m].rv \in Nat /\ o.rv \in Nat
  BY DEF TypeOK, ClusterTypeOK, Subnets
<1> QED
  BY <1>1, <1>2 DEF IsVersion

LEMMA SubnetCopiesStep ==
  ASSUME TypeOK, TypeOK', SubnetCopies, [Next]_vars
  PROVE  SubnetCopies'
<1>0. /\ hs \in [Nodes -> Subnets] /\ hsCache \in [Nodes -> Subnets]
      /\ rcHs \in [Nodes -> Subnets] /\ hsEvents \in Seq(Events(Subnets))
  BY DEF TypeOK, ClusterTypeOK, InformerTypeOK, LoadTypeOK
<1>1. /\ Len(hsEvents) \in Nat /\ DOMAIN hsEvents = 1 .. Len(hsEvents)
      /\ \A i \in 1 .. Len(hsEvents) :
           hsEvents[i].node \in Nodes /\ hsEvents[i].new \in Subnets
  BY <1>0, EventTypes
<1>2. \A n \in Nodes : hs[n].rv \in Nat
  BY <1>0 DEF Subnets
<1>3. \A n \in Nodes : NoSubnet(0) \in Subnets /\ IsVersion(n, NoSubnet(0))
  BY <1>2, SubnetTypes DEF SubnetCopies, IsVersion, NoSubnet
<1>4. UNCHANGED hs \/ \E n \in Nodes : SubnetWrite(n)
  BY SubnetMoves DEF DeliverHostSubnet, Delivering, Stop, Restart, clusterVars
<1>5. \A n \in Nodes : hs'[n].rv > 0
  <2> TAKE n \in Nodes
  <2>1. IsVersion(n, hs[n]) /\ hs[n] \in Subnets
    BY <1>0 DEF IsVersion
  <2>2. hs'[n].rv >= hs[n].rv
    BY <1>4, <2>1, VersionsStay
  <2>3. hs'[n].rv \in Nat
    BY DEF TypeOK, ClusterTypeOK, Subnets
  <2> QED
    BY <1>2, <2>2, <2>3 DEF SubnetCopies
<1>6. \A n \in Nodes : rcHs'[n] \in {rcHs[n], hsCache[n], NoSubnet(0)}
  BY CycleMoves DEF rcVars, loadedVars, NoContext, NoSubnets, StartCycle, ListNodes,
     ListHostSubnets, ListNamespaces, AssignIPsToNodes, RemovesDone, AddsDone, ToNext, EndCycle
<1>7. \A n \in Nodes : IsVersion(n, rcHs'[n]) /\ rcHs'[n] \in Subnets
  BY <1>0, <1>3, <1>6 DEF SubnetCopies
<1>8. ASSUME NEW n \in Nodes PROVE IsVersion(n, rcHs[n])'
  BY <1>4, <1>7, VersionsStay DEF IsVersion
<1>9. ASSUME NEW n \in Nodes PROVE IsVersion(n, hsCache[n])'
  <2>1. CASE UNCHANGED hsCache
    BY <1>0, <1>4, <2>1, VersionsStay DEF SubnetCopies, IsVersion
  <2>2. CASE DeliverHostSubnet
    <3>1. Len(hsEvents) > 0 /\ Head(hsEvents) = hsEvents[1]
      BY <1>0, <2>2, EventTaken DEF DeliverHostSubnet
    <3>2. hsCache'[n] = hsCache[n] \/ (hsEvents[1].node = n /\ hsCache'[n] = hsEvents[1].new)
      BY <1>0, <2>2, <3>1 DEF DeliverHostSubnet
    <3>3. hs' = hs
      BY <2>2 DEF DeliverHostSubnet, Delivering, clusterVars
    <3> QED
      BY <1>1, <3>1, <3>2, <3>3 DEF SubnetCopies, IsVersion
  <2>3. CASE Stop
    BY <1>3, <2>3 DEF Stop, clusterVars, NoSubnets, IsVersion
  <2>4. CASE Restart
    BY <1>0, <2>4 DEF Restart, clusterVars, IsVersion
  <2> QED
    BY <2>1, <2>2, <2>3, <2>4, SubnetMoves
<1>10. ASSUME NEW i \in DOMAIN hsEvents'
       PROVE  IsVersion(hsEvents[i].node, hsEvents[i].new)'
  <2>1. CASE UNCHANGED <<hs, hsEvents>>
    BY <1>10, <2>1 DEF SubnetCopies, IsVersion
  <2>2. ASSUME NEW n \in Nodes, SubnetWrite(n), UNCHANGED up
        PROVE  IsVersion(hsEvents[i].node, hsEvents[i].new)'
    <3>1. PICK new \in Subnets :
            /\ hs' = [hs EXCEPT ![n] = new]
            /\ hsEvents' = IF up THEN Append(hsEvents, [node |-> n, new |-> new]) ELSE hsEvents
      BY <2>2, SubnetWritten
    <3>2. CASE i \in 1 .. Len(hsEvents)
      <4>1. hsEvents'[i] = hsEvents[i]
        BY <1>0, <3>1, <3>2, EventAdded
      <4>2. IsVersion(hsEvents[i].node, hsEvents[i].new)
        BY <1>1, <3>2 DEF SubnetCopies
      <4>3. IsVersion(hsEvents[i].node, hsEvents[i].new)
              => (hs'[hsEvents[i].node] = hsEvents[i].new
                   \/ hsEvents[i].new.rv < hs'[hsEvents[i].node].rv)
        BY <1>1, <1>4, <3>2, VersionsStay DEF IsVersion
      <4> QED
        BY <4>1, <4>2, <4>3 DEF IsVersion
    <3>3. CASE i \notin 1 .. Len(hsEvents)
      <4>1. up /\ i = Len(hsEvents) + 1
        <5>1. DOMAIN hsEvents' = 1 .. Len(hsEvents')
          BY EventTypes DEF TypeOK, InformerTypeOK
        <5> QED
          BY <1>0, <1>1, <1>10, <3>1, <3>3, <5>1, EventAdded
      <4>2. hsEvents'[i].node = n /\ hsEvents'[i].new = new
        BY <1>0, <3>1, <4>1, EventAdded
      <4> QED
        BY <1>0, <3>1, <4>2 DEF IsVersion
    <3> QED
      BY <3>2, <3>3
  <2>3. CASE DeliverHostSubnet
    <3>1. /\ Len(hsEvents) > 0 /\ Len(hsEvents') = Len(hsEvents) - 1
          /\ \A j \in 1 .. Len(hsEvents) - 1 : hsEvents'[j] = hsEvents[j + 1]
      BY <1>0, <2>3, EventTaken DEF DeliverHostSubnet
    <3>2. i \in 1 .. Len(hsEvents) - 1
      BY <1>10, <3>1, EventTypes DEF TypeOK, InformerTypeOK
    <3>3. hs' = hs
      BY <2>3 DEF DeliverHostSubnet, Delivering, clusterVars
    <3> QED
      BY <1>1, <3>1, <3>2, <3>3 DEF SubnetCopies, IsVersion
  <2>4. CASE Stop
    BY <1>10, <2>4 DEF Stop
  <2>5. CASE Restart
    BY <2>1, <2>5 DEF Restart, clusterVars
  <2> QED
    BY <2>1, <2>2, <2>3, <2>4, <2>5, SubnetMoves
<1> QED
  BY <1>5, <1>8, <1>9, <1>10 DEF SubnetCopies

LEMMA SubnetShapesStep ==
  ASSUME TypeOK, SubnetShapes, PlatformSteps, [Next]_vars
  PROVE  SubnetShapes'
<1>1. platform' = platform
  BY PlatformStays
<1>2. CASE UNCHANGED hs
  BY <1>1, <1>2 DEF SubnetShapes
<1>3. ASSUME NEW n \in Nodes, SubnetWrite(n)
      PROVE  SubnetShapes'
  <2>1. PICK new \in Subnets :
          /\ hs' = [hs EXCEPT ![n] = new]
          /\ new.ips = {} \/ (pc = "hostsubnets" /\ new.exists)
    BY <1>3, SubnetWritten
  <2>2. pc = "hostsubnets" => platform # "onecidr"
    BY DEF PlatformSteps
  <2>3. hs \in [Nodes -> Subnets]
    BY DEF TypeOK, ClusterTypeOK
  <2> QED
    BY <1>1, <2>1, <2>2, <2>3 DEF SubnetShapes
<1> QED
  BY <1>2, <1>3, SubnetMoves DEF DeliverHostSubnet, Delivering, Stop, Restart, clusterVars

LEMMA PlatformStepsStep ==
  ASSUME TypeOK, PlatformSteps, [Next]_vars
  PROVE  PlatformSteps'
<1>1. platform' = platform
  BY PlatformStays
<1>2. CASE UNCHANGED pc \/ pc' = "idle"
  BY <1>1, <1>2 DEF PlatformSteps
<1>3. CASE StartCycle \/ ListNodes \/ ListHostSubnets \/ ListNamespaces
  BY <1>1, <1>3 DEF PlatformSteps, StartCycle, ListNodes, ListHostSubnets, ListNamespaces, Listed
<1>4. CASE AssignIPsToNodes
  BY <1>1, <1>4, PlanShape DEF PlatformSteps
<1>5. CASE RemovesDone \/ AddsDone
  BY <1>1, <1>5 DEF PlatformSteps, RemovesDone, AddsDone, ToNext, EndCycle
<1> QED
  BY <1>2, <1>3, <1>4, <1>5, CycleMoves

LEMMA PlanKeepsStep ==
  ASSUME TypeOK, PlanKeeps, [Next]_vars
  PROVE  PlanKeeps'
<1>1. CASE UNCHANGED <<pc, rcVars>>
  BY <1>1 DEF PlanKeeps, Ready, SelectedHostSubnets, Selected, rcVars, loadedVars
<1>2. CASE pc' = "idle"
  BY <1>2 DEF PlanKeeps
<1>3. CASE StartCycle \/ ListNodes \/ ListHostSubnets \/ ListNamespaces
  BY <1>3 DEF PlanKeeps, StartCycle, ListNodes, ListHostSubnets, ListNamespaces, Listed
<1>4. CASE AssignIPsToNodes
  <2>1. /\ IsPlan(Zone, Ready, Hosted, rcDemand, plan')
        /\ pc' = "hostsubnets" => pending' = SelectedHostSubnets
    BY <1>4, PlanShape
  <2>2. UNCHANGED <<rcNode, rcHs, rcDemand>>
    BY <1>4 DEF AssignIPsToNodes
  <2>3. Ready' = Ready /\ SelectedHostSubnets' = SelectedHostSubnets
    BY <2>2 DEF Ready, SelectedHostSubnets, Selected
  <2>4. ASSUME NEW n \in Ready \cap SelectedHostSubnets
        PROVE  rcHs[n].ips \cap rcDemand \subseteq plan'[n]
    <3>1. n \in Nodes
      BY DEF Ready, Selected
    <3>2. Kept(Ready, Hosted, rcDemand, n) \subseteq plan'[n]
      BY <2>1, <3>1 DEF IsPlan
    <3>3. Hosted[n] = rcHs[n].ips
      BY <3>1 DEF Hosted
    <3> QED
      BY <3>2, <3>3 DEF Kept
  <2> QED
    BY <2>1, <2>2, <2>3, <2>4 DEF PlanKeeps
<1>5. CASE \E n \in pending : /\ pending' = pending \ {n}
                              /\ UNCHANGED <<pc, loadedVars, plan, keys>>
  BY <1>5 DEF PlanKeeps, Ready, SelectedHostSubnets, Selected, loadedVars
<1>6. CASE RemovesDone \/ AddsDone
  <2>1. CASE failed
    BY <1>6, <2>1 DEF PlanKeeps, RemovesDone, AddsDone, ToNext, EndCycle
  <2>2. CASE ~failed
    <3>1. /\ UNCHANGED <<loadedVars, plan, keys>> /\ pc \in {"remove", "add"}
          /\ \/ pc' = "add"
             \/ pc' = "hostsubnets" /\ pending' = SelectedHostSubnets
      BY <1>6, <2>2 DEF RemovesDone, AddsDone, ToNext
    <3>2. Ready' = Ready /\ SelectedHostSubnets' = SelectedHostSubnets
      BY <3>1 DEF Ready, SelectedHostSubnets, Selected, loadedVars
    <3> QED
      BY <3>1, <3>2 DEF PlanKeeps, loadedVars
  <2> QED
    BY <2>1, <2>2
<1> QED
  BY <1>1, <1>2, <1>3, <1>4, <1>5, <1>6, CycleMoves

LEMMA KeepInvInit == Init => KeepInv
<1> SUFFICES ASSUME Init PROVE KeepInv
  OBVIOUS
<1>1. \A n \in Nodes : hs[n] = [NoSubnet(1) EXCEPT !.exists = TRUE] /\ hsCache[n] = hs[n]
  BY DEF Init
<1>2. \A n \in Nodes : hs[n].rv = 1 /\ hs[n].ips = {}
  BY <1>1 DEF NoSubnet
<1>3. SubnetCopies
  BY <1>1, <1>2 DEF Init, SubnetCopies, IsVersion, NoSubnets, NoSubnet
<1>4. SubnetShapes /\ PlatformSteps /\ PlanKeeps
  BY <1>2 DEF Init, SubnetShapes, PlatformSteps, PlanKeeps
<1> QED
  BY <1>3, <1>4 DEF KeepInv

LEMMA KeepInvStep == TypeOK /\ KeepInv /\ [Next]_vars => TypeOK' /\ KeepInv'
BY StepType, SubnetCopiesStep, SubnetShapesStep, PlatformStepsStep, PlanKeepsStep DEF KeepInv

\* The API server takes an update of the version that was listed only: the
\* HostSubnet is then what the plan was made from.
LEMMA AcceptedIsListed ==
  ASSUME TypeOK, SubnetCopies, NEW n \in Nodes, Accepts(n)
  PROVE  hs[n] = rcHs[n]
BY DEF SubnetCopies, IsVersion, Accepts, TypeOK, ClusterTypeOK, Subnets

LEMMA KeptStep ==
  ASSUME TypeOK, KeepInv, [Next]_vars, NEW n \in Nodes, hs'[n].exists,
         NEW ip \in hs[n].ips \ hs'[n].ips
  PROVE  n \notin Ready \/ ip \notin rcDemand
<1>0. hs \in [Nodes -> Subnets]
  BY DEF TypeOK, ClusterTypeOK
<1>1. SubnetWrite(n)
  <2>1. hs'[n] # hs[n]
    OBVIOUS
  <2>2. hs' # hs
    BY <2>1
  <2>3. PICK m \in Nodes : SubnetWrite(m)
    BY <2>2, SubnetMoves DEF DeliverHostSubnet, Delivering, Stop, Restart, clusterVars
  <2>4. PICK new \in Subnets : hs' = [hs EXCEPT ![m] = new]
    BY <2>3, SubnetWritten
  <2> QED
    BY <1>0, <2>1, <2>3, <2>4
<1>2. PICK new \in Subnets :
        /\ hs' = [hs EXCEPT ![n] = new]
        /\ \/ new.ips = {} /\ ~new.cidr /\ SDNFollows(n)
           \/ pc = "hostsubnets" /\ n \in pending /\ Accepts(n) /\ new.ips = plan[n]
           \/ pc = "cidrs" /\ n \in pending /\ Accepts(n)
  BY <1>1, SubnetWritten
<1>3. hs'[n] = new
  BY <1>0, <1>2
<1>4. CASE SDNFollows(n)
  <2>1. hs'[n].exists = node[n].exists
    BY <1>0, <1>4 DEF SDNFollows, PutHostSubnet, NoSubnet
  <2>2. ~hs[n].exists
    BY <1>4, <2>1 DEF SDNFollows, TypeOK, ClusterTypeOK, NodeObjects, Subnets
  <2> QED
    BY <2>2 DEF KeepInv, SubnetShapes
<1>5. CASE pc = "hostsubnets" /\ n \in pending /\ Accepts(n) /\ new.ips = plan[n]
  <2>1. hs[n] = rcHs[n]
    BY <1>5, AcceptedIsListed DEF KeepInv
  <2>2. n \in SelectedHostSubnets
    BY <1>5 DEF KeepInv, PlanKeeps
  <2> QED
    BY <1>3, <1>5, <2>1, <2>2 DEF KeepInv, PlanKeeps
<1>6. CASE pc = "cidrs"
  BY <1>6 DEF KeepInv, PlatformSteps, SubnetShapes
<1> QED
  BY <1>2, <1>4, <1>5, <1>6

\* For any constants, "This should preserve IPs that are already assigned" (ipam.go) holds
\* on the cluster: a HostSubnet that stays loses an IP only in a cycle that
\* saw its node not ready or the IP not in demand, with lagging caches,
\* failing calls and crashes, because an update of an old version is refused.
THEOREM CarriedIPsAreKept == Spec => CarriedIPsKept
<1>1. Init => TypeOK /\ KeepInv
  BY InitType, KeepInvInit
<1>2. TypeOK /\ KeepInv /\ [Next]_vars => (TypeOK /\ KeepInv)'
  BY KeepInvStep
<1>3. TypeOK /\ KeepInv /\ [Next]_vars =>
        [\A n \in Nodes : hs'[n].exists =>
           \A ip \in hs[n].ips \ hs'[n].ips : n \notin Ready \/ ip \notin rcDemand]_vars
  BY KeptStep
<1> QED
  BY <1>1, <1>2, <1>3, PTL DEF Spec, CarriedIPsKept
=============================================================================
