--------------------------- MODULE NodeRestProofs ---------------------------
(***************************************************************************)
(* Proofs about NodePlacement, for any nodes, IPs, zones, platforms and    *)
(* bounds: when the controller has nothing left to do, the IPs in demand   *)
(* are carried, the interfaces and the gauges agree with the HostSubnets,  *)
(* and every HostSubnet has its CIDR, provided that a change of any        *)
(* HostSubnet of a zone wakes the controller (HostSubnetsWatched).         *)
(*                                                                         *)
(* The argument.  The controller is calm while the EgressIPAM is not       *)
(* queued, no error was answered and no event is on its way that will      *)
(* enqueue it.  A cycle in which it stays calm works from what is stored:  *)
(* a difference would be an event.  It writes no HostSubnet either, as a   *)
(* write is an event that enqueues.  So its plan is what the HostSubnets   *)
(* carry, and the interfaces and gauges are set from that plan.            *)
(***************************************************************************)
EXTENDS NodePlacementProofs

Zoned == {n \in Nodes : Zone[n] \in Zones}

-----------------------------------------------------------------------------
(* What the copies of nodes and HostSubnets are                            *)

\* The events lead from the copy old of n's object to new.
Reaches(events, old, n, new) ==
  \/ old = new /\ \A i \in 1 .. Len(events) : events[i].node # n
  \/ \E i \in 1 .. Len(events) :
       /\ events[i].node = n /\ events[i].new = new
       /\ \A j \in 1 .. Len(events) : j > i => events[j].node # n

\* The informers of a running process end where the API server is.
Follow ==
  IF up THEN \A n \in Nodes : /\ Reaches(nodeEvents, nodeCache[n], n, node[n])
                              /\ Reaches(hsEvents, hsCache[n], n, hs[n])
        ELSE nodeEvents = << >> /\ hsEvents = << >> /\ pc = "idle"

\* A HostSubnet of a node without zone carries nothing, and nor does one
\* that is not there.
OkSubnet(n, o) == /\ o.ips # {} => n \in Zoned
                  /\ ~o.exists => o.ips = {} /\ ~o.cidr

OkSubnets ==
  /\ \A n \in Nodes : OkSubnet(n, hs[n]) /\ OkSubnet(n, hsCache[n]) /\ OkSubnet(n, rcHs[n])
  /\ \A i \in 1 .. Len(hsEvents) : OkSubnet(hsEvents[i].node, hsEvents[i].new)

\* Without changes of labels every node is selected.
OkNode(o) == o.exists => o.sel

OkNodes ==
  "labels" \notin Churn =>
    /\ \A n \in Nodes : OkNode(node[n]) /\ OkNode(nodeCache[n]) /\ OkNode(rcNode[n])
    /\ \A i \in 1 .. Len(nodeEvents) : OkNode(nodeEvents[i].new)

\* The interfaces of machines that are gone, and of nodes without zone, are
\* empty.
OkInterfaces ==
  \A n \in Nodes : /\ n \notin machines => nic[n] = {}
                   /\ n \notin Zoned => nic[n] = {} /\ plan[n] = {}

\* What a cycle works from, once it has a plan.
Planned ==
  pc \notin {"idle", "load"} =>
    /\ loading = {} /\ ~HostSubnetMissing
    /\ IsPlan(Zone, Ready, Hosted, rcDemand, plan)
    /\ keys = PlanKeys(Zone, Ready, plan) \cap Selected

-----------------------------------------------------------------------------
(* Calm                                                                    *)

\* What the predicate of the HostSubnets' watch compares.
Same(o, p) == [o EXCEPT !.rv = 0] = [p EXCEPT !.rv = 0]

\* An event on its way will enqueue the EgressIPAM.
Woken(n) ==
  \E i \in 1 .. Len(hsEvents) : hsEvents[i].node = n /\ ~Same(hsEvents[i].new, hsCache[n])

Calm == HostSubnetsWatched /\ up /\ ~queued /\ ~failed /\ \A n \in Zoned : ~Woken(n)

\* What was listed is what the caches have.
Listings ==
  pc # "idle" =>
    /\ "namespaces" \notin loading => demand \subseteq rcDemand
    /\ "nodes" \notin loading =>
         \A n \in Zoned : nodeCache[n].exists =>
           rcNode[n].exists /\ rcNode[n].ready = nodeCache[n].ready
    /\ "hostsubnets" \notin loading => \A n \in Zoned : Same(hsCache[n], rcHs[n])

\* The interfaces of the machines that are left.
Interfaces ==
  \A n \in keys \cap machines \cap Zoned :
    /\ pc = "remove" =>
         nic[n] = IF n \in pending THEN rcNic[n] ELSE rcNic[n] \cap plan[n]
    /\ pc = "add" =>
         nic[n] = IF n \in pending THEN rcNic[n] \cap plan[n] ELSE plan[n]
    /\ pc = "hostsubnets" /\ Cloud => nic[n] = plan[n]

\* Nothing was written.
NothingWritten ==
  \A n \in Zoned \ pending :
    /\ pc = "hostsubnets" /\ n \in SelectedHostSubnets => rcHs[n].ips = plan[n]
    /\ pc = "cidrs" /\ n \in Selected => rcHs[n].cidr

\* What a calm cycle leaves behind.
IPsCarried ==
  \A ip \in demand : \E n \in Zoned :
    /\ ip \in hs[n].ips
    /\ nodeCache[n].exists => nodeCache[n].ready
    /\ Cloud /\ n \in machines => ip \in nic[n]

NodesServed ==
  \A n \in Zoned : nodeCache[n].exists /\ hs[n].exists =>
    /\ platform = "onecidr" => hs[n].cidr
    /\ platform # "onecidr" => gauge[n] = Cardinality(hs[n].ips) + 1
    /\ Cloud /\ n \in machines => nic[n] = hs[n].ips

LeftBehind ==
  pc = "idle" => /\ platform # "onecidr" => IPsCarried
                 /\ "labels" \notin Churn => NodesServed

Quiet == Listings /\ Interfaces /\ NothingWritten /\ LeftBehind

CopiesInv == Follow /\ OkSubnets /\ OkNodes /\ OkInterfaces /\ Planned

RestInv == CopiesInv /\ (Calm => Quiet)

-----------------------------------------------------------------------------
(* The copies                                                              *)

LEMMA ReachesAdded ==
  ASSUME NEW S, NEW s \in Seq(Events(S)), NEW n \in Nodes, NEW o \in S,
         NEW m \in Nodes, NEW old, NEW new, Reaches(s, old, m, new),
         NEW t, t = Append(s, [node |-> n, new |-> o])
  PROVE  /\ m = n => Reaches(t, old, m, o)
         /\ m # n => Reaches(t, old, m, new)
<1>1. /\ Len(s) \in Nat /\ Len(t) = Len(s) + 1
      /\ \A i \in 1 .. Len(s) : t[i] = s[i]
      /\ t[Len(s) + 1].node = n /\ t[Len(s) + 1].new = o
  BY EventTypes, EventAdded
<1>2. CASE m = n
  <2>1. Len(s) + 1 \in 1 .. Len(t) /\ \A j \in 1 .. Len(t) : ~(j > Len(s) + 1)
    BY <1>1
  <2> QED
    BY <1>1, <1>2, <2>1 DEF Reaches
<1>3. CASE m # n
  <2>1. CASE old = new /\ \A i \in 1 .. Len(s) : s[i].node # m
    <3>1. ASSUME NEW i \in 1 .. Len(t) PROVE t[i].node # m
      <4>1. i \in 1 .. Len(s) \/ i = Len(s) + 1
        BY <1>1
      <4> QED
        BY <1>1, <1>3, <2>1, <4>1
    <3> QED
      BY <1>3, <2>1, <3>1 DEF Reaches
  <2>2. ASSUME NEW i \in 1 .. Len(s), s[i].node = m, s[i].new = new,
               \A j \in 1 .. Len(s) : j > i => s[j].node # m
        PROVE  Reaches(t, old, m, new)
    <3>1. i \in 1 .. Len(t) /\ t[i] = s[i]
      BY <1>1
    <3>2. ASSUME NEW j \in 1 .. Len(t), j > i PROVE t[j].node # m
      <4>1. j \in 1 .. Len(s) \/ j = Len(s) + 1
        BY <1>1
      <4> QED
        BY <1>1, <1>3, <2>2, <3>2, <4>1
    <3> QED
      BY <2>2, <3>1, <3>2 DEF Reaches
  <2> QED
    BY <1>3, <2>1, <2>2 DEF Reaches
<1> QED
  BY <1>2, <1>3

LEMMA ReachesTaken ==
  ASSUME NEW S, NEW s \in Seq(Events(S)), s # << >>, NEW t, t = Tail(s),
         NEW m \in Nodes, NEW old, NEW new, Reaches(s, old, m, new)
  PROVE  Reaches(t, IF s[1].node = m THEN s[1].new ELSE old, m, new)
<1>1. /\ Len(s) \in Nat /\ Len(s) > 0 /\ Len(t) = Len(s) - 1
      /\ \A i \in 1 .. Len(s) - 1 : t[i] = s[i + 1]
  BY EventTypes, EventTaken
<1>2. CASE old = new /\ \A i \in 1 .. Len(s) : s[i].node # m
  <2>1. ASSUME NEW i \in 1 .. Len(t) PROVE t[i].node # m
    BY <1>1, <1>2
  <2>2. s[1].node # m
    BY <1>1, <1>2
  <2> QED
    BY <1>2, <2>1, <2>2 DEF Reaches
<1>3. ASSUME NEW i \in 1 .. Len(s), s[i].node = m, s[i].new = new,
             \A j \in 1 .. Len(s) : j > i => s[j].node # m
      PROVE  Reaches(t, IF s[1].node = m THEN s[1].new ELSE old, m, new)
  <2>1. ASSUME NEW j \in 1 .. Len(t), j > i - 1 PROVE t[j].node # m
    <3>1. j + 1 \in 1 .. Len(s) /\ j + 1 > i /\ t[j] = s[j + 1]
      BY <1>1, <2>1
    <3> QED
      BY <1>3, <3>1
  <2>2. CASE i = 1
    <3>1. \A j \in 1 .. Len(t) : t[j].node # m
      BY <1>1, <2>1, <2>2
    <3> QED
      BY <1>3, <2>2, <3>1 DEF Reaches
  <2>3. CASE i # 1
    <3>1. i - 1 \in 1 .. Len(t) /\ t[i - 1] = s[i]
      BY <1>1, <2>3
    <3> QED
      BY <1>3, <2>1, <3>1 DEF Reaches
  <2> QED
    BY <2>2, <2>3
<1> QED
  BY <1>2, <1>3 DEF Reaches

\* Who changes the nodes, their copies and their events.
LEMMA NodeMoves ==
  ASSUME TypeOK, [Next]_vars
  PROVE  \/ UNCHANGED <<node, nodeCache, nodeEvents, up>>
         \/ /\ UNCHANGED <<nodeCache, up>>
            /\ \E n \in Nodes, new \in NodeObjects :
                 /\ PutNode(n, new)
                 /\ "labels" \notin Churn /\ OkNode(node[n]) => OkNode(new)
         \/ DeliverNode
         \/ Stop
         \/ Restart
<1>0. node \in [Nodes -> NodeObjects]
  BY DEF TypeOK, ClusterTypeOK
<1>1. ASSUME NEW n \in Nodes, ReadinessChanges(n)
      PROVE  /\ UNCHANGED <<nodeCache, up>>
             /\ \E new \in NodeObjects : PutNode(n, new) /\ (OkNode(node[n]) => OkNode(new))
  <2> DEFINE new == [node[n] EXCEPT !.ready = ~@]
  <2>1. new \in NodeObjects /\ (OkNode(node[n]) => OkNode(new))
    BY <1>0, NodeObjectTypes DEF OkNode, NodeObjects
  <2>2. PutNode(n, new) /\ UNCHANGED <<nodeCache, up>>
    BY <1>1 DEF ReadinessChanges, Changing, Outside
  <2> QED
    BY <2>1, <2>2
<1>2. ASSUME NEW n \in Nodes, LabelsChange(n)
      PROVE  /\ UNCHANGED <<nodeCache, up>> /\ "labels" \in Churn
             /\ \E new \in NodeObjects : PutNode(n, new)
  BY <1>0, <1>2, NodeObjectTypes DEF LabelsChange, Changing, Outside
<1>3. ASSUME NEW n \in Nodes, NodeJoins(n)
      PROVE  /\ UNCHANGED <<nodeCache, up>>
             /\ \E new \in NodeObjects : PutNode(n, new) /\ OkNode(new)
  BY <1>3, NodeObjectTypes DEF NodeJoins, Changing, Outside, OkNode
<1>4. ASSUME NEW n \in Nodes, NodeGoes(n)
      PROVE  /\ UNCHANGED <<nodeCache, up>>
             /\ \E new \in NodeObjects : PutNode(n, new) /\ OkNode(new)
  BY <1>4, NodeObjectTypes DEF NodeGoes, Outside, OkNode, NoNode
<1>5. ASSUME NEW n \in Nodes, MachineGoes(n) \/ SDNFollows(n)
      PROVE  UNCHANGED <<node, nodeCache, nodeEvents, up>>
  BY <1>5 DEF MachineGoes, SDNFollows, Changing, Outside
<1>6. ASSUME NEW ip \in IPs, Demand(ip) \/ Release(ip)
      PROVE  UNCHANGED <<node, nodeCache, nodeEvents, up>>
  BY <1>6 DEF Demand, Release, Changing, Outside
<1>7. CASE DeliverHostSubnet
  BY <1>7 DEF DeliverHostSubnet, Delivering, clusterVars
<1>8. CASE \/ StartCycle \/ ListNodes \/ ListHostSubnets \/ ListNamespaces \/ LoadFails
           \/ CannotPlan \/ AssignIPsToNodes \/ RemovesDone \/ AddsDone \/ FinishCycle
  <2>1. InCycle
    BY <1>8 DEF StartCycle, ListNodes, ListHostSubnets, ListNamespaces, Listed, LoadFails,
       CannotPlan, AssignIPsToNodes, RemovesDone, AddsDone, ToNext, FinishCycle, NoWrite
  <2> QED
    BY <2>1 DEF InCycle
<1>9. ASSUME NEW n \in Nodes, \/ RemoveIPs(n) \/ RemoveIPsFails(n)
                              \/ AddIPs(n) \/ AddIPsFails(n)
                              \/ UpdateHostSubnet(n) \/ UpdateHostSubnetFails(n)
                              \/ AssignCIDR(n) \/ AssignCIDRFails(n)
      PROVE  UNCHANGED <<node, nodeCache, nodeEvents, up>>
  <2>1. InCycle
    BY <1>9 DEF RemoveIPs, RemoveIPsFails, AddIPs, AddIPsFails, UpdateHostSubnet,
       UpdateHostSubnetFails, AssignCIDR, AssignCIDRFails, Answered
  <2> QED
    BY <2>1 DEF InCycle
<1>10. CASE InstancePanics \/ Crash \/ Restart
  BY <1>10 DEF InstancePanics, Crash
<1>11. CASE UNCHANGED vars
  BY <1>11 DEF vars, clusterVars, informerVars
<1> QED
  BY <1>1, <1>2, <1>3, <1>4, <1>5, <1>6, <1>7, <1>8, <1>9, <1>10, <1>11
     DEF Next, NodeChanges, ClusterFollows, CycleStep

LEMMA DeliveredNode ==
  ASSUME TypeOK, DeliverNode
  PROVE  /\ Len(nodeEvents) > 0 /\ nodeEvents # << >> /\ nodeEvents' = Tail(nodeEvents)
         /\ nodeEvents[1].node \in Nodes
         /\ nodeCache' = [nodeCache EXCEPT ![nodeEvents[1].node] = nodeEvents[1].new]
         /\ EnqueueForNode(nodeEvents[1].node, nodeCache[nodeEvents[1].node], nodeEvents[1].new)
              => queued'
         /\ up /\ up' /\ UNCHANGED <<clusterVars, gauge, pc, rcVars, hsCache, hsEvents>>
<1>1. nodeEvents \in Seq(Events(NodeObjects)) /\ nodeEvents # << >>
  BY DEF DeliverNode, TypeOK, InformerTypeOK
<1>2. Len(nodeEvents) > 0 /\ Head(nodeEvents) = nodeEvents[1] /\ Len(nodeEvents) \in Nat
  BY <1>1, EventTaken, EventTypes
<1>3. nodeEvents[1].node \in Nodes
  BY <1>1, <1>2, EventTypes
<1>4. up /\ up' /\ UNCHANGED <<clusterVars, gauge, pc, rcVars, hsCache, hsEvents>>
  BY Zenon DEF DeliverNode, Delivering
<1>5. /\ nodeCache' = [nodeCache EXCEPT ![nodeEvents[1].node] = nodeEvents[1].new]
      /\ queued' = (queued \/ EnqueueForNode(nodeEvents[1].node, nodeCache[nodeEvents[1].node],
                                              nodeEvents[1].new))
      /\ nodeEvents' = Tail(nodeEvents)
  BY <1>2, Zenon DEF DeliverNode
<1> QED
  BY <1>1, <1>2, <1>3, <1>4, <1>5

LEMMA DeliveredSubnet ==
  ASSUME TypeOK, DeliverHostSubnet
  PROVE  /\ Len(hsEvents) > 0 /\ hsEvents # << >> /\ hsEvents' = Tail(hsEvents)
         /\ hsEvents[1].node \in Nodes
         /\ hsCache' = [hsCache EXCEPT ![hsEvents[1].node] = hsEvents[1].new]
         /\ EnqueueForHostSubnet(hsEvents[1].node, hsCache[hsEvents[1].node], hsEvents[1].new)
              => queued'
         /\ queued => queued'
         /\ up /\ up' /\ UNCHANGED <<clusterVars, gauge, pc, rcVars, nodeCache, nodeEvents>>
<1>1. hsEvents \in Seq(Events(Subnets)) /\ hsEvents # << >>
  BY DEF DeliverHostSubnet, TypeOK, InformerTypeOK
<1>2. Len(hsEvents) > 0 /\ Head(hsEvents) = hsEvents[1] /\ Len(hsEvents) \in Nat
  BY <1>1, EventTaken, EventTypes
<1>3. hsEvents[1].node \in Nodes
  BY <1>1, <1>2, EventTypes
<1>4. up /\ up' /\ UNCHANGED <<clusterVars, gauge, pc, rcVars, nodeCache, nodeEvents>>
  BY Zenon DEF DeliverHostSubnet, Delivering
<1>5. /\ hsCache' = [hsCache EXCEPT ![hsEvents[1].node] = hsEvents[1].new]
      /\ queued' = (queued \/ EnqueueForHostSubnet(hsEvents[1].node, hsCache[hsEvents[1].node],
                                                    hsEvents[1].new))
      /\ hsEvents' = Tail(hsEvents)
  BY <1>2, Zenon DEF DeliverHostSubnet
<1> QED
  BY <1>1, <1>2, <1>3, <1>4, <1>5

LEMMA FollowStep ==
  ASSUME TypeOK, TypeOK', Follow, [Next]_vars
  PROVE  Follow'
<1>0. /\ nodeEvents \in Seq(Events(NodeObjects)) /\ hsEvents \in Seq(Events(Subnets))
      /\ node \in [Nodes -> NodeObjects] /\ hs \in [Nodes -> Subnets]
      /\ nodeCache \in [Nodes -> NodeObjects] /\ hsCache \in [Nodes -> Subnets]
  BY DEF TypeOK, ClusterTypeOK, InformerTypeOK
<1>1. CASE Stop
  BY <1>1 DEF Stop, Follow
<1>2. CASE Restart
  <2>1. /\ nodeEvents' = << >> /\ hsEvents' = << >> /\ up'
        /\ nodeCache' = node' /\ hsCache' = hs'
    BY <1>2 DEF Restart, Follow, clusterVars
  <2> QED
    BY <2>1 DEF Follow, Reaches
<1>3. CASE ~Stop /\ ~Restart /\ up
  <2>1. up'
    BY <1>3, NodeMoves DEF DeliverNode, Delivering
  <2>2. ASSUME NEW m \in Nodes PROVE Reaches(nodeEvents', nodeCache'[m], m, node'[m])
    <3>0. Reaches(nodeEvents, nodeCache[m], m, node[m])
      BY <1>3 DEF Follow
    <3>1. CASE UNCHANGED <<node, nodeCache, nodeEvents>>
      BY <3>0, <3>1
    <3>2. ASSUME UNCHANGED nodeCache, NEW n \in Nodes, NEW new \in NodeObjects, PutNode(n, new)
          PROVE  Reaches(nodeEvents', nodeCache'[m], m, node'[m])
      <4>1. /\ nodeEvents' = Append(nodeEvents, [node |-> n, new |-> new])
            /\ node'[m] = IF m = n THEN new ELSE node[m]
        BY <1>0, <1>3, <3>2 DEF PutNode
      <4>2. nodeEvents \in Seq(Events(NodeObjects)) /\ new \in NodeObjects
        BY <1>0, <3>2
      <4>3. \A t : t = Append(nodeEvents, [node |-> n, new |-> new]) =>
              /\ m = n => Reaches(t, nodeCache[m], m, new)
              /\ m # n => Reaches(t, nodeCache[m], m, node[m])
        BY <3>0, <4>2, ReachesAdded
      <4> QED
        BY <3>2, <4>1, <4>3
    <3>3. CASE DeliverNode
      <4>0. nodeEvents # << >> /\ nodeEvents' = Tail(nodeEvents)
        BY <3>3, DeliveredNode
      <4>1. Reaches(nodeEvents', IF nodeEvents[1].node = m THEN nodeEvents[1].new
                                                           ELSE nodeCache[m], m, node[m])
        BY <1>0, <3>0, <4>0, ReachesTaken
      <4>2. /\ node' = node
            /\ nodeCache'[m] = IF nodeEvents[1].node = m THEN nodeEvents[1].new
                                                         ELSE nodeCache[m]
        BY <1>0, <3>3, DeliveredNode DEF clusterVars
      <4> QED
        BY <4>1, <4>2
    <3> QED
      BY <1>3, <3>1, <3>2, <3>3, NodeMoves
  <2>3. ASSUME NEW m \in Nodes PROVE Reaches(hsEvents', hsCache'[m], m, hs'[m])
    <3>0. Reaches(hsEvents, hsCache[m], m, hs[m])
      BY <1>3 DEF Follow
    <3>1. CASE UNCHANGED <<hs, hsCache, hsEvents>>
      BY <3>0, <3>1
    <3>2. ASSUME UNCHANGED hsCache, NEW n \in Nodes, SubnetWrite(n)
          PROVE  Reaches(hsEvents', hsCache'[m], m, hs'[m])
      <4>0. PICK new \in Subnets :
              /\ hs' = [hs EXCEPT ![n] = new]
              /\ hsEvents' = IF up THEN Append(hsEvents, [node |-> n, new |-> new]) ELSE hsEvents
        BY <3>2, SubnetWritten
      <4>1. /\ hsEvents' = Append(hsEvents, [node |-> n, new |-> new])
            /\ hs'[m] = IF m = n THEN new ELSE hs[m]
        BY <1>0, <1>3, <4>0
      <4>2. hsEvents \in Seq(Events(Subnets)) /\ new \in Subnets
        BY <1>0, <4>0
      <4>3. \A t : t = Append(hsEvents, [node |-> n, new |-> new]) =>
              /\ m = n => Reaches(t, hsCache[m], m, new)
              /\ m # n => Reaches(t, hsCache[m], m, hs[m])
        BY <3>0, <4>2, ReachesAdded
      <4> QED
        BY <3>2, <4>1, <4>3
    <3>3. CASE DeliverHostSubnet
      <4>0. hsEvents # << >> /\ hsEvents' = Tail(hsEvents)
        BY <3>3, DeliveredSubnet
      <4>1. Reaches(hsEvents', IF hsEvents[1].node = m THEN hsEvents[1].new
                                                       ELSE hsCache[m], m, hs[m])
        BY <1>0, <3>0, <4>0, ReachesTaken
      <4>2. /\ hs' = hs
            /\ hsCache'[m] = IF hsEvents[1].node = m THEN hsEvents[1].new ELSE hsCache[m]
        BY <1>0, <3>3, DeliveredSubnet DEF clusterVars
      <4> QED
        BY <4>1, <4>2
    <3> QED
      BY <1>3, <3>1, <3>2, <3>3, SubnetMoves
  <2> QED
    BY <2>1, <2>2, <2>3 DEF Follow
<1>4. CASE ~Stop /\ ~Restart /\ ~up
  <2>1. up' = up /\ nodeEvents' = nodeEvents
    BY <1>4, NodeMoves DEF DeliverNode, Delivering, PutNode
  <2>2. hsEvents' = hsEvents
    BY <1>4, SubnetMoves, SubnetWritten DEF DeliverHostSubnet, Delivering
  <2>3. pc = "idle"
    BY <1>4 DEF Follow
  <2>4. pc' = "idle"
    BY <1>4, <2>3, CycleMoves DEF StartCycle, InCycle, ListNodes, ListHostSubnets, ListNamespaces,
       Listed, AssignIPsToNodes, Loaded, RemovesDone, AddsDone, rcVars
  <2> QED
    BY <1>4, <2>1, <2>2, <2>4 DEF Follow
<1> QED
  BY <1>1, <1>2, <1>3, <1>4

\* Who changes machines and interfaces.
LEMMA InterfaceMoves ==
  ASSUME [Next]_vars
  PROVE  \/ UNCHANGED <<machines, nic>>
         \/ \E n \in Nodes : MachineGoes(n) \/ NodeJoins(n)
         \/ /\ UNCHANGED machines
            /\ \E n \in Nodes : RemoveIPs(n) \/ RemoveIPsFails(n) \/ AddIPs(n) \/ AddIPsFails(n)
<1>1. ASSUME NEW n \in Nodes, ReadinessChanges(n) \/ LabelsChange(n) \/ NodeGoes(n) \/ SDNFollows(n)
      PROVE  UNCHANGED <<machines, nic>>
  BY <1>1 DEF ReadinessChanges, LabelsChange, NodeGoes, SDNFollows
<1>2. ASSUME NEW ip \in IPs, Demand(ip) \/ Release(ip)
      PROVE  UNCHANGED <<machines, nic>>
  BY <1>2 DEF Demand, Release
<1>3. CASE DeliverNode \/ DeliverHostSubnet \/ InstancePanics \/ Crash \/ Restart
  BY <1>3 DEF DeliverNode, DeliverHostSubnet, Delivering, InstancePanics, Crash, Stop, Restart,
     clusterVars
<1>4. CASE \/ StartCycle \/ ListNodes \/ ListHostSubnets \/ ListNamespaces \/ LoadFails
           \/ CannotPlan \/ AssignIPsToNodes \/ RemovesDone \/ AddsDone \/ FinishCycle
  BY <1>4 DEF StartCycle, ListNodes, ListHostSubnets, ListNamespaces, Listed, LoadFails,
     CannotPlan, AssignIPsToNodes, RemovesDone, AddsDone, ToNext, FinishCycle, NoWrite, InCycle
<1>5. ASSUME NEW n \in Nodes, \/ UpdateHostSubnet(n) \/ UpdateHostSubnetFails(n)
                              \/ AssignCIDR(n) \/ AssignCIDRFails(n)
      PROVE  UNCHANGED <<machines, nic>>
  BY <1>5 DEF UpdateHostSubnet, UpdateHostSubnetFails, AssignCIDR, AssignCIDRFails, Answered,
     InCycle
<1>6. ASSUME NEW n \in Nodes, RemoveIPs(n) \/ RemoveIPsFails(n) \/ AddIPs(n) \/ AddIPsFails(n)
      PROVE  UNCHANGED machines
  BY <1>6 DEF RemoveIPs, RemoveIPsFails, AddIPs, AddIPsFails, Answered, InCycle
<1>7. CASE UNCHANGED vars
  BY <1>7 DEF vars, clusterVars
<1> QED
  BY <1>1, <1>2, <1>3, <1>4, <1>5, <1>6, <1>7 DEF Next, NodeChanges, ClusterFollows, CycleStep

\* A plan puts an IP on a ready node of a zone, and all IPs in demand are in
\* it.
LEMMA PlanPlaces ==
  ASSUME TypeOK, OkSubnets, NEW p \in [Nodes -> SUBSET IPs],
         IsPlan(Zone, Ready, Hosted, rcDemand, p)
  PROVE  /\ \A n \in Nodes : p[n] # {} => n \in Zoned \cap Ready
         /\ \A ip \in rcDemand : \E n \in Nodes : ip \in p[n]
<1>0. ZoneOf \in [IPs -> Zones] /\ rcDemand \subseteq IPs
  BY NodePlansAssumption DEF TypeOK, LoadTypeOK
<1>1. ASSUME NEW n \in Nodes, p[n] # {} PROVE n \in Zoned \cap Ready
  <2>1. PICK ip \in p[n] : TRUE
    BY <1>1
  <2>2. CASE ip \in Kept(Ready, Hosted, rcDemand, n)
    <3>1. n \in Ready /\ ip \in Hosted[n]
      BY <2>2 DEF Kept
    <3>2. ip \in rcHs[n].ips
      BY <3>1 DEF Hosted
    <3> QED
      BY <3>1, <3>2 DEF OkSubnets, OkSubnet
  <2>3. CASE ip \notin Kept(Ready, Hosted, rcDemand, n)
    <3>1. n \in Candidates(Zone, Ready, ZoneOf[ip])
      BY <2>1, <2>3 DEF IsPlan
    <3>2. ip \in IPs
      BY <2>1
    <3> QED
      BY <1>0, <3>1, <3>2 DEF Candidates, Zoned
  <2> QED
    BY <2>2, <2>3
<1>2. ASSUME NEW ip \in rcDemand PROVE \E n \in Nodes : ip \in p[n]
  <2>1. CASE ip \in Homeless(Ready, Hosted, rcDemand)
    BY <2>1 DEF IsPlan
  <2>2. CASE ip \notin Homeless(Ready, Hosted, rcDemand)
    <3>1. PICK n \in Ready : ip \in Hosted[n]
      BY <1>2, <2>2 DEF Homeless
    <3>2. n \in Nodes
      BY DEF Ready, Selected
    <3>3. ip \in Kept(Ready, Hosted, rcDemand, n)
      BY <1>2, <3>1 DEF Kept
    <3> QED
      BY <3>2, <3>3 DEF IsPlan
  <2> QED
    BY <2>1, <2>2
<1> QED
  BY <1>1, <1>2

LEMMA PlanMoves ==
  ASSUME [Next]_vars
  PROVE  UNCHANGED plan \/ plan' = NoIPs \/ AssignIPsToNodes
BY CycleMoves DEF rcVars, NoContext, StartCycle, ListNodes, ListHostSubnets, ListNamespaces,
   Listed, RemovesDone, AddsDone, ToNext, EndCycle

LEMMA OkInterfacesStep ==
  ASSUME TypeOK, OkSubnets, OkInterfaces, [Next]_vars
  PROVE  OkInterfaces'
<1>0. nic \in [Nodes -> SUBSET IPs] /\ rcDemand \subseteq IPs /\ plan \in [Nodes -> SUBSET IPs]
  BY DEF TypeOK, ClusterTypeOK, LoadTypeOK, PlanTypeOK
<1>1. ASSUME NEW n \in Nodes, n \notin Zoned PROVE plan'[n] = {}
  <2>1. CASE AssignIPsToNodes
    <3>1. plan' \in [Nodes -> SUBSET IPs] /\ IsPlan(Zone, Ready, Hosted, rcDemand, plan')
      BY <1>0, <2>1, PlanShape
    <3> QED
      BY <1>1, <3>1, PlanPlaces
  <2> QED
    BY <1>1, <2>1, PlanMoves DEF OkInterfaces, NoIPs
<1>2. ASSUME NEW m \in Nodes
      PROVE  (m \notin machines' => nic'[m] = {}) /\ (m \notin Zoned => nic'[m] = {})
  <2>1. CASE UNCHANGED <<machines, nic>>
    BY <2>1 DEF OkInterfaces
  <2>2. ASSUME NEW n \in Nodes, MachineGoes(n) \/ NodeJoins(n)
        PROVE  (m \notin machines' => nic'[m] = {}) /\ (m \notin Zoned => nic'[m] = {})
    BY <1>0, <2>2 DEF OkInterfaces, MachineGoes, NodeJoins
  <2>3. ASSUME NEW n \in Nodes, UNCHANGED machines, RemoveIPs(n) \/ RemoveIPsFails(n)
        PROVE  (m \notin machines' => nic'[m] = {}) /\ (m \notin Zoned => nic'[m] = {})
    <3>1. nic' \in {nic, [nic EXCEPT ![n] = @ \ ToBeRemoved(n)]}
      BY <2>3 DEF RemoveIPs, RemoveIPsFails
    <3> QED
      BY <1>0, <2>3, <3>1 DEF OkInterfaces
  <2>4. ASSUME NEW n \in Nodes, UNCHANGED machines, AddIPs(n) \/ AddIPsFails(n)
        PROVE  (m \notin machines' => nic'[m] = {}) /\ (m \notin Zoned => nic'[m] = {})
    <3>1. nic' = nic \/ (Assignable(n) /\ nic' = [nic EXCEPT ![n] = @ \cup ToBeAssigned(n)])
      BY <2>4 DEF AddIPs, AddIPsFails
    <3> QED
      BY <1>0, <2>4, <3>1 DEF OkInterfaces, Assignable, ToBeAssigned
  <2> QED
    BY <2>1, <2>2, <2>3, <2>4, InterfaceMoves
<1> QED
  BY <1>1, <1>2 DEF OkInterfaces, Zoned

LEMMA OkSubnetsStep ==
  ASSUME TypeOK, TypeOK', OkSubnets, OkInterfaces, [Next]_vars
  PROVE  OkSubnets'
<1>0. /\ hs \in [Nodes -> Subnets] /\ hsCache \in [Nodes -> Subnets]
      /\ rcHs \in [Nodes -> Subnets] /\ hsEvents \in Seq(Events(Subnets))
  BY DEF TypeOK, ClusterTypeOK, InformerTypeOK, LoadTypeOK
<1>1. /\ Len(hsEvents) \in Nat
      /\ \A i \in 1 .. Len(hsEvents) : hsEvents[i].node \in Nodes
  BY <1>0, EventTypes
<1>2. \A n \in Nodes : OkSubnet(n, NoSubnet(0))
  BY DEF OkSubnet, NoSubnet
<1>3. ASSUME NEW n \in Nodes PROVE OkSubnet(n, rcHs'[n])
  <2>1. rcHs'[n] \in {rcHs[n], hsCache[n], NoSubnet(0)}
    BY CycleMoves DEF rcVars, loadedVars, NoContext, NoSubnets, StartCycle, ListNodes,
       ListHostSubnets, ListNamespaces, AssignIPsToNodes, RemovesDone, AddsDone, ToNext, EndCycle
  <2> QED
    BY <1>2, <2>1 DEF OkSubnets
<1>4. ASSUME NEW n \in Nodes, SubnetWrite(n), UNCHANGED <<hsCache, up>>
      PROVE  OkSubnets'
  <2>1. PICK new \in Subnets :
          /\ hs' = [hs EXCEPT ![n] = new]
          /\ hsEvents' = IF up THEN Append(hsEvents, [node |-> n, new |-> new]) ELSE hsEvents
          /\ (new.ips = {} /\ ~new.cidr) \/ (new.exists /\ (new.ips = plan[n] \/ new.ips = {}))
    BY <1>4, SubnetWritten
  <2>2. OkSubnet(n, new)
    BY <2>1 DEF OkSubnet, OkInterfaces
  <2>3. ASSUME NEW i \in 1 .. Len(hsEvents')
        PROVE  OkSubnet(hsEvents'[i].node, hsEvents'[i].new)
    <3>1. CASE ~up
      BY <2>1, <2>3, <3>1 DEF OkSubnets
    <3>2. CASE up
      <4>1. /\ Len(hsEvents') = Len(hsEvents) + 1
            /\ \A j \in 1 .. Len(hsEvents) : hsEvents'[j] = hsEvents[j]
            /\ hsEvents'[Len(hsEvents) + 1].node = n
            /\ hsEvents'[Len(hsEvents) + 1].new = new
        BY <1>0, <2>1, <3>2, EventAdded
      <4>2. i \in 1 .. Len(hsEvents) \/ i = Len(hsEvents) + 1
        BY <1>1, <2>3, <4>1
      <4> QED
        BY <2>2, <4>1, <4>2 DEF OkSubnets
    <3> QED
      BY <3>1, <3>2
  <2>4. \A m \in Nodes : OkSubnet(m, hs'[m]) /\ OkSubnet(m, hsCache'[m])
    BY <1>0, <1>4, <2>1, <2>2 DEF OkSubnets
  <2> QED
    BY <1>3, <2>3, <2>4 DEF OkSubnets, OkSubnet
<1>5. CASE UNCHANGED <<hs, hsCache, hsEvents>>
  BY <1>3, <1>5 DEF OkSubnets, OkSubnet
<1>6. CASE DeliverHostSubnet
  <2>1. /\ Len(hsEvents) > 0 /\ hsEvents # << >> /\ hsEvents' = Tail(hsEvents) /\ hs' = hs
        /\ hsCache' = [hsCache EXCEPT ![hsEvents[1].node] = hsEvents[1].new]
    BY <1>6, DeliveredSubnet DEF clusterVars
  <2>2. /\ Len(hsEvents') = Len(hsEvents) - 1
        /\ \A i \in 1 .. Len(hsEvents) - 1 : hsEvents'[i] = hsEvents[i + 1]
    BY <1>0, <2>1, EventTaken
  <2>3. ASSUME NEW i \in 1 .. Len(hsEvents')
        PROVE  OkSubnet(hsEvents'[i].node, hsEvents'[i].new)
    <3>1. i + 1 \in 1 .. Len(hsEvents) /\ hsEvents'[i] = hsEvents[i + 1]
      BY <1>1, <2>2
    <3> QED
      BY <3>1 DEF OkSubnets
  <2>4. 1 \in 1 .. Len(hsEvents)
    BY <1>1, <2>1
  <2>5. \A m \in Nodes : OkSubnet(m, hs'[m]) /\ OkSubnet(m, hsCache'[m])
    BY <1>0, <1>1, <2>1, <2>4 DEF OkSubnets
  <2> QED
    BY <1>3, <2>3, <2>5 DEF OkSubnets, OkSubnet
<1>7. CASE Stop
  <2>1. hs' = hs /\ hsCache' = NoSubnets /\ hsEvents' = << >>
    BY <1>7 DEF Stop, clusterVars
  <2>2. \A i \in 1 .. Len(hsEvents') : FALSE
    BY <2>1
  <2> QED
    BY <1>2, <1>3, <2>1, <2>2 DEF OkSubnets, OkSubnet, NoSubnets
<1>8. CASE Restart
  BY <1>3, <1>8 DEF Restart, OkSubnets, OkSubnet, clusterVars
<1> QED
  BY <1>4, <1>5, <1>6, <1>7, <1>8, SubnetMoves

LEMMA OkNodesStep ==
  ASSUME TypeOK, TypeOK', OkNodes, [Next]_vars
  PROVE  OkNodes'
<1> SUFFICES ASSUME "labels" \notin Churn
             PROVE  /\ \A n \in Nodes : OkNode(node'[n]) /\ OkNode(nodeCache'[n])
                                                         /\ OkNode(rcNode'[n])
                    /\ \A i \in 1 .. Len(nodeEvents') : OkNode(nodeEvents'[i].new)
  BY DEF OkNodes, OkNode
<1>0. /\ node \in [Nodes -> NodeObjects] /\ nodeCache \in [Nodes -> NodeObjects]
      /\ rcNode \in [Nodes -> NodeObjects] /\ nodeEvents \in Seq(Events(NodeObjects))
  BY DEF TypeOK, ClusterTypeOK, InformerTypeOK, LoadTypeOK
<1>1. /\ \A n \in Nodes : OkNode(node[n]) /\ OkNode(nodeCache[n]) /\ OkNode(rcNode[n])
      /\ \A i \in 1 .. Len(nodeEvents) : OkNode(nodeEvents[i].new)
  BY DEF OkNodes
<1>2. OkNode(NoNode) /\ Len(nodeEvents) \in Nat
  BY <1>0, EventTypes DEF OkNode, NoNode
<1>3. ASSUME NEW n \in Nodes PROVE OkNode(rcNode'[n])
  <2>1. rcNode'[n] \in {rcNode[n], nodeCache[n], NoNode}
    BY CycleMoves DEF rcVars, loadedVars, NoContext, NoNodes, StartCycle, ListNodes,
       ListHostSubnets, ListNamespaces, AssignIPsToNodes, RemovesDone, AddsDone, ToNext, EndCycle
  <2> QED
    BY <1>1, <1>2, <2>1
<1>4. ASSUME NEW n \in Nodes, NEW new \in NodeObjects, PutNode(n, new), OkNode(new),
             UNCHANGED nodeCache
      PROVE  /\ \A m \in Nodes : OkNode(node'[m]) /\ OkNode(nodeCache'[m])
             /\ \A i \in 1 .. Len(nodeEvents') : OkNode(nodeEvents'[i].new)
  <2>1. ASSUME NEW i \in 1 .. Len(nodeEvents')
        PROVE  OkNode(nodeEvents'[i].new)
    <3>1. CASE ~up
      BY <1>1, <1>4, <2>1, <3>1 DEF PutNode
    <3>2. CASE up
      <4>0. nodeEvents' = Append(nodeEvents, [node |-> n, new |-> new])
        BY <1>4, <3>2 DEF PutNode
      <4>1. /\ Len(nodeEvents') = Len(nodeEvents) + 1
            /\ \A j \in 1 .. Len(nodeEvents) : nodeEvents'[j] = nodeEvents[j]
            /\ nodeEvents'[Len(nodeEvents) + 1].new = new
        BY <1>0, <1>4, <4>0, EventAdded
      <4>2. i \in 1 .. Len(nodeEvents) \/ i = Len(nodeEvents) + 1
        BY <1>2, <2>1, <4>1
      <4> QED
        BY <1>1, <1>4, <4>1, <4>2
    <3> QED
      BY <3>1, <3>2
  <2>2. \A m \in Nodes : OkNode(node'[m]) /\ OkNode(nodeCache'[m])
    BY <1>0, <1>1, <1>4 DEF PutNode
  <2> QED
    BY <2>1, <2>2
<1>5. CASE UNCHANGED <<node, nodeCache, nodeEvents>>
  BY <1>1, <1>3, <1>5
<1>6. CASE DeliverNode
  <2>1. /\ Len(nodeEvents) > 0 /\ nodeEvents # << >> /\ nodeEvents' = Tail(nodeEvents)
        /\ node' = node
        /\ nodeCache' = [nodeCache EXCEPT ![nodeEvents[1].node] = nodeEvents[1].new]
    BY <1>6, DeliveredNode DEF clusterVars
  <2>2. /\ Len(nodeEvents') = Len(nodeEvents) - 1
        /\ \A i \in 1 .. Len(nodeEvents) - 1 : nodeEvents'[i] = nodeEvents[i + 1]
    BY <1>0, <2>1, EventTaken
  <2>3. ASSUME NEW i \in 1 .. Len(nodeEvents')
        PROVE  OkNode(nodeEvents'[i].new)
    <3>1. i + 1 \in 1 .. Len(nodeEvents) /\ nodeEvents'[i] = nodeEvents[i + 1]
      BY <1>2, <2>2
    <3> QED
      BY <1>1, <3>1
  <2>4. 1 \in 1 .. Len(nodeEvents)
    BY <1>2, <2>1
  <2>5. \A m \in Nodes : OkNode(node'[m]) /\ OkNode(nodeCache'[m])
    BY <1>0, <1>1, <2>1, <2>4
  <2> QED
    BY <1>3, <2>3, <2>5
<1>7. CASE Stop
  <2>1. node' = node /\ nodeCache' = NoNodes /\ nodeEvents' = << >>
    BY <1>7 DEF Stop, clusterVars
  <2>2. \A i \in 1 .. Len(nodeEvents') : FALSE
    BY <2>1
  <2> QED
    BY <1>1, <1>2, <1>3, <2>1, <2>2 DEF NoNodes
<1>8. CASE Restart
  BY <1>1, <1>3, <1>8 DEF Restart, clusterVars
<1> QED
  BY <1>1, <1>3, <1>4, <1>5, <1>6, <1>7, <1>8, NodeMoves

LEMMA PlannedStep ==
  ASSUME TypeOK, Planned, [Next]_vars
  PROVE  Planned'
<1>1. CASE UNCHANGED <<pc, rcVars>>
  BY <1>1 DEF Planned, HostSubnetMissing, Ready, Hosted, SelectedHostSubnets, Selected, rcVars,
     loadedVars
<1>2. CASE pc' = "idle"
  BY <1>2 DEF Planned
<1>3. CASE StartCycle \/ ListNodes \/ ListHostSubnets \/ ListNamespaces
  BY <1>3 DEF Planned, StartCycle, ListNodes, ListHostSubnets, ListNamespaces, Listed
<1>4. CASE AssignIPsToNodes
  <2>1. /\ IsPlan(Zone, Ready, Hosted, rcDemand, plan')
        /\ keys' = PlanKeys(Zone, Ready, plan') \cap Selected
    BY <1>4, PlanShape
  <2>2. /\ UNCHANGED <<loading, rcNode, rcHs, rcDemand>> /\ loading = {} /\ ~HostSubnetMissing
    BY <1>4 DEF AssignIPsToNodes, Loaded
  <2>3. /\ Ready' = Ready /\ Hosted' = Hosted /\ Selected' = Selected
        /\ HostSubnetMissing' = HostSubnetMissing
    BY <2>2 DEF Ready, Hosted, SelectedHostSubnets, Selected, HostSubnetMissing
  <2> QED
    BY <2>1, <2>2, <2>3 DEF Planned
<1>5. CASE pc \notin {"idle", "load"} /\ UNCHANGED <<loadedVars, plan, keys>>
  BY <1>5 DEF Planned, HostSubnetMissing, Ready, Hosted, SelectedHostSubnets, Selected, loadedVars
<1>6. CASE \E n \in pending : /\ pending' = pending \ {n}
                              /\ UNCHANGED <<pc, loadedVars, plan, keys>>
  BY <1>6 DEF Planned, HostSubnetMissing, Ready, Hosted, SelectedHostSubnets, Selected, loadedVars
<1>7. CASE RemovesDone \/ AddsDone
  BY <1>2, <1>5, <1>7 DEF RemovesDone, AddsDone, ToNext, EndCycle
<1> QED
  BY <1>1, <1>2, <1>3, <1>4, <1>6, <1>7, CycleMoves

LEMMA CopiesStep ==
  TypeOK /\ CopiesInv /\ [Next]_vars => CopiesInv'
BY StepType, FollowStep, OkSubnetsStep, OkNodesStep, OkInterfacesStep, PlannedStep DEF CopiesInv

LEMMA CopiesInit == Init => CopiesInv
<1> SUFFICES ASSUME Init PROVE CopiesInv
  OBVIOUS
<1>1. /\ nodeEvents = << >> /\ hsEvents = << >> /\ up /\ nodeCache = node /\ hsCache = hs
      /\ pc = "idle" /\ nic = NoIPs /\ plan = NoIPs /\ rcHs = NoSubnets /\ rcNode = NoNodes
  BY DEF Init
<1>2. Follow
  BY <1>1 DEF Follow, Reaches
<1>3. \A n \in Nodes : hs[n].exists /\ hs[n].ips = {} /\ node[n].sel
  BY DEF Init, NoSubnet
<1>4. OkSubnets
  BY <1>1, <1>3 DEF OkSubnets, OkSubnet, NoSubnets, NoSubnet
<1>5. OkNodes
  BY <1>1, <1>3 DEF OkNodes, OkNode, NoNodes, NoNode
<1>6. OkInterfaces /\ Planned
  BY <1>1 DEF OkInterfaces, Planned, NoIPs
<1> QED
  BY <1>2, <1>4, <1>5, <1>6 DEF CopiesInv

-----------------------------------------------------------------------------
(* What happens while the controller stays calm                            *)

LEMMA SameFields ==
  \A o, p \in Subnets :
    Same(o, p) <=> o.exists = p.exists /\ o.ips = p.ips /\ o.cidr = p.cidr
BY DEF Same, Subnets

\* Nobody takes the EgressIPAM out of the queue but the start of a cycle, an
\* error puts it back, and new demand enqueues it.
LEMMA QueueMoves ==
  ASSUME [Next]_vars, up, up', ~StartCycle
  PROVE  /\ queued => queued'
         /\ failed => failed' \/ queued'
         /\ demand' \subseteq demand \/ queued'
<1>1. ASSUME NEW n \in Nodes, NodeChanges(n) \/ NodeGoes(n) \/ SDNFollows(n)
      PROVE  UNCHANGED <<queued, failed, demand>>
  BY <1>1 DEF NodeChanges, ReadinessChanges, LabelsChange, MachineGoes, NodeJoins, NodeGoes,
     SDNFollows, Changing, Outside, rcVars
<1>2. ASSUME NEW ip \in IPs, Demand(ip)
      PROVE  queued'
  BY <1>2, Zenon DEF Demand
<1>3. ASSUME NEW ip \in IPs, Release(ip)
      PROVE  (queued => queued') /\ failed' = failed /\ demand' \subseteq demand
  <2>1. failed' = failed /\ demand' = demand \ {ip} /\ queued' \in {queued, up}
    BY <1>3 DEF Release, Changing, Outside, rcVars
  <2>2. queued => queued'
    BY <2>1
  <2> QED
    BY <2>1, <2>2
<1>4. CASE DeliverNode \/ DeliverHostSubnet
  <2>1. queued => queued'
    BY <1>4, Zenon DEF DeliverNode, DeliverHostSubnet
  <2>2. UNCHANGED <<failed, demand>>
    BY <1>4 DEF DeliverNode, DeliverHostSubnet, Delivering, rcVars, clusterVars
  <2> QED
    BY <2>1, <2>2
<1>5. CASE ListNodes \/ ListHostSubnets \/ ListNamespaces \/ AssignIPsToNodes
  <2>1. UNCHANGED <<queued, failed, demand>>
    BY <1>5 DEF ListNodes, ListHostSubnets, ListNamespaces, Listed, AssignIPsToNodes, NoWrite,
       InCycle
  <2> QED
    BY <2>1
<1>6. ASSUME EndCycle(TRUE) \/ EndCycle(failed), UNCHANGED demand
      PROVE  (queued => queued') /\ (failed => queued') /\ demand' \subseteq demand
  <2>1. queued' = (queued \/ TRUE) \/ queued' = (queued \/ failed)
    BY <1>6, Zenon DEF EndCycle
  <2>2. (queued => queued') /\ (failed => queued')
    BY <2>1, Zenon
  <2> QED
    BY <1>6, <2>2
<1>7. CASE LoadFails \/ CannotPlan \/ FinishCycle
  <2>1. (EndCycle(TRUE) \/ EndCycle(failed)) /\ UNCHANGED demand
    BY <1>7, Zenon DEF LoadFails, CannotPlan, FinishCycle, NoWrite, InCycle
  <2> QED
    BY <1>6, <2>1
<1>8. CASE RemovesDone \/ AddsDone
  <2>1. EndCycle(TRUE) \/ UNCHANGED <<queued, failed>>
    BY <1>8 DEF RemovesDone, AddsDone, ToNext
  <2>2. UNCHANGED demand
    BY <1>8 DEF RemovesDone, AddsDone, ToNext, NoWrite, InCycle
  <2>3. CASE EndCycle(TRUE)
    BY <1>6, <2>2, <2>3, Zenon
  <2>4. CASE UNCHANGED <<queued, failed>>
    BY <2>2, <2>4
  <2> QED
    BY <2>1, <2>3, <2>4
<1>9. ASSUME NEW n \in Nodes, \/ RemoveIPs(n) \/ RemoveIPsFails(n)
                              \/ AddIPs(n) \/ AddIPsFails(n)
                              \/ UpdateHostSubnet(n) \/ UpdateHostSubnetFails(n)
                              \/ AssignCIDR(n)
      PROVE  UNCHANGED <<queued, demand>> /\ (failed => failed')
  <2>1. Answered(n, TRUE) \/ Answered(n, FALSE)
    BY <1>9, Zenon DEF RemoveIPs, RemoveIPsFails, AddIPs, AddIPsFails, UpdateHostSubnet,
       UpdateHostSubnetFails, AssignCIDR
  <2>2. failed => failed'
    BY <2>1, Zenon DEF Answered
  <2> QED
    BY <2>1, <2>2 DEF Answered, InCycle
<1>10. ASSUME NEW n \in Nodes, AssignCIDRFails(n)
       PROVE  EndCycle(TRUE) /\ UNCHANGED demand
  BY <1>10 DEF AssignCIDRFails, InCycle
<1>11. CASE InstancePanics \/ Crash \/ Restart
  BY <1>11 DEF InstancePanics, Crash, Stop, Restart
<1>12. CASE UNCHANGED vars
  BY <1>12 DEF vars, clusterVars, rcVars
<1> QED
  BY <1>1, <1>2, <1>3, <1>4, <1>5, <1>6, <1>7, <1>8, <1>9, <1>10, <1>11, <1>12
     DEF Next, ClusterFollows, CycleStep

\* An event that will enqueue the EgressIPAM stays until it does so.
LEMMA WokenStays ==
  ASSUME TypeOK, TypeOK', [Next]_vars, up, up', NEW n \in Zoned, Woken(n),
         HostSubnetsWatched
  PROVE  Woken(n)' \/ queued'
<1>0. /\ hsEvents \in Seq(Events(Subnets)) /\ hsCache \in [Nodes -> Subnets]
      /\ Len(hsEvents) \in Nat /\ n \in Nodes /\ MatchesHostSubnet(n)
  BY EventTypes DEF TypeOK, InformerTypeOK, Zoned, HostSubnetsWatched
<1>1. PICK i \in 1 .. Len(hsEvents) :
        hsEvents[i].node = n /\ ~Same(hsEvents[i].new, hsCache[n])
  BY DEF Woken
<1>2. CASE UNCHANGED <<hsCache, hsEvents>>
  BY <1>1, <1>2 DEF Woken, Same
<1>3. ASSUME NEW m \in Nodes, SubnetWrite(m), UNCHANGED hsCache
      PROVE  Woken(n)'
  <2>1. PICK new \in Subnets : hsEvents' = Append(hsEvents, [node |-> m, new |-> new])
    BY <1>3, SubnetWritten
  <2>2. Len(hsEvents') = Len(hsEvents) + 1 /\ hsEvents'[i] = hsEvents[i]
    BY <1>0, <1>1, <2>1, EventAdded
  <2>3. i \in 1 .. Len(hsEvents')
    BY <1>0, <2>2
  <2> QED
    BY <1>1, <1>3, <2>2, <2>3 DEF Woken, Same
<1>4. CASE DeliverHostSubnet
  <2>1. /\ hsEvents # << >> /\ hsEvents' = Tail(hsEvents) /\ Len(hsEvents) > 0
        /\ hsEvents[1].node \in Nodes
        /\ hsCache' = [hsCache EXCEPT ![hsEvents[1].node] = hsEvents[1].new]
        /\ EnqueueForHostSubnet(hsEvents[1].node, hsCache[hsEvents[1].node], hsEvents[1].new)
             => queued'
    BY <1>4, DeliveredSubnet
  <2>2. /\ Len(hsEvents') = Len(hsEvents) - 1
        /\ \A j \in 1 .. Len(hsEvents) - 1 : hsEvents'[j] = hsEvents[j + 1]
    BY <1>0, <2>1, EventTaken
  <2>3. CASE hsEvents[1].node = n /\ ~Same(hsEvents[1].new, hsCache[n])
    BY <1>0, <2>1, <2>3 DEF EnqueueForHostSubnet, Same
  <2>4. CASE ~(hsEvents[1].node = n /\ ~Same(hsEvents[1].new, hsCache[n]))
    <3>1. i # 1 /\ i - 1 \in 1 .. Len(hsEvents') /\ hsEvents'[i - 1] = hsEvents[i]
      BY <1>0, <1>1, <2>2, <2>4
    <3>2. Same(hsCache'[n], hsCache[n])
      BY <1>0, <2>1, <2>4 DEF Same
    <3>3. ~Same(hsEvents[i].new, hsCache'[n])
      BY <1>1, <3>2 DEF Same
    <3> QED
      BY <1>1, <3>1, <3>3 DEF Woken, Same
  <2> QED
    BY <2>3, <2>4
<1> QED
  BY <1>2, <1>3, <1>4, SubnetMoves DEF Stop, Restart

\* The controller does not become calm but by the start of a cycle.
LEMMA CalmBefore ==
  ASSUME TypeOK, TypeOK', [Next]_vars, Calm', ~StartCycle
  PROVE  Calm /\ demand' \subseteq demand
<1>1. /\ up' /\ ~queued' /\ ~failed' /\ HostSubnetsWatched'
      /\ \A n \in Zoned : ~Woken(n)'
  BY DEF Calm, Zoned
<1>2. up
  BY <1>1, NodeMoves DEF DeliverNode, Delivering, Stop, Restart
<1>3. HostSubnetsWatched
  BY <1>1, PlatformStays DEF HostSubnetsWatched, MatchesHostSubnet
<1> QED
  BY <1>1, <1>2, <1>3, QueueMoves, WokenStays DEF Calm

\* Without such an event the cache has what is stored.
LEMMA CalmCache ==
  ASSUME TypeOK, Follow, Calm, NEW n \in Zoned
  PROVE  Same(hs[n], hsCache[n])
<1>1. n \in Nodes /\ Reaches(hsEvents, hsCache[n], n, hs[n]) /\ ~Woken(n)
  BY DEF Zoned, Follow, Calm
<1> QED
  BY <1>1 DEF Reaches, Woken, Same

\* Nothing changes what the zones' nodes and HostSubnets are.
LEMMA CalmStep ==
  ASSUME TypeOK, TypeOK', Follow, Follow', [Next]_vars, Calm, Calm', NEW n \in Zoned
  PROVE  /\ Same(hsCache'[n], hsCache[n]) /\ Same(hs'[n], hs[n])
         /\ nodeCache'[n].exists =>
              nodeCache[n].exists /\ nodeCache'[n].ready = nodeCache[n].ready
<1>0. /\ n \in Nodes /\ Zone[n] \in Zones /\ up /\ up' /\ ~queued'
      /\ MatchesHostSubnet(n)
      /\ hsCache \in [Nodes -> Subnets] /\ nodeCache \in [Nodes -> NodeObjects]
      /\ nodeCache' \in [Nodes -> NodeObjects]
  BY DEF Zoned, Calm, HostSubnetsWatched, TypeOK, InformerTypeOK
<1>1. Same(hsCache'[n], hsCache[n])
  <2>1. CASE UNCHANGED hsCache
    BY <2>1 DEF Same
  <2>2. CASE DeliverHostSubnet
    BY <1>0, <2>2, DeliveredSubnet DEF EnqueueForHostSubnet, Same
  <2> QED
    BY <1>0, <2>1, <2>2, SubnetMoves DEF Stop, Restart
<1>2. Same(hs[n], hsCache[n]) /\ Same(hs'[n], hsCache'[n])
  <2>1. Same(hs[n], hsCache[n])
    BY CalmCache
  <2>2. Reaches(hsEvents', hsCache'[n], n, hs'[n])
    BY <1>0 DEF Follow
  <2>3. ~Woken(n)'
    BY DEF Calm, Zoned
  <2>4. Same(hs'[n], hsCache'[n])
    BY <2>2, <2>3 DEF Reaches, Woken, Same
  <2> QED
    BY <2>1, <2>4
<1>3. nodeCache'[n].exists =>
        nodeCache[n].exists /\ nodeCache'[n].ready = nodeCache[n].ready
  <2>1. CASE UNCHANGED nodeCache
    BY <2>1
  <2>2. CASE DeliverNode
    BY <1>0, <2>2, DeliveredNode DEF EnqueueForNode
  <2> QED
    BY <1>0, <2>1, <2>2, NodeMoves DEF Stop, Restart
<1> QED
  BY <1>1, <1>2, <1>3 DEF Same

\* The steps in which the controller stays calm.
LEMMA CalmMoves ==
  ASSUME TypeOK, [Next]_vars, Calm, Calm'
  PROVE  \/ /\ UNCHANGED <<pc, rcVars, gauge>>
            /\ UNCHANGED <<machines, nic>> \/ \E n \in Nodes : MachineGoes(n) \/ NodeJoins(n)
         \/ ListNodes \/ ListHostSubnets \/ ListNamespaces \/ AssignIPsToNodes
         \/ \E n \in Nodes : RemoveIPs(n) \/ AddIPs(n) \/ UpdateHostSubnet(n) \/ AssignCIDR(n)
         \/ ~failed /\ (RemovesDone \/ AddsDone \/ FinishCycle)
<1>0. up /\ up' /\ ~queued /\ ~queued' /\ ~failed /\ ~failed'
  BY DEF Calm
<1>1. ASSUME NEW n \in Nodes, NodeChanges(n) \/ NodeGoes(n) \/ SDNFollows(n)
      PROVE  /\ UNCHANGED <<pc, rcVars, gauge>>
             /\ UNCHANGED <<machines, nic>> \/ MachineGoes(n) \/ NodeJoins(n)
  BY <1>1 DEF NodeChanges, ReadinessChanges, LabelsChange, MachineGoes, NodeJoins, NodeGoes,
     SDNFollows, Changing, Outside
<1>2. ASSUME NEW ip \in IPs, Demand(ip) \/ Release(ip)
      PROVE  UNCHANGED <<pc, rcVars, gauge, machines, nic>>
  BY <1>2 DEF Demand, Release, Changing, Outside
<1>3. CASE DeliverNode \/ DeliverHostSubnet
  BY <1>3 DEF DeliverNode, DeliverHostSubnet, Delivering, clusterVars
<1>4. ~EndCycle(TRUE)
  BY <1>0, Zenon DEF EndCycle
<1>5. ~LoadFails /\ ~CannotPlan /\ ~StartCycle
  BY <1>0, <1>4, Zenon DEF LoadFails, CannotPlan, StartCycle
<1>6. ASSUME NEW n \in Nodes
      PROVE  /\ ~AssignCIDRFails(n) /\ ~RemoveIPsFails(n) /\ ~AddIPsFails(n)
             /\ ~UpdateHostSubnetFails(n)
  <2>1. ~Answered(n, TRUE)
    BY <1>0, Zenon DEF Answered
  <2> QED
    BY <1>4, <2>1, Zenon DEF AssignCIDRFails, RemoveIPsFails, AddIPsFails, UpdateHostSubnetFails
<1>7. ~InstancePanics /\ ~Crash /\ ~Restart
  BY <1>0 DEF InstancePanics, Crash, Stop, Restart
<1>8. CASE UNCHANGED vars
  BY <1>8 DEF vars, clusterVars
<1> QED
  BY <1>0, <1>1, <1>2, <1>3, <1>5, <1>6, <1>7, <1>8 DEF Next, ClusterFollows, CycleStep

\* The machine of a node whose HostSubnet exists is not a new one.
LEMMA MachineStays ==
  ASSUME TypeOK, NEW n \in Nodes, hs[n].exists, n \in machines',
         \/ UNCHANGED <<machines, nic>>
         \/ \E m \in Nodes : MachineGoes(m) \/ NodeJoins(m)
  PROVE  n \in machines /\ nic'[n] = nic[n]
<1>0. nic \in [Nodes -> SUBSET IPs]
  BY DEF TypeOK, ClusterTypeOK
<1>1. CASE UNCHANGED <<machines, nic>>
  BY <1>1
<1>2. ASSUME NEW m \in Nodes, MachineGoes(m)
      PROVE  n \in machines /\ nic'[n] = nic[n]
  BY <1>0, <1>2 DEF MachineGoes
<1>3. ASSUME NEW m \in Nodes, NodeJoins(m)
      PROVE  n \in machines /\ nic'[n] = nic[n]
  BY <1>3 DEF NodeJoins
<1> QED
  BY <1>1, <1>2, <1>3

LEMMA ListingsStep ==
  ASSUME TypeOK, TypeOK', Follow, Follow', [Next]_vars, Calm, Calm', Listings
  PROVE  Listings'
<1> SUFFICES ASSUME pc' # "idle"
             PROVE  /\ "namespaces" \notin loading' => demand' \subseteq rcDemand'
                    /\ "nodes" \notin loading' =>
                         \A n \in Zoned : nodeCache'[n].exists =>
                           rcNode'[n].exists /\ rcNode'[n].ready = nodeCache'[n].ready
                    /\ "hostsubnets" \notin loading' =>
                         \A n \in Zoned : Same(hsCache'[n], rcHs'[n])
  BY DEF Listings, Zoned, Same
<1>0. ~StartCycle
  BY DEF StartCycle, Calm
<1>1. /\ "namespaces" \in loading' \/ rcDemand' = demand'
           \/ ("namespaces" \notin loading /\ rcDemand' = rcDemand /\ pc # "idle")
      /\ "nodes" \in loading' \/ rcNode' = nodeCache'
           \/ ("nodes" \notin loading /\ rcNode' = rcNode /\ pc # "idle")
      /\ "hostsubnets" \in loading' \/ rcHs' = hsCache'
           \/ ("hostsubnets" \notin loading /\ rcHs' = rcHs /\ pc # "idle")
  <2>1. CASE UNCHANGED <<pc, rcVars>>
    BY <2>1 DEF rcVars, loadedVars
  <2>2. CASE ListNodes \/ ListHostSubnets \/ ListNamespaces
    BY <2>2 DEF ListNodes, ListHostSubnets, ListNamespaces, Listed, InCycle
  <2>3. CASE AssignIPsToNodes
    BY <2>3 DEF AssignIPsToNodes, Loaded
  <2>4. CASE \E n \in pending : UNCHANGED <<pc, loadedVars>>
    BY <2>4 DEF loadedVars
  <2>5. CASE RemovesDone \/ AddsDone
    BY <2>5 DEF RemovesDone, AddsDone, ToNext, EndCycle, loadedVars
  <2> QED
    BY <1>0, <2>1, <2>2, <2>3, <2>4, <2>5, CycleMoves
<1>2. demand' \subseteq demand
  BY <1>0, CalmBefore
<1>3. \A n \in Zoned :
        /\ Same(hsCache'[n], hsCache[n])
        /\ nodeCache'[n].exists =>
             nodeCache[n].exists /\ nodeCache'[n].ready = nodeCache[n].ready
  BY CalmStep
<1>4. "namespaces" \notin loading' => demand' \subseteq rcDemand'
  BY <1>1, <1>2 DEF Listings
<1>5. "nodes" \notin loading' =>
         \A n \in Zoned : nodeCache'[n].exists =>
           rcNode'[n].exists /\ rcNode'[n].ready = nodeCache'[n].ready
  BY <1>1, <1>3 DEF Listings
<1>6. "hostsubnets" \notin loading' => \A n \in Zoned : Same(hsCache'[n], rcHs'[n])
  BY <1>1, <1>3 DEF Listings, Same
<1> QED
  BY <1>4, <1>5, <1>6

\* While the controller is calm, a HostSubnet is what the cycle has listed.
LEMMA CalmListed ==
  ASSUME TypeOK, Follow, Planned, Calm, Listings, pc \notin {"idle", "load"}, NEW n \in Zoned
  PROVE  /\ n \in Nodes
         /\ hs[n].exists = rcHs[n].exists /\ hs[n].ips = rcHs[n].ips /\ hs[n].cidr = rcHs[n].cidr
         /\ n \in Selected => hs[n].exists /\ n \in SelectedHostSubnets
<1>0. /\ n \in Nodes /\ hs[n] \in Subnets /\ rcHs[n] \in Subnets /\ hsCache[n] \in Subnets
  BY DEF Zoned, TypeOK, ClusterTypeOK, InformerTypeOK, LoadTypeOK
<1>1. Same(hs[n], hsCache[n])
  BY CalmCache
<1>2. Same(hsCache[n], rcHs[n])
  BY DEF Planned, Listings
<1>3. hs[n].exists = rcHs[n].exists /\ hs[n].ips = rcHs[n].ips /\ hs[n].cidr = rcHs[n].cidr
  BY <1>0, <1>1, <1>2, SameFields
<1>4. n \in Selected => rcHs[n].exists
  BY DEF Planned, HostSubnetMissing, Selected
<1> QED
  BY <1>0, <1>3, <1>4 DEF SelectedHostSubnets

LEMMA InterfacesStep ==
  ASSUME TypeOK, TypeOK', CopiesInv, CopiesInv', [Next]_vars, Calm, Calm', Listings, Listings',
         Interfaces
  PROVE  Interfaces'
<1> SUFFICES ASSUME NEW n \in keys' \cap machines' \cap Zoned,
                    pc' \in {"remove", "add", "hostsubnets"}
             PROVE  /\ pc' = "remove" =>
                         nic'[n] = IF n \in pending' THEN rcNic'[n] ELSE rcNic'[n] \cap plan'[n]
                    /\ pc' = "add" =>
                         nic'[n] = IF n \in pending' THEN rcNic'[n] \cap plan'[n] ELSE plan'[n]
                    /\ pc' = "hostsubnets" /\ Cloud' => nic'[n] = plan'[n]
  BY DEF Interfaces, Zoned
<1>0. /\ nic \in [Nodes -> SUBSET IPs] /\ n \in Nodes /\ platform' = platform
  BY PlatformStays DEF TypeOK, ClusterTypeOK, Zoned
<1>1. hs[n].exists
  <2>1. n \in Selected'
    BY DEF CopiesInv, Planned
  <2>2. rcHs'[n].exists
    BY <1>0, <2>1 DEF CopiesInv, Planned, HostSubnetMissing, Selected
  <2>3. Same(hsCache'[n], rcHs'[n])
    BY DEF CopiesInv, Planned, Listings, Zoned, Same
  <2>4. Same(hsCache'[n], hsCache[n]) /\ Same(hs[n], hsCache[n])
    BY CalmStep, CalmCache DEF CopiesInv
  <2>5. Same(hs[n], rcHs'[n])
    BY <2>3, <2>4 DEF Same
  <2>6. hs[n] \in Subnets /\ rcHs'[n] \in Subnets
    BY <1>0 DEF TypeOK, ClusterTypeOK, LoadTypeOK
  <2> QED
    BY <2>2, <2>5, <2>6, SameFields
<1>2. CASE /\ UNCHANGED <<pc, rcVars, gauge>>
           /\ UNCHANGED <<machines, nic>> \/ \E m \in Nodes : MachineGoes(m) \/ NodeJoins(m)
  <2>1. n \in machines /\ nic'[n] = nic[n]
    BY <1>0, <1>1, <1>2, MachineStays
  <2> QED
    BY <1>0, <1>2, <2>1 DEF Interfaces, rcVars, loadedVars, Cloud
<1>3. CASE ListNodes \/ ListHostSubnets \/ ListNamespaces
  BY <1>3 DEF ListNodes, ListHostSubnets, ListNamespaces, Listed
<1>4. CASE AssignIPsToNodes
  <2>1. \/ pc' = "remove" /\ pending' = keys'
        \/ platform = "baremetal" /\ pc' = "hostsubnets"
        \/ pc' = "cidrs"
    BY <1>4, PlanShape
  <2>2. rcNic' = nic /\ nic' = nic
    BY <1>4 DEF AssignIPsToNodes, NoWrite
  <2> QED
    BY <1>0, <2>1, <2>2 DEF Cloud
<1>5. ASSUME NEW m \in Nodes, RemoveIPs(m)
      PROVE  /\ pc' = "remove"
             /\ nic'[n] = IF n \in pending' THEN rcNic'[n] ELSE rcNic'[n] \cap plan'[n]
  <2>1. /\ pc = "remove" /\ pc' = "remove" /\ m \in pending /\ pending' = pending \ {m}
        /\ UNCHANGED <<rcNic, plan, keys, machines>>
        /\ nic' = [nic EXCEPT ![m] = @ \ (rcNic[m] \ plan[m])]
    BY <1>5 DEF RemoveIPs, Answered, ToBeRemoved, InCycle, loadedVars
  <2>2. nic[n] = IF n \in pending THEN rcNic[n] ELSE rcNic[n] \cap plan[n]
    BY <2>1 DEF Interfaces
  <2>3. CASE n = m
    BY <1>0, <2>1, <2>2, <2>3
  <2>4. CASE n # m
    BY <1>0, <2>1, <2>2, <2>4
  <2> QED
    BY <2>1, <2>3, <2>4
<1>6. ASSUME NEW m \in Nodes, AddIPs(m)
      PROVE  /\ pc' = "add"
             /\ nic'[n] = IF n \in pending' THEN rcNic'[n] \cap plan'[n] ELSE plan'[n]
  <2>1. /\ pc = "add" /\ pc' = "add" /\ m \in pending /\ pending' = pending \ {m}
        /\ UNCHANGED <<rcNic, plan, keys, machines>>
        /\ nic' = [nic EXCEPT ![m] = @ \cup (plan[m] \ rcNic[m])]
    BY <1>6 DEF AddIPs, Answered, ToBeAssigned, InCycle, loadedVars
  <2>2. nic[n] = IF n \in pending THEN rcNic[n] \cap plan[n] ELSE plan[n]
    BY <2>1 DEF Interfaces
  <2>3. CASE n = m
    BY <1>0, <2>1, <2>2, <2>3
  <2>4. CASE n # m
    BY <1>0, <2>1, <2>2, <2>4
  <2> QED
    BY <2>1, <2>3, <2>4
<1>7. ASSUME NEW m \in Nodes, UpdateHostSubnet(m) \/ AssignCIDR(m)
      PROVE  pc' = "hostsubnets" /\ Cloud' => nic'[n] = plan'[n]
  BY <1>0, <1>7 DEF UpdateHostSubnet, AssignCIDR, Answered, InCycle, Interfaces, Cloud
<1>8. CASE ~failed /\ (RemovesDone \/ AddsDone)
  <2>1. /\ pending = {} /\ UNCHANGED <<rcNic, plan, keys, machines, nic>>
        /\ \/ pc = "remove" /\ pc' = "add" /\ pending' = keys
           \/ pc = "add" /\ pc' = "hostsubnets"
    BY <1>8 DEF RemovesDone, AddsDone, ToNext, NoWrite, InCycle, loadedVars
  <2> QED
    BY <2>1 DEF Interfaces
<1>9. CASE FinishCycle
  BY <1>9 DEF FinishCycle, EndCycle
<1>10. ASSUME NEW m \in Nodes, UpdateHostSubnet(m) \/ AssignCIDR(m)
       PROVE  pc' \in {"hostsubnets", "cidrs"}
  BY <1>10 DEF UpdateHostSubnet, AssignCIDR, Answered
<1> QED
  BY <1>2, <1>3, <1>4, <1>5, <1>6, <1>7, <1>8, <1>9, <1>10, CalmMoves

LEMMA NothingWrittenStep ==
  ASSUME TypeOK, TypeOK', SubnetCopies, CopiesInv, CopiesInv', [Next]_vars, Calm, Calm', Listings,
         NothingWritten
  PROVE  NothingWritten'
<1> SUFFICES ASSUME NEW n \in Zoned \ pending'
             PROVE  /\ pc' = "hostsubnets" /\ n \in SelectedHostSubnets' => rcHs'[n].ips = plan'[n]
                    /\ pc' = "cidrs" /\ n \in Selected' => rcHs'[n].cidr
  BY DEF NothingWritten, Zoned
<1>0. n \in Nodes /\ hs \in [Nodes -> Subnets]
  BY DEF TypeOK, ClusterTypeOK, Zoned
<1>1. ASSUME UNCHANGED <<pc, rcNode, rcHs, plan>>, n \notin pending
      PROVE  /\ pc' = "hostsubnets" /\ n \in SelectedHostSubnets' => rcHs'[n].ips = plan'[n]
             /\ pc' = "cidrs" /\ n \in Selected' => rcHs'[n].cidr
  BY <1>1 DEF NothingWritten, SelectedHostSubnets, Selected
<1>2. CASE UNCHANGED <<pc, rcVars>>
  BY <1>1, <1>2 DEF rcVars, loadedVars
<1>3. CASE ListNodes \/ ListHostSubnets \/ ListNamespaces
  BY <1>3 DEF ListNodes, ListHostSubnets, ListNamespaces, Listed
<1>4. CASE AssignIPsToNodes
  <2>1. \/ pc' = "remove"
        \/ pc' = "hostsubnets" /\ pending' = SelectedHostSubnets
        \/ pc' = "cidrs" /\ pending' = {m \in Selected : Zone[m] \in Zones}
    BY <1>4, PlanShape
  <2>2. Selected' = Selected /\ SelectedHostSubnets' = SelectedHostSubnets
    BY <1>4 DEF AssignIPsToNodes, Selected, SelectedHostSubnets
  <2> QED
    BY <2>1, <2>2 DEF Zoned
<1>5. ASSUME NEW m \in Nodes, RemoveIPs(m) \/ AddIPs(m)
      PROVE  pc' \in {"remove", "add"}
  BY <1>5 DEF RemoveIPs, AddIPs, Answered
<1>6. ASSUME NEW m \in Nodes, UpdateHostSubnet(m) \/ AssignCIDR(m)
      PROVE  /\ pc' = "hostsubnets" /\ n \in SelectedHostSubnets' => rcHs'[n].ips = plan'[n]
             /\ pc' = "cidrs" /\ n \in Selected' => rcHs'[n].cidr
  <2>1. pending' = pending \ {m} /\ UNCHANGED <<pc, rcNode, rcHs, plan>>
    BY <1>6 DEF UpdateHostSubnet, AssignCIDR, Answered, loadedVars
  <2>2. CASE n # m
    BY <1>1, <2>1, <2>2
  <2>3. CASE n = m
    <3>1. Same(hs'[n], hs[n]) /\ hs'[n] \in Subnets /\ hs[n] \in Subnets
      BY <1>0, CalmStep DEF CopiesInv, TypeOK, ClusterTypeOK
    <3>2. hs'[n].ips = hs[n].ips /\ hs'[n].cidr = hs[n].cidr
      BY <3>1, SameFields
    <3>3. CASE UpdateHostSubnet(m)
      <4>1. CASE Accepts(n) /\ WriteHostSubnet(n, plan[n], FALSE)
        <5>1. hs'[n].ips = plan[n]
          BY <1>0, <4>1 DEF WriteHostSubnet, PutHostSubnet
        <5>2. hs[n] = rcHs[n]
          BY <1>0, <4>1, AcceptedIsListed
        <5>3. pc' = "hostsubnets"
          BY <3>3, <2>1 DEF UpdateHostSubnet
        <5> QED
          BY <2>1, <3>2, <5>1, <5>2, <5>3
      <4> QED
        BY <2>1, <2>3, <3>3, <4>1 DEF UpdateHostSubnet
    <3>4. CASE AssignCIDR(m)
      <4>1. CASE ~rcHs[n].cidr /\ Accepts(n) /\ WriteHostSubnet(n, {}, TRUE)
        <5>1. hs'[n].cidr
          BY <1>0, <4>1 DEF WriteHostSubnet, PutHostSubnet
        <5>2. hs[n] = rcHs[n]
          BY <1>0, <4>1, AcceptedIsListed
        <5> QED
          BY <3>2, <4>1, <5>1, <5>2
      <4> QED
        BY <2>1, <2>3, <3>4, <4>1 DEF AssignCIDR
    <3> QED
      BY <1>6, <3>3, <3>4
  <2> QED
    BY <2>2, <2>3
<1>7. CASE ~failed /\ (RemovesDone \/ AddsDone)
  <2>1. \/ pc' = "add"
        \/ pc' = "hostsubnets" /\ pending' = SelectedHostSubnets /\ UNCHANGED <<rcNode, rcHs>>
    BY <1>7 DEF RemovesDone, AddsDone, ToNext, loadedVars
  <2> QED
    BY <2>1 DEF SelectedHostSubnets, Selected
<1>8. CASE FinishCycle
  BY <1>8 DEF FinishCycle, EndCycle
<1> QED
  BY <1>2, <1>3, <1>4, <1>5, <1>6, <1>7, <1>8, CalmMoves

\* A calm controller that is idle: nothing of what its last cycle left
\* behind changes.
LEMMA LeftBehindStays ==
  ASSUME TypeOK, TypeOK', CopiesInv, CopiesInv', [Next]_vars, Calm, Calm', LeftBehind,
         pc = "idle", UNCHANGED gauge,
         \/ UNCHANGED <<machines, nic>>
         \/ \E n \in Nodes : MachineGoes(n) \/ NodeJoins(n)
  PROVE  LeftBehind'
<1>0. platform' = platform /\ demand' \subseteq demand
  <2>1. ~StartCycle
    BY DEF StartCycle, Calm
  <2> QED
    BY <2>1, PlatformStays, CalmBefore
<1>1. ASSUME NEW n \in Zoned
      PROVE  /\ n \in Nodes
             /\ hs'[n].exists = hs[n].exists /\ hs'[n].ips = hs[n].ips /\ hs'[n].cidr = hs[n].cidr
             /\ nodeCache'[n].exists =>
                  nodeCache[n].exists /\ nodeCache'[n].ready = nodeCache[n].ready
             /\ hs[n].exists /\ n \in machines' => n \in machines /\ nic'[n] = nic[n]
  <2>1. n \in Nodes
    BY DEF Zoned
  <2>2. /\ Same(hs'[n], hs[n])
        /\ nodeCache'[n].exists =>
             nodeCache[n].exists /\ nodeCache'[n].ready = nodeCache[n].ready
    BY CalmStep DEF CopiesInv
  <2>3. hs'[n] \in Subnets /\ hs[n] \in Subnets
    BY <2>1 DEF TypeOK, ClusterTypeOK
  <2>4. hs[n].exists /\ n \in machines' => n \in machines /\ nic'[n] = nic[n]
    BY <2>1, MachineStays
  <2> QED
    BY <2>1, <2>2, <2>3, <2>4, SameFields
<1>2. platform # "onecidr" => IPsCarried'
  <2> SUFFICES ASSUME platform # "onecidr", NEW ip \in demand'
               PROVE  \E n \in Zoned :
                        /\ ip \in hs'[n].ips
                        /\ nodeCache'[n].exists => nodeCache'[n].ready
                        /\ Cloud' /\ n \in machines' => ip \in nic'[n]
    BY DEF IPsCarried, Zoned
  <2>1. PICK n \in Zoned : /\ ip \in hs[n].ips
                           /\ nodeCache[n].exists => nodeCache[n].ready
                           /\ Cloud /\ n \in machines => ip \in nic[n]
    BY <1>0 DEF LeftBehind, IPsCarried
  <2>2. hs[n].exists
    BY <1>1, <2>1 DEF CopiesInv, OkSubnets, OkSubnet
  <2> QED
    BY <1>0, <1>1, <2>1, <2>2 DEF Cloud
<1>3. "labels" \notin Churn => NodesServed'
  <2> SUFFICES ASSUME "labels" \notin Churn, NEW n \in Zoned, nodeCache'[n].exists, hs'[n].exists
               PROVE  /\ platform' = "onecidr" => hs'[n].cidr
                      /\ platform' # "onecidr" => gauge'[n] = Cardinality(hs'[n].ips) + 1
                      /\ Cloud' /\ n \in machines' => nic'[n] = hs'[n].ips
    BY DEF NodesServed, Zoned
  <2>1. /\ platform = "onecidr" => hs[n].cidr
        /\ platform # "onecidr" => gauge[n] = Cardinality(hs[n].ips) + 1
        /\ Cloud /\ n \in machines => nic[n] = hs[n].ips
    BY <1>1 DEF LeftBehind, NodesServed
  <2> QED
    BY <1>0, <1>1, <2>1 DEF Cloud
<1> QED
  BY <1>0, <1>2, <1>3 DEF LeftBehind

\* The end of a calm cycle.
LEMMA LeftBehindMade ==
  ASSUME TypeOK, TypeOK', PlatformSteps, CopiesInv, Calm, Listings, Interfaces, NothingWritten,
         FinishCycle
  PROVE  LeftBehind'
<1>0. /\ pc \in {"hostsubnets", "cidrs"} /\ pending = {} /\ ~failed
      /\ UNCHANGED <<platform, hs, nic, machines, demand, nodeCache>>
      /\ gauge' = [n \in Nodes |-> IF n \in keys THEN Cardinality(plan[n]) + 1 ELSE gauge[n]]
  BY DEF FinishCycle, InCycle, Calm, Measured
<1>1. /\ ~HostSubnetMissing /\ loading = {}
      /\ IsPlan(Zone, Ready, Hosted, rcDemand, plan)
      /\ keys = PlanKeys(Zone, Ready, plan) \cap Selected
  BY <1>0 DEF CopiesInv, Planned
<1>2. /\ demand \subseteq rcDemand
      /\ \A n \in Zoned : nodeCache[n].exists =>
           rcNode[n].exists /\ rcNode[n].ready = nodeCache[n].ready
  BY <1>0, <1>1 DEF Listings
<1>3. ASSUME NEW n \in Zoned
      PROVE  /\ n \in Nodes
             /\ hs[n].ips = rcHs[n].ips /\ hs[n].cidr = rcHs[n].cidr
             /\ n \in Selected => n \in SelectedHostSubnets
  BY <1>0, CalmListed DEF CopiesInv
<1>4. ASSUME NEW n \in Zoned, n \in Selected
      PROVE  /\ n \in keys
             /\ pc = "hostsubnets" => hs[n].ips = plan[n]
             /\ pc = "hostsubnets" /\ Cloud /\ n \in machines => nic[n] = plan[n]
             /\ pc = "cidrs" => hs[n].cidr
  <2>1. n \in keys
    BY <1>1, <1>3, <1>4 DEF PlanKeys, Zoned
  <2>2. /\ pc = "hostsubnets" => rcHs[n].ips = plan[n]
        /\ pc = "cidrs" => rcHs[n].cidr
    BY <1>0, <1>3, <1>4 DEF NothingWritten
  <2>3. pc = "hostsubnets" /\ Cloud /\ n \in machines => nic[n] = plan[n]
    BY <2>1 DEF Interfaces
  <2> QED
    BY <1>3, <2>1, <2>2, <2>3
<1>5. platform # "onecidr" <=> pc = "hostsubnets"
  BY <1>0 DEF PlatformSteps
<1>6. platform # "onecidr" => IPsCarried'
  <2> SUFFICES ASSUME platform # "onecidr", NEW ip \in demand
               PROVE  \E n \in Zoned :
                        /\ ip \in hs[n].ips
                        /\ nodeCache[n].exists => nodeCache[n].ready
                        /\ Cloud /\ n \in machines => ip \in nic[n]
    BY <1>0 DEF IPsCarried, Zoned, Cloud
  <2>0. plan \in [Nodes -> SUBSET IPs]
    BY DEF TypeOK, PlanTypeOK
  <2>1. PICK n \in Nodes : ip \in plan[n]
    BY <1>1, <1>2, <2>0, PlanPlaces DEF CopiesInv
  <2>2. n \in Zoned \cap Ready
    BY <1>1, <2>0, <2>1, PlanPlaces DEF CopiesInv
  <2>3. n \in Selected /\ rcNode[n].ready
    BY <2>2 DEF Ready
  <2> QED
    BY <1>2, <1>4, <1>5, <2>1, <2>2, <2>3
<1>7. "labels" \notin Churn => NodesServed'
  <2> SUFFICES ASSUME "labels" \notin Churn, NEW n \in Zoned, nodeCache[n].exists
               PROVE  /\ platform = "onecidr" => hs[n].cidr
                      /\ platform # "onecidr" => gauge'[n] = Cardinality(hs[n].ips) + 1
                      /\ Cloud /\ n \in machines => nic[n] = hs[n].ips
    BY <1>0 DEF NodesServed, Zoned, Cloud
  <2>1. n \in Selected
    BY <1>2, <1>3 DEF CopiesInv, OkNodes, OkNode, Selected
  <2>2. gauge'[n] = Cardinality(plan[n]) + 1
    BY <1>0, <1>3, <1>4, <2>1
  <2> QED
    BY <1>0, <1>4, <1>5, <2>1, <2>2 DEF Cloud
<1> QED
  BY <1>0, <1>6, <1>7 DEF LeftBehind

LEMMA LeftBehindStep ==
  ASSUME TypeOK, TypeOK', PlatformSteps, CopiesInv, CopiesInv', [Next]_vars, Calm, Calm', Quiet
  PROVE  LeftBehind'
<1>1. CASE /\ UNCHANGED <<pc, rcVars, gauge>>
           /\ UNCHANGED <<machines, nic>> \/ \E n \in Nodes : MachineGoes(n) \/ NodeJoins(n)
  <2>1. CASE pc = "idle"
    BY <1>1, <2>1, LeftBehindStays DEF Quiet
  <2>2. CASE pc # "idle"
    BY <1>1, <2>2 DEF LeftBehind
  <2> QED
    BY <2>1, <2>2
<1>2. CASE ListNodes \/ ListHostSubnets \/ ListNamespaces
  BY <1>2 DEF ListNodes, ListHostSubnets, ListNamespaces, Listed, LeftBehind
<1>3. CASE AssignIPsToNodes
  BY <1>3, PlanShape DEF LeftBehind
<1>4. ASSUME NEW n \in Nodes, RemoveIPs(n) \/ AddIPs(n) \/ UpdateHostSubnet(n) \/ AssignCIDR(n)
      PROVE  pc' # "idle"
  BY <1>4 DEF RemoveIPs, AddIPs, UpdateHostSubnet, AssignCIDR, Answered
<1>5. CASE ~failed /\ (RemovesDone \/ AddsDone)
  BY <1>5 DEF RemovesDone, AddsDone, ToNext, LeftBehind
<1>6. CASE FinishCycle
  BY <1>6, LeftBehindMade DEF Quiet
<1> QED
  BY <1>1, <1>2, <1>3, <1>4, <1>5, <1>6, CalmMoves DEF LeftBehind

LEMMA RestInvInit == Init => RestInv
<1>1. Init => ~Calm
  BY DEF Init, Calm
<1> QED
  BY <1>1, CopiesInit DEF RestInv

LEMMA RestInvStep ==
  ASSUME TypeOK, KeepInv, RestInv, [Next]_vars
  PROVE  RestInv'
<1>0. TypeOK' /\ CopiesInv' /\ CopiesInv
  BY StepType, CopiesStep DEF RestInv
<1> SUFFICES ASSUME Calm' PROVE Quiet'
  BY <1>0 DEF RestInv
<1>1. CASE StartCycle
  <2>1. pc' = "load" /\ loading' = {"nodes", "hostsubnets", "namespaces"}
    BY <1>1 DEF StartCycle
  <2> QED
    BY <2>1 DEF Quiet, Listings, Interfaces, NothingWritten, LeftBehind
<1>2. CASE ~StartCycle
  <2>1. Calm
    BY <1>0, <1>2, CalmBefore
  <2>2. Quiet
    BY <2>1 DEF RestInv
  <2>3. Listings'
    BY <1>0, <2>1, <2>2, ListingsStep DEF CopiesInv, Quiet
  <2>4. Interfaces'
    BY <1>0, <2>1, <2>2, <2>3, InterfacesStep DEF Quiet
  <2>5. NothingWritten'
    BY <1>0, <2>1, <2>2, NothingWrittenStep DEF Quiet, KeepInv
  <2>6. LeftBehind'
    BY <1>0, <2>1, <2>2, LeftBehindStep DEF KeepInv
  <2> QED
    BY <2>3, <2>4, <2>5, <2>6 DEF Quiet
<1> QED
  BY <1>1, <1>2

LEMMA AlwaysRestInv == Spec => [](TypeOK /\ RestInv)
<1>1. Init => TypeOK /\ KeepInv /\ RestInv
  BY InitType, KeepInvInit, RestInvInit
<1>2. TypeOK /\ KeepInv /\ RestInv /\ [Next]_vars => (TypeOK /\ KeepInv /\ RestInv)'
  BY KeepInvStep, RestInvStep
<1> QED
  BY <1>1, <1>2, PTL DEF Spec

-----------------------------------------------------------------------------
(* At rest                                                                 *)

LEMMA RestIsCalm ==
  ASSUME TypeOK, RestInv, AtRest, HostSubnetsWatched
  PROVE  /\ LeftBehind /\ pc = "idle" /\ nodeCache = node
         /\ OkSubnets /\ OkInterfaces
<1>1. /\ up /\ ~queued /\ pc = "idle" /\ nodeEvents = << >> /\ hsEvents = << >>
  BY DEF AtRest
<1>2. ~failed
  BY <1>1 DEF TypeOK, PlanTypeOK
<1>3. \A n \in Zoned : ~Woken(n)
  BY <1>1 DEF Woken
<1>4. Calm
  BY <1>1, <1>2, <1>3 DEF Calm
<1>5. \A n \in Nodes : nodeCache[n] = node[n]
  BY <1>1 DEF RestInv, CopiesInv, Follow, Reaches
<1>6. nodeCache = node
  BY <1>5 DEF TypeOK, ClusterTypeOK, InformerTypeOK
<1> QED
  BY <1>1, <1>4, <1>6 DEF RestInv, Quiet, CopiesInv

\* For any constants, label changes included: where the addresses of the
\* zones' nodes are in the CIDRs, which is what matchesHostSubnet asks for,
\* no wake-up is lost.  When the controller has nothing left to do, every IP
\* in demand is in the HostSubnet and on the interface of a ready node,
\* whatever nodes, failed calls, stale caches and crashes did before.
THEOREM IPsAreCarriedAtRest == Spec => []CarriedAtRest
<1>1. TypeOK /\ RestInv => CarriedAtRest
  <2> SUFFICES ASSUME TypeOK, RestInv, HostSubnetsWatched, AtRest,
                      platform # "onecidr", NEW ip \in demand
               PROVE  \E n \in Nodes : CarriedBy(ip, n)
    BY DEF CarriedAtRest
  <2>1. PICK n \in Zoned : /\ ip \in hs[n].ips
                           /\ node[n].exists => node[n].ready
                           /\ Cloud /\ n \in machines => ip \in nic[n]
    BY RestIsCalm DEF LeftBehind, IPsCarried
  <2>2. n \in Nodes
    BY DEF Zoned
  <2>3. hs[n].exists
    BY <2>1, <2>2, RestIsCalm DEF OkSubnets, OkSubnet
  <2>4. node[n].exists /\ n \in machines
    BY <2>2, <2>3 DEF AtRest
  <2> QED
    BY <2>1, <2>2, <2>4 DEF CarriedBy
<1> QED
  BY <1>1, AlwaysRestInv, PTL

\* With one CIDR on bare metal that has the nodes' addresses in it, and node
\* labels that do not change, for any other constants: when the controller has nothing left to do, the
\* HostSubnet of every selected node has its CIDR, also those of nodes that
\* joined during a cycle and after a cycle that stopped half-way.
THEOREM CIDRsAreSetAtRest ==
  ASSUME "labels" \notin Churn
  PROVE  Spec => []CIDRsAtRest
<1>1. TypeOK /\ RestInv => CIDRsAtRest
  <2> SUFFICES ASSUME TypeOK, RestInv, HostSubnetsWatched, AtRest, platform = "onecidr",
                      NEW n \in Nodes, node[n].exists, Zone[n] \in Zones
               PROVE  hs[n].cidr
    BY DEF CIDRsAtRest
  <2>1. n \in Zoned /\ hs[n].exists
    BY DEF Zoned, AtRest
  <2> QED
    BY <2>1, RestIsCalm DEF LeftBehind, NodesServed
<1> QED
  BY <1>1, AlwaysRestInv, PTL

\* On a cloud, with CIDRs that have the nodes' addresses in them and node
\* labels that do not change, for any other constants: when the controller has nothing left to do, the interfaces
\* have exactly the IPs that the HostSubnets say.
THEOREM InterfacesMatchSubnetsAtRest ==
  ASSUME "labels" \notin Churn
  PROVE  Spec => []InterfacesMatchAtRest
<1>1. TypeOK /\ RestInv => InterfacesMatchAtRest
  <2> SUFFICES ASSUME TypeOK, RestInv, HostSubnetsWatched, AtRest, Cloud, NEW n \in Nodes
               PROVE  nic[n] = hs[n].ips
    BY DEF InterfacesMatchAtRest
  <2>1. platform # "onecidr"
    BY DEF Cloud
  <2>2. CASE ~hs[n].exists
    <3>1. n \notin machines
      BY <2>2 DEF AtRest, TypeOK, ClusterTypeOK, NodeObjects, Subnets
    <3> QED
      BY <2>2, <3>1, RestIsCalm DEF OkSubnets, OkSubnet, OkInterfaces
  <2>3. CASE n \notin Zoned
    BY <2>3, RestIsCalm DEF OkSubnets, OkSubnet, OkInterfaces
  <2>4. CASE hs[n].exists /\ n \in Zoned
    <3>1. node[n].exists /\ n \in machines
      BY <2>4 DEF AtRest
    <3> QED
      BY <2>4, <3>1, RestIsCalm DEF LeftBehind, NodesServed
  <2> QED
    BY <2>2, <2>3, <2>4
<1> QED
  BY <1>1, AlwaysRestInv, PTL

\* With CIDRs that have the nodes' addresses in them and node labels that do
\* not change, for any other constants: when the controller has nothing left
\* to do, the gauge of a selected node of a zone
\* counts the IPs that its HostSubnet carries.
THEOREM GaugesCountAtRest ==
  ASSUME "labels" \notin Churn
  PROVE  Spec => []GaugesAtRest
<1>1. TypeOK /\ RestInv => GaugesAtRest
  <2> SUFFICES ASSUME TypeOK, RestInv, HostSubnetsWatched, AtRest, platform # "onecidr",
                      NEW n \in Nodes, node[n].exists, Zone[n] \in Zones
               PROVE  gauge[n] = Cardinality(hs[n].ips) + 1
    BY DEF GaugesAtRest
  <2>1. n \in Zoned /\ hs[n].exists
    BY DEF Zoned, AtRest
  <2> QED
    BY <2>1, RestIsCalm DEF LeftBehind, NodesServed
<1> QED
  BY <1>1, AlwaysRestInv, PTL
=============================================================================
