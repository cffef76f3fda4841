--------------------------- MODULE NodeAssignment ---------------------------
(***************************************************************************)
(* assignIPsToNodes (controllers/egressipam/ipam.go): the egress IPs of    *)
(* all namespaces are spread over the ready nodes, zone by zone.  An IP    *)
(* that a ready node already carries stays there; every other one goes to  *)
(* the node of its zone with the fewest IPs, found in the map from numbers *)
(* of IPs to nodes, which is kept up to date as IPs are handed out.        *)
(*                                                                         *)
(* bucket[n] is the key under which n is in that map.  The code takes the  *)
(* first node of the lowest bucket that is not empty; the nodes of a       *)
(* bucket are in the order of Go's map iterations, so the model takes any. *)
(* The CIDRs and the IPs of a CIDR are ranged over in any order, too.      *)
(***************************************************************************)
EXTENDS NodePlans

VARIABLES
  zone, ready, hosted, demand, \* what the cycle has loaded; it does not change
  placed,    \* newAssignedIPsByNode
  keys,      \* the nodes in that map
  bucket,    \* the node's key in nodesByNumberOfAssignedIPsByCIDR
  toAssign,  \* toBeAssignedToNodesIPsByCIDR, not yet handled
  phase

input == <<zone, ready, hosted, demand>>
vars == <<input, placed, keys, bucket, toAssign, phase>>

NothingPlaced == [n \in Nodes |-> {}]

\* Mutant: also the IPs of nodes that are not ready count as assigned.
InitiallyAssigned_NotReadyToo(n) == hosted[n]

\* getAssignedIPsByNode: the HostSubnets' egressIPs, of ready nodes only.
InitiallyAssigned(n) == IF n \in ready THEN hosted[n] ELSE {}

\* Mutant: the IPs of a node that are no longer in demand are kept.
StillAssigned_All(n) == InitiallyAssigned(n)

StillAssigned(n) == InitiallyAssigned(n) \cap demand

\* Mutant: one too few, as if the list were counted from its last index.
NumberOfIPs_LastIndex(n) == Cardinality(StillAssigned(n)) - 1

\* Mutant: only the IPs of the node's own CIDR are counted.
NumberOfIPs_InZone(n) == Cardinality({ip \in StillAssigned(n) : ZoneOf[ip] = zone[n]})

\* The key under which n starts: all its IPs count, whatever their CIDR.
NumberOfIPs(n) == Cardinality(StillAssigned(n))

\* The nodes that may get IPs of a CIDR: nodesByNumberOfAssignedIPsByCIDR.
Eligible(z) == {n \in Nodes : n \in ready /\ zone[n] = z}

-----------------------------------------------------------------------------

Init ==
  /\ zone \in [Nodes -> Zones \cup {NoZone}]
  /\ ready \in SUBSET Nodes
  /\ hosted \in [Nodes -> SUBSET IPs]
  /\ demand \in SUBSET IPs
  /\ placed = NothingPlaced /\ keys = {}
  /\ bucket = [n \in Nodes |-> 0]
  /\ toAssign = {}
  /\ phase = "start"

\* Steps 1 to 7 of the function.
Recalculate ==
  /\ phase = "start" /\ phase' = "place"
  /\ toAssign' = demand \ UNION {InitiallyAssigned(n) : n \in Nodes}
  /\ placed' = [n \in Nodes |-> StillAssigned(n)]
  /\ keys' = {n \in Nodes : StillAssigned(n) # {}}
  /\ bucket' = [n \in Nodes |-> NumberOfIPs(n)]
  /\ UNCHANGED input

\* getMinKey: n is in the lowest bucket of zone z that is not empty.
InMinBucket(n, z) ==
  n \in Eligible(z) /\ \A m \in Eligible(z) : bucket[n] <= bucket[m]

\* Step 8, for one IP.
Place(ip, n) ==
  /\ phase = "place"
  /\ ip \in toAssign
  /\ InMinBucket(n, ZoneOf[ip])
  /\ placed' = [placed EXCEPT ![n] = @ \cup {ip}]
  /\ keys' = keys \cup {n}
  /\ bucket' = [bucket EXCEPT ![n] = @ + 1]
  /\ toAssign' = toAssign \ {ip}
  /\ UNCHANGED <<input, phase>>

NoNodeForCIDR(ip) ==
  /\ phase = "place"
  /\ ip \in toAssign
  /\ Eligible(ZoneOf[ip]) = {}
  /\ phase' = "error"
  /\ UNCHANGED <<input, placed, keys, bucket, toAssign>>

\* The nodes in bucket 0 of any CIDR.
EmptyNodes == {n \in ready : zone[n] \in Zones /\ bucket[n] = 0}

\* The nodes that are added to the map with no IPs.
ToClear == EmptyNodes \cup (Nodes \ ready)

Finish ==
  /\ phase = "place" /\ toAssign = {}
  /\ placed' = [n \in Nodes |-> IF n \in ToClear THEN {} ELSE placed[n]]
  /\ keys' = keys \cup ToClear
  /\ phase' = "done"
  /\ UNCHANGED <<input, bucket, toAssign>>

Next ==
  \/ Recalculate
  \/ \E ip \in IPs, n \in Nodes : Place(ip, n)
  \/ \E ip \in IPs : NoNodeForCIDR(ip)
  \/ Finish

Spec == Init /\ [][Next]_vars

-----------------------------------------------------------------------------
(* Properties                                                              *)

TypeOK ==
  /\ zone \in [Nodes -> Zones \cup {NoZone}]
  /\ ready \subseteq Nodes
  /\ hosted \in [Nodes -> SUBSET IPs]
  /\ demand \subseteq IPs
  /\ placed \in [Nodes -> SUBSET IPs]
  /\ keys \subseteq Nodes
  /\ bucket \in [Nodes -> Nat]
  /\ toAssign \subseteq IPs
  /\ phase \in {"start", "place", "done", "error"}

\* The bookkeeping is exact: whenever a node may get an IP its bucket is the
\* number of IPs it carries, those of other zones included, so that the
\* lowest bucket really is the least loaded node.
BucketsExact ==
  phase \in {"place", "done"} =>
    \A n \in ready : bucket[n] = Cardinality(placed[n])

\* "This should preserve IPs that are already assigned" (ipam.go): a second
\* run on the HostSubnets that the first one asks for moves nothing.
Stable ==
  phase = "done" =>
    /\ Homeless(ready, placed, demand) = {}
    /\ \A n \in Nodes : Kept(ready, placed, demand, n) = placed[n]

Planner == INSTANCE NodePlanner WITH
  plan    <- IF phase = "done" THEN placed ELSE NothingPlaced,
  keys    <- IF phase = "done" THEN keys ELSE {},
  outcome <- CASE phase = "done" -> "plan" [] phase = "error" -> "error" [] OTHER -> "none"

\* The function returns a plan: nothing that a ready node carries moves,
\* every other IP goes to one ready node of its zone, and evenly so; it
\* fails only if a zone has no ready node; and the map has every node that
\* is not ready, carries IPs or has a zone.  The code's comment asks for all
\* nodes; a ready one without zone that loses its last IP is not in it.
PlannerSpec == Planner!Spec
=============================================================================
