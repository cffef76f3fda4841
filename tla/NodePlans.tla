----------------------------- MODULE NodePlans -----------------------------
(***************************************************************************)
(* What a distribution of egress IPs over the selected nodes has to be: the *)
(* contract of assignIPsToNodes, stated without its maps and loops.        *)
(*                                                                         *)
(* A zone stands for a CIDR: zone[n] is the CIDR whose labelValue node n   *)
(* has (SelectedNodesByCIDR), or NoZone; ZoneOf[ip] is the CIDR that       *)
(* contains ip.  hosted[n] are the egressIPs of n's HostSubnet, demand the *)
(* IPs in the annotations of the referring namespaces.                     *)
(***************************************************************************)
EXTENDS Integers, FiniteSets

CONSTANTS Nodes, IPs, Zones, NoZone, ZoneOf

ASSUME NodePlansAssumption ==
  /\ IsFiniteSet(IPs)
  /\ ZoneOf \in [IPs -> Zones]
  /\ NoZone \notin Zones

\* The IPs that stay where they are: those of a ready node that are in demand.
Kept(ready, hosted, demand, n) == IF n \in ready THEN hosted[n] \cap demand ELSE {}

\* The IPs that no ready node carries.
Homeless(ready, hosted, demand) == demand \ UNION {hosted[n] : n \in ready}

Candidates(zone, ready, z) == {n \in ready : zone[n] = z}

\* What is kept stays; an IP without a home gets exactly one, on a ready
\* node of its zone; no node that got an IP has two more than a candidate.
IsPlan(zone, ready, hosted, demand, plan) ==
  LET kept(n)  == Kept(ready, hosted, demand, n)
      homeless == Homeless(ready, hosted, demand)
  IN /\ \A n \in Nodes : kept(n) \subseteq plan[n]
     /\ \A n \in Nodes : \A ip \in plan[n] \ kept(n) :
          ip \in homeless /\ n \in Candidates(zone, ready, ZoneOf[ip])
     /\ \A ip \in homeless : \E n \in Nodes : ip \in plan[n]
     /\ \A ip \in homeless : \A n, m \in Nodes : ip \in plan[n] \cap plan[m] => n = m
     /\ \A n \in Nodes : plan[n] # kept(n) =>
          \A m \in Candidates(zone, ready, zone[n]) :
            Cardinality(plan[n]) <= Cardinality(plan[m]) + 1

\* The nodes in the map that assignIPsToNodes returns: those that are not
\* ready, those that have IPs, and those of a zone.  The code leaves out a
\* ready node without zone and without IPs, also one that has just lost its
\* last IP.
PlanKeys(zone, ready, plan) ==
  {n \in Nodes : n \notin ready \/ plan[n] # {} \/ zone[n] \in Zones}

\* There is no plan for a zone without a ready node.
NoPlan(zone, ready, hosted, demand) ==
  \E ip \in Homeless(ready, hosted, demand) : Candidates(zone, ready, ZoneOf[ip]) = {}
=============================================================================
