---------------------------- MODULE NodePlanner ----------------------------
(***************************************************************************)
(* The abstract specification of assignIPsToNodes: from what the cycle has *)
(* loaded it returns a plan in one step, or an error if there is none.     *)
(* Its map has at least the nodes that are not ready, carry IPs or have a  *)
(* zone; it may have more.                                                 *)
(***************************************************************************)
EXTENDS NodePlans

VARIABLES zone, ready, hosted, demand, plan, keys, outcome

input == <<zone, ready, hosted, demand>>

NothingPlanned == [n \in Nodes |-> {}]

Init ==
  /\ zone \in [Nodes -> Zones \cup {NoZone}]
  /\ ready \in SUBSET Nodes
  /\ hosted \in [Nodes -> SUBSET IPs]
  /\ demand \in SUBSET IPs
  /\ plan = NothingPlanned /\ keys = {}
  /\ outcome = "none"

Return ==
  /\ outcome = "none" /\ outcome' = "plan"
  /\ plan' \in [Nodes -> SUBSET IPs]
  /\ IsPlan(zone, ready, hosted, demand, plan')
  /\ keys' \in SUBSET Nodes
  /\ PlanKeys(zone, ready, plan') \subseteq keys'
  /\ UNCHANGED input

Refuse ==
  /\ outcome = "none" /\ outcome' = "error"
  /\ NoPlan(zone, ready, hosted, demand)
  /\ UNCHANGED <<input, plan, keys>>

Next == Return \/ Refuse

Spec == Init /\ [][Next]_<<input, plan, keys, outcome>>
=============================================================================
