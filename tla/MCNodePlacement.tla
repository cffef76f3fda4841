-------------------------- MODULE MCNodePlacement --------------------------
(* Two nodes of one zone.                                                   *)
EXTENDS NodePlacement, TLC

CONSTANT za

MCZone == [n \in Nodes |-> za]

\* The nodes' own addresses are in the CIDRs, as a cloud requires.
MCInside == [p \in Platforms |-> Nodes]

\* On bare metal the egress CIDRs are other networks than the nodes'.
MCOutside == [p \in Platforms |-> IF p = "cloud" THEN Nodes ELSE {}]

MCZoneOf == [ip \in IPs |-> za]

Symmetry == Permutations(Nodes) \cup Permutations(IPs)
=============================================================================
