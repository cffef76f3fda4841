-------------------------- MODULE MCNodeAssignment --------------------------
(* Three nodes, three IPs of which two are in one zone.                     *)
EXTENDS NodeAssignment, TLC

CONSTANTS n1, n2, n3, ip1, ip2, ip3, za, zb

MCZoneOf == ip1 :> za @@ ip2 :> za @@ ip3 :> zb

Symmetry == Permutations(Nodes)
=============================================================================
