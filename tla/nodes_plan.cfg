\* Every zone, readiness, hosting and demand of three nodes and three IPs.
SPECIFICATION Spec
CONSTANTS
  n1 = n1  n2 = n2  n3 = n3  ip1 = ip1  ip2 = ip2  ip3 = ip3  za = za  zb = zb
  Nodes = {n1, n2, n3}
  IPs = {ip1, ip2, ip3}
  Zones = {za, zb}
  NoZone = NoZone
  ZoneOf <- MCZoneOf
SYMMETRY Symmetry
INVARIANTS TypeOK BucketsExact Stable
PROPERTY PlannerSpec
CHECK_DEADLOCK FALSE
