\* Nodes that join, leave, fail and recover on every platform, lagging caches, failing calls.
SPECIFICATION Spec
CONSTANTS
  za = za
  Nodes = {n1, n2}
  IPs = {ip1}
  Zones = {za}
  NoZone = NoZone
  ZoneOf <- MCZoneOf
  Zone <- MCZone
  Platforms = {"cloud", "baremetal", "onecidr"}
  HostIPInCIDR <- MCInside
  Churn = {"readiness", "membership"}
  MaxChanges = 3
  MaxFaults = 1
  MaxCrashes = 0
  MaxStaleReads = 1
SYMMETRY Symmetry
INVARIANTS TypeOK CarriedAtRest CIDRsAtRest InterfacesMatchAtRest GaugesAtRest
PROPERTIES CarriedIPsKept
CHECK_DEADLOCK FALSE
