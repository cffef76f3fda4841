\* Cloud and bare metal: nodes that fail, recover and are relabelled, failing calls, a crash.
SPECIFICATION FairSpec
CONSTANTS
  za = za
  Nodes = {n1, n2}
  IPs = {ip1}
  Zones = {za}
  NoZone = NoZone
  ZoneOf <- MCZoneOf
  Zone <- MCZone
  Platforms = {"cloud", "baremetal"}
  HostIPInCIDR <- MCOutside
  Churn = {"readiness", "labels"}
  MaxChanges = 3
  MaxFaults = 1
  MaxCrashes = 1
  MaxStaleReads = 0
PROPERTIES EventuallyCarried
CHECK_DEADLOCK FALSE
