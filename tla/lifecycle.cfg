\* Lagging caches, failing calls, a crash; the EgressIPAM comes, goes and comes again.
SPECIFICATION LSpec
CONSTANTS
  Names = {n1, n2}
  CIDRs <- MCPool
  InUse <- MCInUse
  CloudInUse <- MCInUse
  UserInputs <- MCNoInputs
  Leavers = {n1}
  Hosts = {h1}
  Clouds = {TRUE}
  MaxUserOps = 1
  MaxFaults = 0
  MaxCrashes = 1
  MaxStaleReads = 1
  MaxIPAMOps = 3
INVARIANTS LTypeOK HandedOutIsProtected
CHECK_DEADLOCK FALSE
