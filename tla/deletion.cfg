\* Deletion and re-creation with a failing call and a crash, cloud and bare metal; fairness.
SPECIFICATION LFairSpec
CONSTANTS
  Names = {n1, n2}
  CIDRs <- MCPool
  InUse <- MCInUse
  CloudInUse <- MCInUse
  UserInputs <- MCNoInputs
  Leavers = {}
  Hosts = {h1, h2}
  Clouds = {TRUE, FALSE}
  MaxUserOps = 0
  MaxFaults = 1
  MaxCrashes = 1
  MaxStaleReads = 0
  MaxIPAMOps = 3
INVARIANT AnnotationsReleased
PROPERTIES DeletionCompletes ServedAgain
CHECK_DEADLOCK FALSE
