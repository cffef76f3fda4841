\* Inputs that are ill-formed or too long, a stale read, a failing call; fairness.
SPECIFICATION FairSpec
CONSTANTS
  Names = {n1, n2}
  CIDRs <- MCTwoZones
  InUse <- MCInUse
  CloudInUse <- MCNoneInUse
  UserInputs <- MCInputs
  Leavers = {n1}
  MaxUserOps = 3
  MaxFaults = 1
  MaxCrashes = 0
  MaxStaleReads = 1
INVARIANT NetNamespacesWellFormed
PROPERTY EventuallyServed
CHECK_DEADLOCK FALSE
