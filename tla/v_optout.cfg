\* An opt-out in the middle of a cycle.
SPECIFICATION Spec
CONSTANTS
  Names = {n1, n2}
  CIDRs <- MCPool
  InUse <- MCInUse
  CloudInUse <- MCNoneInUse
  UserInputs <- MCNoInputs
  Leavers = {n1}
  MaxUserOps = 2
  MaxFaults = 0
  MaxCrashes = 0
  MaxStaleReads = 2
INVARIANT NetNamespacesMatch
CHECK_DEADLOCK FALSE
