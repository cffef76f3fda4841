\* A cycle that lists the namespaces before it sees its own last write.
SPECIFICATION Spec
CONSTANTS
  Names = {n1, n2}
  CIDRs <- MCPool
  InUse <- MCInUse
  CloudInUse <- MCNoneInUse
  UserInputs <- MCNoInputs
  Leavers = {}
  MaxUserOps = 2
  MaxFaults = 0
  MaxCrashes = 0
  MaxStaleReads = 2
SYMMETRY Symmetry
INVARIANT NoSharedIP
CHECK_DEADLOCK FALSE
