\* Caches that lag, calls that fail, a crash.
SPECIFICATION Spec
CONSTANTS
  Names = {n1, n2}
  CIDRs <- MCPool
  InUse <- MCInUse
  CloudInUse <- MCNoneInUse
  UserInputs <- MCNoInputs
  Leavers = {n1}
  MaxUserOps = 3
  MaxFaults = 1
  MaxCrashes = 1
  MaxStaleReads = 2
INVARIANT ServedAtRest
PROPERTY AssignmentKept
CHECK_DEADLOCK FALSE
