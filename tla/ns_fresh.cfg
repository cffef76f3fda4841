\* Up-to-date caches, users that opt in and out, calls that fail.
SPECIFICATION Spec
CONSTANTS
  Names = {n1, n2, n3}
  CIDRs <- MCPool
  InUse <- MCNoneInUse
  CloudInUse <- MCCloudInUse
  UserInputs <- MCNoInputs
  Leavers = {n1}
  MaxUserOps = 4
  MaxFaults = 1
  MaxCrashes = 0
  MaxStaleReads = 0
SYMMETRY Symmetry
INVARIANTS TypeOK UniqueAssignments CloudAddressesSpared
CHECK_DEADLOCK FALSE
