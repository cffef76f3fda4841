\* Every used set of seven small CIDRs, allocated from until exhausted.
SPECIFICATION Spec
CONSTANT CIDRs <- MCAllCIDRs
INVARIANTS TypeOK SliceSorted GivenUsable
PROPERTY PoolSpec
CHECK_DEADLOCK FALSE
