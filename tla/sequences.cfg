CONSTANTS
    Sessions = {s1, s2}
    Branches = {main, other}
    Definitions <- SmallDefinitions
    MinInt <- Lowest
    MaxInt = 3
    SetValues = {2}
    None = None
SPECIFICATION Spec
SYMMETRY Symmetric
INVARIANTS TypeOK WithinBounds IssuedOnce BranchKeepsProgress StoredNotReissued
