CONSTANTS
    Sessions = {s1, s2}
    Branches = {main}
    Definitions <- SmallDefinitions
    MinInt <- Lowest
    MaxInt = 3
    SetValues = {}
    None = None
SPECIFICATION Spec
INVARIANT TakesTheFurthest
