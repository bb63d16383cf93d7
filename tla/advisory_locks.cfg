SPECIFICATION Spec
CONSTANTS
    s1 = s1
    s2 = s2
    l1 = l1
    l2 = l2
    Sessions <- MCSessions
    Locks <- MCLocks
    Nobody = Nobody
    MaxCount = 3
    ReleaseFails = TRUE
INVARIANTS TypeOK Exclusive CountsAgree NothingLeftBehind
PROPERTIES LocksAreScoped WaiterOutlivesHolders
CHECK_DEADLOCK FALSE
