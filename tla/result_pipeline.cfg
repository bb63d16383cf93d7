SPECIFICATION Spec
CONSTANTS
    MaxItems = 4
    rowsBatch = 2
    RowCap = 1
    ResCap = 1
    Affected = {0, 1, 2}
    Faults <- AllFaults
INVARIANTS TypeOK RowsInOrder AllRowsDelivered FailureIsReported IteratorClosed NeverAllBlocked
PROPERTIES CloseLeavesLastBatch BoundedWork Terminates
CHECK_DEADLOCK FALSE
