SPECIFICATION Spec
CONSTANTS
    N = 3
    Rows <- MCRows
    Streamed = {2}
    Keyed = {3}
    maxConsecutiveFailures = 3
    Faults = {"connect", "status", "primary", "restart", "row", "commit", "commitLost", "replica", "file", "halt", "timeout", "resend"}
    MaxFaults = 3
INVARIANTS TypeOK FlushedIsApplied WholeTransactions
PROPERTIES AtLeastOnceInOrder CatchesUp
