SPECIFICATION Spec
CONSTANTS
    N = 3
    Rows <- MCRows
    Streamed = {}
    Keyed = {}
    maxConsecutiveFailures = 3
    Faults = {"halt", "restart", "resend"}
    MaxFaults = 2
PROPERTY WrittenNeverGoesBack
