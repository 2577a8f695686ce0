SPECIFICATION Spec
CONSTANTS
    Bytes <- MCBytes
    Readers = {r1, r2}
    MaxRanges = 3
INVARIANTS
    TruncateReturns
CHECK_DEADLOCK FALSE
