SPECIFICATION Spec
CONSTANTS
    Bytes <- MCBytes
    Readers = {r1, r2}
    MaxRanges = 3
SYMMETRY MCSymmetry
INVARIANTS
    LoadInv
    RaceOnlyAtFirst
PROPERTIES
    ImplementsLoadSpec
CHECK_DEADLOCK FALSE
