SPECIFICATION Spec
CONSTANTS
    Keys = {"a", "ax", "ab"}
    Values = {v1, v2}
    None = None
    StartsWith <- MCStartsWith
    Kinds = {"radix", "map"}
    MaxIters = 2
    MaxUpdates = 3
INVARIANTS
    DatabaseInv
PROPERTIES
    ImplementsDatabaseSpec
    IterationEnds
CHECK_DEADLOCK FALSE
