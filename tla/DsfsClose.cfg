SPECIFICATION Spec
CONSTANTS
    Clients = {"c1"}
    Paths <- Small
    Root = "/"
    Parent <- MCParent
    Ancestors <- MCAncestors
    StartsWith <- MCStartsWith
    Oversize <- NoPaths
    Large <- NoPaths
    History <- Fresh
    CacheType = "memory"
    MaxOps = 5
    MaxFaults = 0
    None = None
INVARIANTS
    CloseFlushes
CHECK_DEADLOCK FALSE
