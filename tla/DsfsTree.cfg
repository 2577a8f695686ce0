SPECIFICATION SpecHistory
CONSTANTS
    Clients = {"c1"}
    Paths <- Tree
    Root = "/"
    Parent <- MCParent
    Ancestors <- MCAncestors
    StartsWith <- MCStartsWith
    Oversize <- NoPaths
    Large <- NoPaths
    History <- AFolderAFile
    CacheType = "disk"
    MaxOps = 5
    MaxFaults = 1
    None = None
INVARIANTS
    SyncingHeld
    ReaddirAgreesWithGetattr
    OrphansNamed
    CleanMeansSaved
CHECK_DEADLOCK FALSE
