SPECIFICATION Spec
CONSTANTS
    Clients = {c1, c2}
    Compacting = {c1, c2}
    Paths <- MCPaths
    Root = "/"
    Entries <- MCEntries
    Long <- MCLong
    Batches <- FewBatches
    History <- NoHistory
    PageSize = 2
    ChunkLines = 3
    Faults = {}
    MaxStarts = 3
    MaxPosts = 2
    None = None
INVARIANTS
    StartPointExists
    RestartSafe
    SetupGivesTree
PROPERTIES
    StartEnds
CHECK_DEADLOCK FALSE
