SPECIFICATION Spec
CONSTANTS
    Clients = {c1}
    Compacting = {c1}
    Paths <- MCPaths
    Root = "/"
    Entries <- MCEntries
    Long <- MCLong
    Batches <- MCBatches
    History <- NoHistory
    PageSize = 2
    ChunkLines = 3
    Faults = {"call", "fetch"}
    MaxStarts = 3
    MaxPosts = 3
    None = None
INVARIANTS
    RestartSafe
    TxLogInv
CHECK_DEADLOCK FALSE
