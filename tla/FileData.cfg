SPECIFICATION Spec
CONSTANTS
    BlockSize = 2
    MaxSize = 6
    MaxRetries = 1
    Files = {1, 2}
    Readers = {1, 2}
    CacheTypes = {"memory", "disk"}
    StoredTxs <- MCStoredTxs
    RemoteTxs <- MCRemoteTxs
    ReadExtents <- MCReadExtents
    WriteExtents <- MCWriteExtents
    Sizes <- MCSizes
    Workloads <- MCWorkloads
    None = None
INVARIANTS
    FileDataInv
    ReadyBytesTrue
    NothingMissing
    ReadsTrue
PROPERTIES
    UploadExact
    EmptyReadNamed
    CrashNamed
    WorkEnds
CHECK_DEADLOCK FALSE
