SPECIFICATION Spec
CONSTANTS
    Threads = {t1, t2}
    Requests <- MCRequests
    Panicking = {"Truncate", "Read"}
    UnmountFails = TRUE
    MaxRetries = 1
    MaxRequests = 3
    MaxSignals = 2
    None = None
INVARIANTS
    HostInv
PROPERTIES
    RequestsAnswered
    MountReturns
    SignalUnmounts
CHECK_DEADLOCK FALSE
