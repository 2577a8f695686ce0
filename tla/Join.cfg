SPECIFICATION Spec
CONSTANTS
    Clients = {1, 2}
    Accounts <- MCAccounts
    Guilds <- MCGuilds
    MaxStarts = 2
    MaxPosts = 3
    MaxLost = 1
INVARIANTS
    JoinInv
    NothingSkipped
    ShowsLatest
CHECK_DEADLOCK FALSE
