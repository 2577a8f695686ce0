SPECIFICATION Spec
CONSTANTS
    Clients = {"c1", "c2"}
    Paths <- Flat
    Root = "/"
    Parent <- MCParent
    Ancestors <- MCAncestors
    StartsWith <- MCStartsWith
    Oversize <- OnlyAB
    Large <- OnlyA
    History <- OneFile
    CacheType = "memory"
    MaxOps = 3
    MaxFaults = 1
    None = None
INVARIANTS
    OpenInjective
    DurableContent
    DivergenceOnlyByRace
PROPERTIES
    Converges
CHECK_DEADLOCK FALSE
