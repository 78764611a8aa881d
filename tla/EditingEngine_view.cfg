SPECIFICATION EngineSpec
CONSTANTS
    a = a
    b = b
    Pages = {a, b}
    NoDoc = NoDoc
    Paths = {p}
    StoredFiles <- SinglePage
    Requested <- FirstPages
    MaxOpens = 1
    MaxRevision = 3
    BlankPage = b
    MaxPages = 2
    MaxOps = 1
    MaxSnapshots = 3
    MaxUndoEntries = 2
    MaxInMemory = 2
    MaxDiskBacked = 4
    SpillToDiskThreshold = 2
    Beside = {"read", "store"}
    OtherInstances = TRUE
    Watched = 1
CHECK_DEADLOCK FALSE
INVARIANTS ViewIsCurrent FlagIsRight
