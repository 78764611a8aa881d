SPECIFICATION EngineSpec
CONSTANTS
    a = a
    b = b
    Pages = {a, b}
    NoDoc = NoDoc
    Paths = {p}
    StoredFiles <- SinglePage
    Requested <- FirstPages
    MaxOpens = 1
    MaxRevision = 4
    BlankPage = b
    MaxPages = 2
    MaxOps = 2
    MaxSnapshots = 5
    MaxUndoEntries = 2
    MaxInMemory = 2
    MaxDiskBacked = 4
    SpillToDiskThreshold = 2
    Beside = {"edit"}
    OtherInstances = FALSE
    Watched = 1
CHECK_DEADLOCK FALSE
INVARIANTS EngineTypeOK SnapshotsReadable NothingOutlivesItsSession 
PROPERTY HistoryIsLinear
