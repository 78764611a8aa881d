SPECIFICATION Spec
CONSTANTS
    a = a
    b = b
    File <- MCFile
    MaxObject = 3
    Values = {a, b}
    NoObject = NoObject
    Unstashed = FALSE
    MaxChanges = 3
    MaxNesting = 2
INVARIANTS
    TypeOK
    IndexFindsNewest
    OnceInEntry
    ReferencesResolve
    BeginsAreRecoverable
    VersionsAreRecoverable
PROPERTIES
    HistoryIsALine
CHECK_DEADLOCK FALSE
