SPECIFICATION Spec
CONSTANTS
    a = a
    b = b
    Pages = {a, b}
    NoDoc = NoDoc
    Paths = {p}
    StoredFiles <- Mixed
    Requested <- TwoAndBeyond
    MaxOpens = 1
    MaxRevision = 2
CHECK_DEADLOCK FALSE
INVARIANT HandleIsCurrent
