SPECIFICATION Spec
CONSTANTS
    a = a
    b = b
    File <- MCFile
    MaxObject = 3
    Values = {a, b}
    NoObject = NoObject
    Unstashed = TRUE
    MaxChanges = 2
    MaxNesting = 2
PROPERTY AbandonReverts
CHECK_DEADLOCK FALSE
