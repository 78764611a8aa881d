SPECIFICATION Spec
CONSTANTS
    t1 = t1
    t2 = t2
    image = image
    object = object
    small = small
    large = large
    parsed = parsed
    Threads = {t1, t2}
    Vals = {small, large, parsed}
    KeyOf <- MCKeyOf
    Size <- MCSize
    Owner <- MCOwner
    Hashed = {image, object}
    Images = {image}
    Fonts = {parsed}
    MaxSize = 2
    Word = 16
    Phases = 2
    Percents = {50}
    Allocs = {1}
    MaxLost = 1
    NoOne = NoOne
INVARIANTS
    TypeOK
    RefsAreUsers
    NothingReachableDestroyed
    BooksAgree
    OrphansAreReaped
    NothingLeft
CHECK_DEADLOCK FALSE
