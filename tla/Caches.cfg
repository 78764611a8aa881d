SPECIFICATION Spec
CONSTANTS
    k1 = k1
    k2 = k2
    k3 = k3
    k4 = k4
    g1 = g1
    g2 = g2
    g3 = g3
    g4 = g4
    h1 = h1
    h2 = h2
    h3 = h3
    h4 = h4
    h5 = h5
    h6 = h6
    t1 = t1
    t2 = t2
    Threads = {t1, t2}
    NoKey = NoKey
    PageKeys = {k1, k2, k3, k4}
    PageOf <- MCPageOf
    Sizes = {1, 2, 5}
    MaxEntries = 3
    MaxBytes = 4
    GlyphKeys = {g1, g2, g3, g4}
    Bucket <- MCBucket
    Bytes <- MCBytes
    Type3 = {g1, g3}
    Uncached = {g4}
    MaxTotal = 3
    MaxGlyphs = 4
    TableKeys = {h1, h2, h3, h4, h5, h6}
    Hash <- MCHash
    Filters = {{h1, h3}, {h2, h4, h5}}
    InitialSize = 6
INVARIANTS
    TypeOK
    PagesAreCoherent
    GlyphsAreCoherent
    GlyphsFreedAfterLastUse
    TableSearchesEnd
    TableFindsWhatIsStored
PROPERTY
    PagesEvictLeastRecent
CHECK_DEADLOCK FALSE
