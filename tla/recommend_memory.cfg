\* Two GETs of one user at a time, caches and visits in the memory of one process.
SPECIFICATION Spec
CONSTANTS
    c1 = c1
    c2 = c2
    a1 = a1
    Day = 2
    StaleAfter = 2
    ExtendToday = 1
    ExtendYesterday = 2
    None = None
    Payloads <- MCPayloads
    Calls = {c1, c2}
    Rows = {}
    Anchors = {a1}
    WithRedis = FALSE
    FeedTtl = 2
    VisitTtl = 9
    SideTtl <- MCSideTtl
    MaxCall = 1
    MaxTime = 4
    MaxExpiry = 6
SYMMETRY Symmetry
INVARIANTS SourcesAreRecent
PROPERTIES ReturnFindsNoFeed TouchNeverShortens
