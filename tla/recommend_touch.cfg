\* In Redis a hit reads the TTL and sets a longer one in two calls.
SPECIFICATION Spec
CONSTANTS
    c1 = c1
    c2 = c2
    a1 = a1
    Day = 2
    StaleAfter = 2
    ExtendToday = 1
    ExtendYesterday = 2
    None = None
    Payloads <- MCPayloads
    Calls = {c1, c2}
    Rows = {}
    Anchors = {a1}
    WithRedis = TRUE
    FeedTtl = 3
    VisitTtl = 4
    SideTtl <- MCSideTtl
    MaxCall = 1
    MaxTime = 4
    MaxExpiry = 6
SYMMETRY Symmetry
PROPERTIES TouchNeverShortens
