\* Two GETs of one user at a time and one action of his; keys expire at any time.
SPECIFICATION Spec
CONSTANTS
    c1 = c1
    c2 = c2
    m1 = m1
    s1 = s1
    Day = 2
    StaleAfter = 2
    ExtendToday = 1
    ExtendYesterday = 2
    None = None
    Calls = {c1, c2}
    FeedTtl = 1
    VisitTtl = 2
    SideTtl <- MCSideTtl
    MaxExpiry = 3
    Messages = {m1}
    Payloads <- MCPayloads
    Slots = {s1}
    Prefetch = 1
    BrokerMayRestart = FALSE
SYMMETRY Symmetry
INVARIANTS TypeOK ShowsOwnActions
