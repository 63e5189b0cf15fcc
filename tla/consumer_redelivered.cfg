\* Redelivery after an interrupted invalidation finds the row and deletes nothing.
SPECIFICATION Spec
CONSTANTS
    m1 = m1
    m2 = m2
    m3 = m3
    m4 = m4
    s1 = s1
    s2 = s2
    Messages = {m1, m2, m3}
    Shape <- AllGood
    Payloads <- MCPayloads
    Ahead = {}
    Slots = {s1, s2}
    Prefetch = 2
    WorkerWithRedis = TRUE
    BrokerMayRestart = FALSE
    CacheValues = {"old"}
    None = None
SYMMETRY Symmetry
INVARIANTS InvalidatedOnInsert
CHECK_DEADLOCK FALSE
