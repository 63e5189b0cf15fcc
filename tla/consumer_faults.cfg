\* Messages of every shape, every failure, two coroutines; liveness too.
SPECIFICATION Spec
CONSTANTS
    m1 = m1
    m2 = m2
    m3 = m3
    m4 = m4
    s1 = s1
    s2 = s2
    Messages = {m1, m2, m3, m4}
    Shape <- AllKinds
    Payloads <- MCPayloads
    Ahead <- RefusedFirst
    Slots = {s1, s2}
    Prefetch = 2
    WorkerWithRedis = TRUE
    BrokerMayRestart = TRUE
    CacheValues = {"old"}
    None = None
INVARIANTS TypeOK OneRowPerKey NothingLost InvalidatedUnlessInterrupted
PROPERTIES StoredAtLast
CHECK_DEADLOCK FALSE
