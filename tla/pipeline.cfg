\* Service and worker around the broker: every failure, repeats and rivals, and
\* from the 202 to the row.
SPECIFICATION Spec
CONSTANTS
    r1 = r1
    r2 = r2
    i1 = i1
    s1 = s1
    Requests = {r1, r2}
    Instances = {i1}
    Payloads <- MCPayloads
    LongKeys = {}
    Unreadable = "?"
    WithRedis = TRUE
    Redis = Redis
    Slots = {s1}
    Prefetch = 1
    WorkerWithRedis = FALSE
    BrokerMayRestart = TRUE
    CacheValues = {"old"}
    None = None
    Unstorable = {}
INVARIANTS TypeOK AcceptedIsKept
PROPERTIES ImplementsLedger AcceptedIsStored
CHECK_DEADLOCK FALSE
