\* A retry after a failed publish: the event is at no broker and no client knows.
SPECIFICATION Spec
CONSTANTS
    r1 = r1
    r2 = r2
    r3 = r3
    i1 = i1
    i2 = i2
    Requests = {r1, r2, r3}
    Instances = {i1, i2}
    Payloads <- MCPayloads
    LongKeys = {"long"}
    Unreadable = "?"
    WithRedis = FALSE
    Redis = Redis
SYMMETRY Symmetry
INVARIANTS RetryIsSafe
