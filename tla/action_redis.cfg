\* Three requests on two processes that share Redis; temporal checking, no symmetry.
SPECIFICATION Spec
CONSTANTS
    r1 = r1
    r2 = r2
    r3 = r3
    i1 = i1
    i2 = i2
    Requests = {r1, r2, r3}
    Instances = {i1, i2}
    Payloads <- MCPayloads
    LongKeys = {"long"}
    Unreadable = "?"
    WithRedis = TRUE
    Redis = Redis
INVARIANTS TypeOK NoDuplicateMessage LossIsVisible
PROPERTIES EveryRequestAnswered
