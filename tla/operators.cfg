SPECIFICATION Spec
CONSTANTS
    None = None
    w1 = w1
    w2 = w2
    r1 = r1
    r2 = r2
    Events = {"e1"}
    Endpoints = {"a"}
    Subscribers = {"a"}
    Relays = {r1, r2}
    Workers = {w1, w2}
    Processes = {"p1"}
    ProcessOf <- MCOneProcess
    MaxAttempts = 2
    BatchSize = 2
    MaxStalled = 1
    MaxOutbox = 2
    Env = {"redeliver", "ping", "patch", "autoDisable", "cacheExpire", "addBulkError"}
SYMMETRY MCSymmetry
INVARIANTS
    ClaimProtocolInv
PROPERTIES
    DropsCleanly
CHECK_DEADLOCK FALSE
