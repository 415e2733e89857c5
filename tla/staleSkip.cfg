SPECIFICATION SpecH
CONSTANTS
    None = None
    w1 = w1
    w2 = w2
    r1 = r1
    r2 = r2
    Events = {"e1"}
    Endpoints = {"a"}
    Subscribers = {"a"}
    Relays = {r1}
    Workers = {w1}
    Processes = {"p1"}
    ProcessOf <- MCOneProcess
    MaxAttempts = 2
    BatchSize = 2
    MaxStalled = 1
    MaxOutbox = 2
    Env = {"redeliver", "patch", "cacheExpire"}
INVARIANTS
    ServedWhileActive
CHECK_DEADLOCK FALSE
