SPECIFICATION FairSpec
CONSTANTS
    None = None
    w1 = w1
    w2 = w2
    r1 = r1
    r2 = r2
    Events = {"e1"}
    Endpoints = {"a"}
    Subscribers = {"a"}
    Relays = {r1}
    Workers = {w1, w2}
    Processes = {"p1"}
    ProcessOf <- MCOneProcess
    MaxAttempts = 2
    BatchSize = 1
    MaxStalled = 1
    MaxOutbox = 2
    Env = {"redeliver", "tickAbort", "addBulkError"}
INVARIANTS
    NoLostDelivery
    RetryBudget
    RetryTimeShown
PROPERTIES
    EveryDeliveryEnds
    OutboxDrains
    RedeliveryHonoured
CHECK_DEADLOCK FALSE
