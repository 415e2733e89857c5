SPECIFICATION Spec
CONSTANTS
    None = None
    w1 = w1
    w2 = w2
    r1 = r1
    r2 = r2
    Events = {"e1"}
    Endpoints = {"a"}
    Subscribers = {"a"}
    Relays = {r1}
    Workers = {w1, w2}
    Processes = {"p1"}
    ProcessOf <- MCOneProcess
    MaxAttempts = 2
    BatchSize = 1
    MaxStalled = 1
    MaxOutbox = 2
    Env = {"redeliver", "workerCrash", "lockLost", "storeError", "redisWipe"}
SYMMETRY MCSymmetry
INVARIANTS
    TypeOK
    AtMostOneInFlight
    InFlightIsOpen
    HistoryContiguous
    StatusHasEvidence
PROPERTIES
    DoneIsFinal
    CountFollowsClaims
    ImplementsLedger
CHECK_DEADLOCK FALSE
