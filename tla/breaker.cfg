SPECIFICATION FairSpec
CONSTANTS
    Slots = {s1, s2}
    OpenAfter = 2
    DisableAfter = 3
    Cap = 3
    MaxFaults = 1
    Env = {"disable", "staleCache", "slowAttempts", "crash", "redisError", "redisWipe"}
INVARIANTS
    TypeOK
    OpenIffThreshold
    DisableEarned
PROPERTIES
    CircuitRecovers
CHECK_DEADLOCK FALSE
