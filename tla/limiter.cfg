SPECIFICATION FairSpec
CONSTANTS
    Slots = {s1, s2, s3, s4}
    Max = 2
    MaxCrashes = 2
    Env = {"expire", "crash", "redisError"}
INVARIANTS
    NeverOverCounts
    LeakHasTtl
PROPERTIES
    TenantNotStarved
