SPECIFICATION FairSpec
CONSTANTS
    None = None
    Requests = {q1, q2, q3}
    IdemKeys = {"i1", "i2"}
    Keys = {"k0", "k1", "k2", "k3"}
    FirstKey = "k0"
    Limit = 2
    Env = {"redisError", "storeError"}
INVARIANTS
    TypeOK
    RepliesAgree
    KeyAlwaysWorks
PROPERTIES
    GraceRespected
    WindowReopens
    RequestsEnd
CHECK_DEADLOCK FALSE
