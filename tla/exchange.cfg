SPECIFICATION Spec
CONSTANTS
    AllowInsecureHttp = FALSE
    AllowPrivateDestinations = FALSE
    Deliveries = {"d1", "d2"}
    MaxAttempts = 2
    Setups <- MCSetups
    Followed = {"d1"}
    Answers <- MCAnswers
    Env = {"configLost", "skew", "purge"}
    Ids = {"d1", "d2"}
    DbPaths = {TRUE, FALSE}
    EnvSecrets = {"whsec_demo", "d1"}
    InsertFails = TRUE
    MaxRedeliveries = 1
    MaxFaults = 1
INVARIANTS
    EffectOnce
    AckedIsProcessed
    NoBlockedConnect
    SecretFirst
    AttemptsCover
CHECK_DEADLOCK FALSE
