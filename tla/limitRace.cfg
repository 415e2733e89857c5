SPECIFICATION Spec
CONSTANTS
    Slots = {s1, s2, s3}
    Max = 2
    MaxCrashes = 0
    Env = {}
INVARIANTS
    WithinLimit
