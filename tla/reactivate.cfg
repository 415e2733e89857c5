SPECIFICATION Spec
CONSTANTS
    Slots = {s1}
    OpenAfter = 2
    DisableAfter = 3
    Cap = 4
    MaxFaults = 0
    Env = {"enable", "disable"}
INVARIANTS
    DisableEarned
