SPECIFICATION SpecR
CONSTANTS
    None = None
    AllowInsecureHttp = FALSE
    AllowPrivateDestinations = FALSE
    Requests = {q1, q2}
    Initial <- MCInitial
    InitialTypes = {"t1"}
    Urls <- MCUrls
    Pool <- MCPool
    Types = {"t1", "t2"}
    Ids = {1, 2, 3}
    MaxClock = 1
    Env = {"storeError"}
    PageSize = 1
    Clicked = {1, 2}
SYMMETRY MCSymmetry
INVARIANTS
    UrlUnique
    StoredUrlSafe
    WholePutsSeen
    PutsReplace
    WalkExact
    AttemptsOfOpenRow
CHECK_DEADLOCK FALSE
