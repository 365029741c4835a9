SPECIFICATION LiveSpec
CONSTANTS
    s1 = s1
    s2 = s2
    r1 = r1
    r2 = r2
    None = None
    Sources = {s1, s2}
    Requests = {r1, r2}
    DisableTimeout = 0
    ActualizeTimeout = 2
    TimeoutExpires = 3
    Timeout = 1
    Preemption = 1
    Caching = TRUE
    Leases = {1, 3}
    MaxRequests = 3
INVARIANTS
    CacheInv
    EvenUntilFailure
    OutageShows
PROPERTIES
    LeftAlone
    Revived
