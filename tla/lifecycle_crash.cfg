SPECIFICATION FairSpec
CONSTANTS
    Monitors = {m1}
    None = None
    Url <- SameUrl
    MaxLag = 1
    MaxFaults = 2
    MaxMonitors = 2
    Patching = FALSE
    MaxRevivals = 0
    MaxRequests = 0
    MaxCrashes = 1
    OwnerGC = FALSE
INVARIANT NoPhaselessRemnant
PROPERTIES
    MissingPodNoticed
    DeadPodRemoved
