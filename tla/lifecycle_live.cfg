SPECIFICATION FairSpec
CONSTANTS
    Monitors = {m1}
    None = None
    Url <- SameUrl
    MaxLag = 1
    MaxFaults = 0
    MaxMonitors = 2
    Patching = FALSE
    MaxRevivals = 0
    MaxRequests = 1
    MaxCrashes = 0
    OwnerGC = FALSE
PROPERTIES
    EndedPodNoticed
