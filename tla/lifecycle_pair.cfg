SPECIFICATION Spec
CONSTANTS
    Monitors = {m1, m2}
    None = None
    Url <- SameUrl
    MaxLag = 1
    MaxFaults = 0
    MaxMonitors = 1
    Patching = FALSE
    MaxRevivals = 0
    MaxRequests = 0
    MaxCrashes = 0
    OwnerGC = FALSE
SYMMETRY Interchangeable
INVARIANT IInv
PROPERTIES
    DuplicateNeedsLag
    LimitNeedsLag
