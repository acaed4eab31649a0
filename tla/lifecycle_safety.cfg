SPECIFICATION Spec
CONSTANTS
    Monitors = {m1}
    None = None
    Url <- SameUrl
    MaxLag = 1
    MaxFaults = 1
    MaxMonitors = 2
    Patching = TRUE
    MaxRevivals = 1
    MaxRequests = 1
    MaxCrashes = 0
    OwnerGC = TRUE
INVARIANTS
    NotifyBudget
    WatcherSparesRunningPods
PROPERTIES
    TerminalPhaseKept
    ImplementsContract
