SPECIFICATION Spec
CONSTANTS
    Patches = {"p", "q"}
    Settings = {"interval", "threshold"}
    Request <- TwoRequests
    WithConfig = {"p", "q"}
    MaxReports = 2
    MaxTries = 2
    MaxVersions = 5
CHECK_DEADLOCK FALSE
PROPERTIES
    LostUpdateNeedsLag
    OneStepOrNone
    StatsBackNeedsOvertaking
