SPECIFICATION Spec
CONSTANTS
    Events = 2
    MaxRetries = 4
CHECK_DEADLOCK FALSE
INVARIANTS
    TimestampsTell
PROPERTIES
    KeepsPromise
    GivenUpLast
