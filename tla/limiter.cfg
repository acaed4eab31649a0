CONSTANTS
    Clients = {k1, k2, k3}
    Watched = k1
    Requests = {r1, r2}
    Cells = {b1, b2, b3, b4}
    Limit = 2
    Window = 4
    MaxVisitors = 2
    MaxTime = 6
    None = None
SPECIFICATION Spec
SYMMETRY Symmetry
CHECK_DEADLOCK FALSE
INVARIANTS
    TableOK
    AdmissionBound
PROPERTIES
    CleanupHarmless
    EvictionNeedsCrowd
    RefusalNeedsUse
