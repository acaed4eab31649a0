SPECIFICATION FairSpec
CONSTANTS
    Manifests = {u1, u2}
    Numberings = {0, 2, unnumbered}
    Unnumbered = unnumbered
    Window = 2
    Lengths = {1, 2}
    Threshold = 3
    MaxSegments = 3
    MaxSum = 4
CHECK_DEADLOCK FALSE
PROPERTY ResumedNeverFalse
