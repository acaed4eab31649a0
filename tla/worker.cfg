SPECIFICATION FairSpec
CHECK_DEADLOCK FALSE
PROPERTIES
    StartedFirst
    OutageAlternates
    CompletedAfterEnded
    NothingElseAfterEnded
    LastWord
    SeenAsPromised
    WorkerStops
    StreamEndNoticed
    SegmentErrorsTold
