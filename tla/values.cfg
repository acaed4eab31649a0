SPECIFICATION FairValuesSpec
CONSTANTS
    Urls = {u1, u2, u3}
    Webs <- Playlists
    MaxIsEndListDepth = 4
    Numbers = {1, 5}
    Times = {0, 7}
    Durations = {0, 1, 2}
    Constants = {0, 1, 2, 3, 4, 7}
    Repetitions = {0, 1, 2}
    Scales = {0, 1, 2, 10}
    Totals = {0, 1, 2, 3, 4, 5, 6, 7, 8, 9, 21}
    RoundedPast <- TooMany
    MaxElements = 3
    Total = 10
    Shortest = 2
CHECK_DEADLOCK FALSE
INVARIANTS
    LatestIsLast
    SilenceMeasured
PROPERTIES
    PollEnds
    NumbersGoOn
