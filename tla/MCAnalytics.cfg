SPECIFICATION AnalyticsSpec
CHECK_DEADLOCK FALSE
CONSTANTS
    c1 = c1
    c2 = c2
    r1 = r1
    r2 = r2
    Callers = {c1, c2}
    Values = {0, 9}
    Trainings <- ShortAndLong
    Threshold = 2
    WindowSize = 4
    DefaultKind = "zscore"
    MaxResults = 1
    MaxDetectors = 2
    MaxLearned = 3
    Requests = {r1, r2}
    Sizes = {3, 10, 24}
SYMMETRY Symmetry
INVARIANTS
    AnalyticsTypeOK
    MuteUntilTrained
    WindowRecent
    RangeAgrees
    OwnAnswers
