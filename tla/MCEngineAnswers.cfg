SPECIFICATION EngineSpec
CONSTANTS
    SeriesIds = {a}
    Values = {v, w}
    MaxTime = 1
    MaxSeries = 1
    MaxPoints = 2
    MaxAge = 0
    MaxClock = 2
    Queries = {q}
    Ranges <- WholeRange
    WarmRetention = 0
    MaxBlocks = 2
    MaxFaults = 0
INVARIANT AnswersLatest
