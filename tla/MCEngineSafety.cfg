SPECIFICATION EngineSpec
CONSTANTS
    SeriesIds = {a}
    Values = {v}
    MaxTime = 2
    MaxSeries = 1
    MaxPoints = 2
    MaxAge = 0
    MaxClock = 2
    Queries = {q}
    Ranges <- WholeRange
    WarmRetention = 0
    MaxBlocks = 1
    MaxFaults = 1
VIEW Behaviour
INVARIANTS
    EngineTypeOK
    NoGap
    TierComplete
