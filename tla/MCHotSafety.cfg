SPECIFICATION Spec
CONSTANTS
    SeriesIds = {a, b, c}
    Values = {v, w}
    MaxTime = 3
    MaxSeries = 2
    MaxPoints = 2
    MaxAge = 0
    MaxClock = 1
    MaxDrift = 3
CONSTRAINT DriftBound
SYMMETRY Symmetry
INVARIANTS
    TypeOK
    PointsSorted
    LimitsHold
    LastWriteWins
    NewestKept
    RangeExact
