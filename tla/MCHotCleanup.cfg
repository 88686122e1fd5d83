SPECIFICATION Spec
CONSTANTS
    SeriesIds = {a}
    Values = {v, w}
    MaxTime = 3
    MaxSeries = 2
    MaxPoints = 2
    MaxAge = 1
    MaxClock = 2
    MaxDrift = 3
CONSTRAINT DriftBound
PROPERTIES
    CleanupSparesWritten
