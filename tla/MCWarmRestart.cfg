SPECIFICATION Spec
CONSTANTS
    SeriesIds = {a}
    Readers = {r}
    Blocks <- TwoBlocks
    Ranges <- OneRange
    PerMilli = 2
    Retention = 0
    MaxBlocks = 2
    MaxFaults = 0
    MaxRestarts = 1
    MaxClock = 1
INVARIANT RestartKeepsIndex
