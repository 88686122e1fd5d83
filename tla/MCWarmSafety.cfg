SPECIFICATION Spec
CONSTANTS
    SeriesIds = {a, b}
    Readers = {r}
    Blocks <- TwoBlocks
    Ranges <- OneRange
    PerMilli = 2
    Retention = 0
    MaxBlocks = 2
    MaxFaults = 1
    MaxRestarts = 1
    MaxClock = 1
SYMMETRY Symmetry
INVARIANTS
    TypeOK
    IndexExact
    ReadsExact
PROPERTIES
    RetentionRespected
