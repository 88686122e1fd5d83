SPECIFICATION Spec
CONSTANTS
    Metrics = {m1, m2, m3, bad}
    Invalid = {bad}
    Ingesters = {i1, i2}
    Flushers = {f1, f2}
    Stoppers = {s1, s2}
    BufferSize = 1
    BatchSize = 2
    Cancellable = FALSE
    NoMetric = NoMetric
SYMMETRY Symmetry
INVARIANTS
    TypeOK
    NothingLost
    NothingTwice
    BufferBound
    StatsAddUp
    PanicNeedsRestart
PROPERTIES
    ImplementsContract
