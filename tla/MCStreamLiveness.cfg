SPECIFICATION FairSpec
CONSTANTS
    Metrics = {m1, m2}
    Invalid = {}
    Ingesters = {i1, i2}
    Flushers = {f1}
    Stoppers = {s1}
    BufferSize = 1
    BatchSize = 2
    Cancellable = TRUE
    NoMetric = NoMetric
PROPERTIES
    BufferDrains
    BatchSettles
    StopFlushes
    CallsReturn
