SPECIFICATION ProgramFairSpec
CONSTANTS
    Metrics = {m1, m2, m3}
    Invalid = {m3}
    Ingesters = {i1, i2}
    Flushers = {f1}
    Stoppers = {s1}
    Flusher = f1
    Main = s1
    BufferSize = 1
    BatchSize = 2
    Cancellable = TRUE
    NoMetric = NoMetric
    MaxBatch = 2
INVARIANTS
    OrderlyExit
PROPERTIES
    SignalEnds
