SPECIFICATION Spec
CONSTANTS
    Metrics = {m1, m2, m3}
    Invalid = {}
    Ingesters = {i1}
    Flushers = {f1}
    Stoppers = {s1}
    BufferSize = 1
    BatchSize = 2
    Cancellable = FALSE
    NoMetric = NoMetric
INVARIANTS
    NothingStranded
