SPECIFICATION EnterpriseSpec
CHECK_DEADLOCK FALSE
CONSTANTS
    A = A
    B = B
    C = C
    D = D
    c1 = c1
    Nodes = {A, B, C, D}
    Tokens <- RingTokens
    ReplicaFactor = 2
    Self = A
    None = None
    Writers = {w1}
    Readers = {r1}
    KeyHash = 15
    TenantIds = {t1}
    Requests = {q1, q2, q3}
    MaxAmount = 2
    MaxPointsPerDay = 2
    MaxConcurrentQueries = 2
INVARIANTS
    EnterpriseTypeOK
    QuorumsMeet
    QuotaOverrun
    SlotsBalance
PROPERTIES
    WalkFate
    JoinMovesLittle
    NoFalseAlarm
    SilentNoticed
