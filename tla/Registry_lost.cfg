SPECIFICATION RegSpec
CONSTANTS
    k1 = k1
    v1 = v1
    Key = {k1, k2}
    Version = {v1}
    Hash = {a, b, c}
    None = None
    Thread = {t1, t2}
    Declared <- DeclaredOne
    ConfigDefault = None
    HistoryDepth = 2
    MaxCalls = 4
    MaxFaults = 0
INVARIANT PublishedSurvives
SYMMETRY Interchangeable
CHECK_DEADLOCK FALSE
