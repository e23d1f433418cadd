SPECIFICATION Spec
CONSTANTS
    k1 = k1
    v1 = v1
    Key = {k1, k2}
    Version = {v1, v2}
    Hash = {a, b}
    None = None
    Full = Full
    Thread = {t1, t2}
    Handler = {h1}
    Declared <- DeclaredOne
    ConfigDefault = None
    HistoryDepth = 1
    CacheSize = 1
    MaxCalls = 2
    MaxFaults = 1
INVARIANTS TypeOK AnswerFits LabelsAreCurrent DefaultRegistered
PROPERTY AloneIsDurable
SYMMETRY Interchangeable
