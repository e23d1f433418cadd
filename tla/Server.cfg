SPECIFICATION Spec
CONSTANTS
    k1 = k1
    v1 = v1
    Key = {k1}
    Version = {v1, v2}
    Hash = {a, b, c}
    None = None
    Thread = {k1, t1}
    Declared <- DeclaredOne
    ConfigDefault = None
    HistoryDepth = 2
    MaxCalls = 3
    MaxFaults = 1
INVARIANTS TypeOK HistoryIsRecent 
PROPERTIES  ReloadKeepsLabel CleanExit ShutdownEnds
CHECK_DEADLOCK FALSE
