SPECIFICATION FairSpec
CONSTANTS
    big = big
    Hash = {a, b, big}
    Full = Full
    None = None
    Device = {d1}
    Large <- OneLarge
    Slots = 1
    HotSize = 1
    HistoryDepth = 1
    MaxEvents = 4
INVARIANTS TypeOK 
PROPERTIES RetryIsBacked Delivers
CHECK_DEADLOCK FALSE
