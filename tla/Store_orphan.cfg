SPECIFICATION Spec
CONSTANTS
    big = big
    Hash = {a, b, big}
    Full = Full
    None = None
    Device = {d1}
    Large <- NoneLarge
    Slots = 1
    HotSize = 1
    HistoryDepth = 1
    MaxEvents = 4
INVARIANT TargetIsStored
CHECK_DEADLOCK FALSE
