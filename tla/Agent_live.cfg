SPECIFICATION FairSpec
CONSTANTS
    Garbage = Garbage
    None = None
    v0 = v0
    v1 = v1
    v2 = v2
    Freeform = Freeform
    Unlabelled = Unlabelled
    Binary = {v0, v1, v2}
    Initial = v0
    Dud = {}
    Crashy = {v1}
    Sick = {}
    Policy <- AnyBump
    MaxBoots = 2
    Faults = {"crash", "io", "exec"}
    MaxFaults = 1
    MaxPublish = 3
INVARIANT UndoneByCycleEnd
PROPERTIES   Converges CondemnedJustly
