SPECIFICATION Spec
CONSTANTS
    Garbage = Garbage
    None = None
    v0 = v0
    v1 = v1
    v2 = v2
    Freeform = Freeform
    Unlabelled = Unlabelled
    Binary = {v0, v1, v2}
    Initial = v0
    Dud = {}
    Crashy = {}
    Sick = {}
    Policy <- AnyBump
    MaxBoots = 2
    Faults = {"crash", "exec"}
    MaxFaults = 2
    MaxPublish = 1
INVARIANT CrashSafe
