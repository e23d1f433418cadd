SPECIFICATION Spec
CONSTANTS
    Garbage = Garbage
    None = None
    v0 = v0
    v1 = v1
    v2 = v2
    Freeform = Freeform
    Unlabelled = Unlabelled
    Binary = {v0, v1, v2}
    Initial = v0
    Dud = {v2}
    Crashy = {v1}
    Sick = {}
    Policy <- NoAutoUpdate
    MaxBoots = 2
    Faults = {"crash", "power", "io", "clear", "reset", "read", "exec"}
    MaxFaults = 3
    MaxPublish = 3
INVARIANT WindowBudget
