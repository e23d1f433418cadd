SPECIFICATION Spec
CONSTANTS
    Garbage = Garbage
    None = None
    v0 = v0
    v1 = v1
    v2 = v2
    Freeform = Freeform
    Unlabelled = Unlabelled
    Binary = {v0, v1, v2}
    Initial = v0
    Dud = {}
    Crashy = {v1}
    Sick = {}
    Policy <- MinorBump
    MaxBoots = 2
    Faults = {"crash", "power", "io", "reset"}
    MaxFaults = 3
    MaxPublish = 3
INVARIANTS TypeOK CrashSafe FallbackIntact
PROPERTY Refines
