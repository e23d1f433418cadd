SPECIFICATION FairSpec
CONSTANTS
    Garbage = Garbage
    None = None
    v0 = v0
    v1 = v1
    v2 = v2
    Freeform = Freeform
    Unlabelled = Unlabelled
    Binary = {v0, v1, v2}
    Initial = v0
    Dud = {v1}
    Crashy = {}
    Sick = {}
    Policy <- AnyBump
    MaxBoots = 2
    Faults = {}
    MaxFaults = 0
    MaxPublish = 1
PROPERTY AgentStaysAlive
