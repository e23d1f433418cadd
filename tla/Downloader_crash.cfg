SPECIFICATION Spec
CONSTANTS
    long = long
    short = short
    Payload = {long, short}
    Size <- Blocks
    Hole = Hole
    None = None
    Transport = {"http"}
    MaxRetries = 1
    Faults = {"crash"}
    MaxFaults = 1
    MaxRetargets = 0
PROPERTY CrashKeepsProgress
