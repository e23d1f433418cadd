SPECIFICATION FairSpec
CONSTANTS
    long = long
    short = short
    Payload = {long, short}
    Size <- Blocks
    Hole = Hole
    None = None
    Transport = {"http", "coap"}
    MaxRetries = 1
    Faults = {"crash", "power", "sweep", "io", "range"}
    MaxFaults = 2
    MaxRetargets = 2
INVARIANTS TypeOK ResumeSound WasteIsExplained
PROPERTY Delivers
