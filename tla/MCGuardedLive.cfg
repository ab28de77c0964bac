SPECIFICATION FairSpec
CONSTANTS
    Calls = {c}
    Caller = c
    Emergencies = {}
    Baselines = {"normal", "prompt"}
    MaxFaults = 2
    None = None
PROPERTIES SessionResolves
CHECK_DEADLOCK FALSE
