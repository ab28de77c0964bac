SPECIFICATION Spec
CONSTANTS
    Calls = {c, x, e}
    Caller = c
    Emergencies = {e}
    Baselines = {"normal"}
    MaxFaults = 1
    None = None
INVARIANTS TypeOK Custody ForeignSpared
PROPERTIES PrivacyKept
CHECK_DEADLOCK FALSE
