SPECIFICATION FairSpec
CONSTANTS
    Events = {connected, failed}
    Failures = {failed}
    Scenarios <- Reported
    MaxPolicies = 2
    None = None
INVARIANTS TypeOK AlertedOnce
PROPERTIES OutcomeKept ReportsArrive
