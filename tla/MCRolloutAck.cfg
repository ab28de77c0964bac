SPECIFICATION FairSpec
CONSTANTS
    Prompts = {p}
    Devices = {d}
    Clients = {a}
    Scenarios <- CallDuringActivation
    LegacySchemas = {2}
    MaxRevisions = 2
    MaxEdits = 1
    None = None
PROPERTIES ServerLearns
CHECK_DEADLOCK FALSE
