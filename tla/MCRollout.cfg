SPECIFICATION FairSpec
CONSTANTS
    Prompts = {p}
    Devices = {d}
    Clients = {a, b}
    Scenarios <- Rollouts
    LegacySchemas = {2}
    MaxRevisions = 3
    MaxEdits = 3
    None = None
INVARIANTS TypeOK PublishedAsReviewed RevisionsKeepPrompts ActiveIsPlayable
PROPERTIES DesiredRuns
CHECK_DEADLOCK FALSE
