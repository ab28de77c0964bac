SPECIFICATION Spec
CONSTANTS
    None = None
    Durations <- Library
    TimeoutMs = 3
    RecordMs = 4
    BeepMs = 1
    WatchdogMs = 3
    AnswerMs = 3
    MaximumSessionMs = 36
    MaximumBlocks = 16
    MaximumDepth = 5
    MaximumTransitions = 71
    SetupMs = 1
    RecorderMs = 1
    MergeMs = 1
    CleanupMs = 1
    SafeMs = 1
    Flows <- Drafts
INVARIANT EndsAsSimulated
CHECK_DEADLOCK FALSE
