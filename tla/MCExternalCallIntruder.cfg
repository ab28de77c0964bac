SPECIFICATION Spec
CONSTANTS
    OpIds = {o1}
    None = None
    SetupTimeout = 1
    AnswerTimeout = 1
    RecorderTimeout = 1
    MergeTimeout = 1
    CleanupTimeout = 2
    StableTime = 1
    GraceTime = 1
    JournalMayFail = FALSE
    MaxSessions = 1
    MaxCrashes = 1
    MaxGlitches = 1
INVARIANTS SingleFlight CompletedWasConferenced ReleasedLegs
CHECK_DEADLOCK FALSE
