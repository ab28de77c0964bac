SPECIFICATION FairSpec
CONSTANTS
    None = None
    Blocks = {b1}
    RepeatBlocks = FALSE
    MaxAttempts = 1
    MaxBeats = 0
    MaxCrashes = 1
    MaxFaults = 1
INVARIANTS TypeOK MergeAfterRecorder OneSessionPerAttempt
PROPERTIES AttemptResolves
CHECK_DEADLOCK FALSE
