SPECIFICATION Spec
CONSTANTS
    None = None
    Blocks = {b1, b2}
    RepeatBlocks = FALSE
    MaxAttempts = 2
    MaxBeats = 1
    MaxCrashes = 1
    MaxFaults = 0
SYMMETRY BlockSymmetry
INVARIANTS NotConnectedWasDialled BranchAfterSession
CHECK_DEADLOCK FALSE
