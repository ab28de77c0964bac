SPECIFICATION FairSpec
CONSTANTS
    None = None
    Scenarios <- Uploads
    AuditQuota = 2
    Reserve = 1
    MaxNames = 4
INVARIANTS TypeOK AudioKept ReadyPlays ErasedIsGone QuotaKept
PROPERTIES ReadyIsFinal WholeServesAgain
CHECK_DEADLOCK FALSE
