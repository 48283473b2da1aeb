CONSTANTS
    WorkerCount = 2
    MaxRetries = 1
    MaxAttempts = 4
    MaxTrouble = 2
    Overlong = FALSE
SPECIFICATION FairSpec
INVARIANTS IngestAgrees DeletedIsGone
PROPERTIES IngestSettles
CHECK_DEADLOCK FALSE
