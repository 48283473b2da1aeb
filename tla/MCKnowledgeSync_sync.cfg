CONSTANTS
    i1 = i1
    i2 = i2
    w1 = w1
    w2 = w2
    p1 = p1
    p2 = p2
    Item = {i1}
    Worker = {w1, w2}
    ProcessOf <- TwoProcesses
    Nobody = Nobody
    NoRow = NoRow
    MaxVersion = 2
    MaxAttempts = 2
    MaxRuns = 1
    MaxTrouble = 2
SPECIFICATION FairSpec
INVARIANTS InStep RemovedWasGone IngestedOnce
PROPERTIES EveryRunEnds
CHECK_DEADLOCK FALSE
