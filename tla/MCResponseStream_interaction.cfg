SPECIFICATION StreamFairSpec
CONSTANTS
    Workers = {w1, w2}
    NoWorker = none
    MaxAttempts = 3
    MaxOverlap = 2
    MaxText = 2
    Page = 3
    MaxReconnects = 2
INVARIANTS OneExecutor OutcomeAgrees SingleTerminal StreamIsWhole
PROPERTIES ResponseFinal ImplementsLeasedWork EveryInteractionEnds
CHECK_DEADLOCK FALSE
