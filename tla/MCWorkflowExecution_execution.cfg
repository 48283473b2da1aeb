SPECIFICATION FairSpec
CONSTANTS
    a = a
    b = b
    c = c
    d = d
    NoNode = none
    Node <- Nodes
    Edge <- Diamond
    When <- Branch
    Uses <- References
    Output <- Join
    Gated <- OnlyB
    Unsafe <- OnlyC
    Bulky <- AOrB
    MaxRetries = 1
    MaxSteps = 3
    MaxExecutions = 3
    MaxCrashes = 1
    Settings <- Every
INVARIANTS CheckpointHonest UnsafeOnce SuccessIsComplete
PROPERTIES ImplementsGraphProgress RunningSettles
CHECK_DEADLOCK FALSE
