CONSTANTS
    w1 = w1
    w2 = w2
    Workers = {w1, w2}
    Member = Member
    Editors = {a1}
    Nobody = Nobody
    Never = Never
    Periods = {1, 2}
    Horizon = 2
    MaxFaults = 1
    MaxTouches = 2
SPECIFICATION FairSpec
INVARIANTS FiresOnce NoneMissed
PROPERTIES DueSettles
CHECK_DEADLOCK FALSE
