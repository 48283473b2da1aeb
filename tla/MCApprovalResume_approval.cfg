SPECIFICATION FairSpec
CONSTANTS
    m1 = m1
    m2 = m2
    Member <- Members
    Nobody = nobody
    MaxRequests = 2
    MaxExecutions = 3
    MaxFaults = 1
INVARIANTS OneDecision CalledOnce RunsOnItsClaim
PROPERTIES RequestsClose
CHECK_DEADLOCK FALSE
