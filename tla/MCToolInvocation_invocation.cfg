CONSTANTS
    r1 = r1
    r2 = r2
    r3 = r3
    o1 = o1
    o2 = o2
    o3 = o3
    Request = {r1, r2, r3}
    Owner = {o1, o2, o3}
    NoOwner = NoOwner
    OwnerOf <- OwnOwner
    Starter = r1
    Resumer = {r2, r3}
    FailureRetrier = {}
    Node = {}
    Lease = 1
    MaxTime = 3
SPECIFICATION ServiceSpec
INVARIANTS AtMostOnce StepAgrees SuccessWasServed OnlyApprovedRuns RunTellsOutcome
PROPERTIES OutcomeIsFinal
