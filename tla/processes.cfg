CONSTANTS
    Id = {s1}
    Key = {k1}
    None = None
    Replica = {r1, r2}
    Worker = {w1, w2}
    MaxAttempts = 2
    BatchSize = 1
    MaxFaults = 1
SPECIFICATION FairSpec
CHECK_DEADLOCK FALSE
INVARIANTS
    IInv
    FailedAfterAllAttempts
PROPERTIES
    PublishedIsFinal
    SagaSettles
    SagaOutcomeIsFinal
