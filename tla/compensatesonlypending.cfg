CONSTANTS
    Id = {s1}
    Key = {k1}
    None = None
    Replica = {r1}
    Worker = {w1}
    MaxAttempts = 2
    BatchSize = 1
    MaxFaults = 1
SPECIFICATION Spec
CHECK_DEADLOCK FALSE
PROPERTIES
    CompensatesOnlyPending
