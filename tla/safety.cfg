CONSTANTS
    Id = {s1, s2}
    Key = {k1}
    None = None
    Replica = {r1}
    Worker = {w1}
    MaxAttempts = 2
    BatchSize = 2
    MaxFaults = 2
SPECIFICATION Spec
SYMMETRY Symmetry
CHECK_DEADLOCK FALSE
INVARIANTS
    NoSagaForgotten
    CompletedWasMailed
    CompensatedHasNoRow
    DuplicateTakesFault
PROPERTIES
    RowLeavesWithReason
    LifecycleSpec
