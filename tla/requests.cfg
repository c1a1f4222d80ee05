CONSTANTS
    Request = {q1, q2, q3}
    Email = {e1, e2}
    Repo = {g1, g2}
    None = None
    MaxFaults = 2
SPECIFICATION Spec
SYMMETRY Symmetry
CHECK_DEADLOCK FALSE
INVARIANTS
    RowsHaveParents
    SubscribeIsTruthful
    OneUnsubscribes
    ListIsComplete
    ListedWereConfirmed
    RetryCannotLoseAgain
PROPERTIES
    RowsSpec
