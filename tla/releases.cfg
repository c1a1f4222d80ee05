CONSTANTS
    Subscription = {s1, s2}
    Subscriber = {u1, u2}
    Repo = {g1}
    Tracker = {t1, t2}
    Worker = {w1}
    MaxTag = 1
    MaxFaults = 1
    None = None
SPECIFICATION Spec
SYMMETRY Symmetry
CHECK_DEADLOCK FALSE
INVARIANTS
    IInv
    NoReleaseMissed
PROPERTIES
    TagMovesWithScan
