CONSTANTS
    Subscription = {s1}
    Subscriber = {u1}
    Repo = {g1}
    Tracker = {t1}
    Worker = {w1}
    MaxTag = 1
    MaxFaults = 1
    None = None
SPECIFICATION FairSpec
CHECK_DEADLOCK FALSE
PROPERTIES
    ReleaseIsAnnounced
