CONSTANTS
    Subscription = {s1}
    Subscriber = {u1}
    Repo = {g1, g2}
    Tracker = {t1}
    Worker = {w1}
    MaxTag = 2
    MaxFaults = 1
    None = None
SPECIFICATION FairSpec
CHECK_DEADLOCK FALSE
INVARIANTS
    AnnouncedWasConfirmed
    RepeatTakesFault
PROPERTIES
    LeaversHearNoLaterRelease
    ReleaseReachesSubscriber
