CONSTANTS
    MaxDuration = 7
    AttemptLimit = 4
SPECIFICATION FairSpec
CHECK_DEADLOCK FALSE
INVARIANTS
    ExtraCopiesWereUnanswered
    DelayWithinPolicy
    DelaysNeverShrink
PROPERTIES
    NoAttemptAfterTheEnd
    SendReturns
    PromiseSpec
