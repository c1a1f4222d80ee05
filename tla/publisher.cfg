CONSTANTS
    Message = {m1, m2, m3}
    NoCall = NoCall
SPECIFICATION FairSpec
CHECK_DEADLOCK FALSE
INVARIANTS
    ConfirmationCountsOnce
PROPERTIES
    TruthfulUnlessBehind
    NeverCatchesUp
    EveryCallReturns
