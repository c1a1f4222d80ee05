CONSTANTS
    Peer = {p1}
    MaxCalls = 1
    MaxFaults = 2
SPECIFICATION FairSpec
INVARIANTS
    ServesUsableSchema
    StopWaitsForWork
    ExitCodeIsTruthful
    SignalChargesNoAttempt
PROPERTIES
    StopsAsAWhole
