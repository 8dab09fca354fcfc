SPECIFICATION FairSpec
CONSTANTS
    Operators = {o1, o2, o3}
    MaxHeld = 2
    MinChunksForRecovery = 3
    FetchConcurrency = 2
    MaxProbeRetries = 1
    GcChunksPerOpMax = 2
    BlacklistThreshold = 3
    MaxFails = 3
INVARIANTS
    TypeOK
    TalliesAreExact
    VerdictIsMeasured
    OneCallNeverBlacklists
PROPERTIES
    MeasurementSpec
    CallEnds
