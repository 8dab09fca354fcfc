SPECIFICATION FairSpec
CONSTANTS
    NumGroups = 4
    SelfPeriod = 3
INVARIANT TypeOK
PROPERTIES
    EveryAgeMeasured
    OwnBlobsGetTurns
