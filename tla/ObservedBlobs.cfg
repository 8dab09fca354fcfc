SPECIFICATION FairSpec
CONSTANTS
    Blobs = {b1, b2, b3}
    Ours = {b1, b2}
    NoBlob = NoBlob
    FeedLimit = 2
    FindLimit = 1
    MaxTime = 2
INVARIANTS
    TypeOK
    SkipsAreExplained
PROPERTIES
    RowNeverDegrades
    EventuallyAccounted
