SPECIFICATION FairSpec
CONSTANTS
    Blobs = {1, 2}
    RelayKeys = {r1, r2}
    NoRelay = NoRelay
    NeverCertified = {2}
    Limit = 2
    Parallel = 2
INVARIANTS
    TypeOK
    ProbesAreWhole
PROPERTIES
    ResultsSpec
    CertifiedEventuallyProbed
