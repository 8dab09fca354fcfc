SPECIFICATION Spec
CONSTANTS
    Candidates = {1, 2}
    Listed = {2, 3, 4, 5}
    Relayish = {1, 2, 4, 5}
    Registered = {2, 3, 4, 5}
    RelayKeys = {r1}
    Callers = {c1, c2}
    NoEntry = NoEntry
    Ttl = 2
    MaxCall = 1
    MaxVersion = 2
INVARIANTS
    TypeOK
    ResolutionIsExplained
PROPERTY
    AnswersAreRecent
