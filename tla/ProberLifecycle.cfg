SPECIFICATION Spec
CONSTANTS
    Workers = {"relay-verifier", "operator-verifier", "stake-indexer", "operator-status", "health-recorder"}
    MaxRequests = 1
INVARIANTS
    TypeOK
    NobodyIsCutOff
PROPERTY
    StopsOnSignal
