SPECIFICATION Spec
CONSTANTS
    Operators = {o1, o2, o3}
    Socketless = {o3}
    NumQuorums = 2
    Callers = {verifier}
INVARIANTS
    TypeOK
    NoDuplicates
    OmissionsAreExplained
