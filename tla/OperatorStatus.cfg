SPECIFICATION FairSpec
CONSTANTS
    Operators = {o1, o2}
    Named = {o1}
    NoOperator = NoOperator
    Threshold = 2
    MaxFails = 2
    Ranges = 2
    MaxVersion = 2
    MaxKills = 1
INVARIANTS
    TypeOK
    StatusIsCurrent
    NameIsLatest
PROPERTY
    StatusCatchesUp
