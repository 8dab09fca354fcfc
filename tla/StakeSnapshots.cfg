SPECIFICATION FairSpec
CONSTANTS
    Operators = {o1, o2}
    Stakes = {0, 1, 2}
    NumQuorums = 3
    MaxKills = 1
INVARIANTS
    TypeOK
    SnapshotIsExplained
PROPERTIES
    EveryQuorumRead
