SPECIFICATION FairSpec
CONSTANTS
    Events = {1, 2, 3}
    Malformed = {3}
    FinalityBlocks = 2
    MaxBlockRange = 1
    MaxLag = 2
    MaxHead = 5
INVARIANTS
    TypeOK
    CursorIsFinal
    RecordedIsCanonical
    AtMostOneRow
    NoEventSkipped
PROPERTIES
    IndexSpec
    EveryFinalEventPassed
