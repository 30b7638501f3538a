\* A start that refuses a damaged file really stops: nothing follows it.
CHECK_DEADLOCK FALSE
SPECIFICATION FHSpec
CONSTANTS
    Keys = {k1, k2}
    Values = {v1}
    Nil = Nil
    MaxRevision = 3
    Retentions = {0, 1, 2}
SYMMETRY Symmetry
INVARIANTS
    FHTypeOK
    AcknowledgedIsDurable
    AcknowledgedIsVisible
PROPERTY ImplementsValueHistory
