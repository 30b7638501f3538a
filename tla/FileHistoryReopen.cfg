SPECIFICATION FHSpec
CONSTANTS
    Keys = {k1}
    Values = {v1}
    Nil = Nil
    MaxRevision = 3
    Retentions = {0, 1, 2}
INVARIANT DurableAfterReopen
