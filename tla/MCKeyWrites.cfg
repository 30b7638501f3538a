SPECIFICATION Spec
CONSTANTS
    Keys = {k1}
    Values = {v1, v2}
    Nil = Nil
    Deleted = Deleted
    External = External
    MaxRevision = 3
    Requests = {r1, r2}
    Admins = {}
    Retentions = {1}
    DefaultRetention = 1
    PageSizes = {1, 2}
    StorageFaults = FALSE
SYMMETRY Symmetry
INVARIANTS
    HistoryIsFaithful
    NoLostUpdate
    RollbackRestoresTarget
PROPERTY OverwrittenIsArchived
