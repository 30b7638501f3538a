SPECIFICATION Spec
CONSTANTS
    Keys = {k1, k2}
    Values = {v1}
    Nil = Nil
    Deleted = Deleted
    External = External
    MaxRevision = 3
    Requests = {r1}
    Admins = {}
    Retentions = {1}
    DefaultRetention = 1
    PageSizes = {1, 2}
    StorageFaults = FALSE
INVARIANT ListedCanBeRestored
