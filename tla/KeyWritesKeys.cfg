SPECIFICATION FairSpec
CONSTANTS
    Keys = {k1, k2}
    Values = {v1}
    Nil = Nil
    Deleted = Deleted
    External = External
    MaxRevision = 3
    Requests = {r1}
    Admins = {a1}
    Retentions = {0, 1}
    DefaultRetention = 1
    PageSizes = {1, 2}
    StorageFaults = TRUE
INVARIANTS
    TypeOK
    PageIsNewest
    RefusedChangesNothing
    ReportedIsWritten
PROPERTY EveryRequestEnds
