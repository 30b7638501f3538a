SPECIFICATION DBSpec
CONSTANTS
    Keys = {k1}
    Values = {v1, v2}
    Nil = Nil
    MaxRevision = 3
    Requests = {r1, r2}
    Admins = {a1}
    Retentions = {0, 1, 2}
    DefaultRetention = 2
    StorageFaults = TRUE
SYMMETRY Symmetry
INVARIANTS
    DBTypeOK
    OneSnapshotPerRevision
PROPERTIES
    RemovalLeavesNewest
    UsesValueHistory
