SPECIFICATION BSpec
CONSTANTS
    Clusters = {c1, c2}
    Keys = {k1, k2}
    Nil = Nil
    MaxRevision = 3
    Slots = {s1, s2}
SYMMETRY Symmetry
INVARIANTS
    BTypeOK
    WritesGoWhereLoaded
    RollsBackThePreviewed
    ListIsOfSelectedCluster
    LockedOnlyWhileWaiting
