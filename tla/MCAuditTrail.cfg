SPECIFICATION ASpec
CONSTANTS
    Nil = Nil
    Requests = {c1, r1, r2}
    Configurers = {c1}
    Limit = 1
    Days = 1
    PageSize = 1
    MaxTime = 2
    AuditFaults = TRUE
SYMMETRY Symmetry
INVARIANTS
    ATypeOK
    NoEventTwice
    NoEventForgotten
    QueueIsBounded
    ListedIsDurable
    PagesAreComplete
    PagesDescend
