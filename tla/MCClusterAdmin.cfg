SPECIFICATION CASpec
CONSTANTS
    Nil = Nil
    Ids = {i1, i2}
    Names = {n1, n2}
    Passwords = {p1}
    Clients = {c1, c2}
    Callers = {k1, k2}
    Admins = {a1}
    Operators = {o1}
    RegistryFaults = TRUE
    GrantFaults = TRUE
    MaxTime = 2
SYMMETRY Symmetry
INVARIANTS
    CATypeOK
    StoredClientIsCurrent
    NoClientLeaks
    RequestKeepsClient
    NamesAreUnique
    GrantsOpenTheChosen
