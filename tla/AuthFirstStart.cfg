SPECIFICATION AuthSpec
CONSTANTS
    Nil = Nil
    Users = {admin, u1}
    FirstAdmin = admin
    Hashes = {h1, h2, h3}
    Changers = {c1}
    Logins = {l1}
    AuthFaults = TRUE
SYMMETRY Symmetry
INVARIANT AdministratorCanLogIn
