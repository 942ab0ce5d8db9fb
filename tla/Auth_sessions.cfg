SPECIFICATION Spec
CONSTANTS
    Requests = {r1, r2}
    Ids = {t1, t2}
    Users = {admin, root}
    Passwords = {pw1, pw2}
    None = None
    TTL = 0
    AdminEdits = TRUE
    MaxWrites = 2
    MaxTime = 1
SYMMETRY Symmetry
INVARIANTS
    TypeOK
    SweepIsComplete
PROPERTIES
    RevocationIsFinal
CHECK_DEADLOCK FALSE
