SPECIFICATION Spec
CONSTANTS
    Requests = {r1, r2}
    Ids = {t1}
    Users = {admin}
    Passwords = {pw1, pw2, pw3}
    None = None
    TTL = 1
    AdminEdits = FALSE
    MaxWrites = 2
    MaxTime = 0
INVARIANTS
    ChangeEndsOldSessions
CHECK_DEADLOCK FALSE
