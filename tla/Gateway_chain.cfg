SPECIFICATION Spec
CONSTANTS
    Requests = {r1, r2}
    Tokens = {t1, t2}
    None = None
INVARIANTS
    HandlersEquipped
