SPECIFICATION Spec
CONSTANTS
    Requests = {r1, r2}
    Clusters = {a, b}
    Ids = {nightly}
    Schedules = {hourly, daily}
    None = None
    MaxUid = 2
    MaxBackups = 1
SYMMETRY Symmetry
INVARIANTS
    TypeOK
PROPERTIES
    ForeignOnlyIfRecreated
    OnlyAskedSchedules
CHECK_DEADLOCK FALSE
