SPECIFICATION Spec
CONSTANTS
    Requests = {r1, r2}
    Names = {a}
    Params = {work_mem}
    Bodies <- MCBodies
    None = None
    MaxValue = 2
SYMMETRY Symmetry
INVARIANTS
    TypeOK
    InstancesPositive
PROPERTIES
    OnlyAskedFieldsChange
    IgnoredOnlyIfRaced
CHECK_DEADLOCK FALSE
