SPECIFICATION Spec
CONSTANTS
    Key = {k1, k2}
    Val = {v1, v2}
    NoVal = NoVal
    NULL = NULL
    Client = {c1, c2}
    Cap = 3
    MaxOps = 5
    MaxCrash = 2
SYMMETRY MCSymmetry
INVARIANTS
    TypeOK
    Durable
    OneItem
    ReserveOK
    WaiterWillBeSignalled
CHECK_DEADLOCK FALSE
