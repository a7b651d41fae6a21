SPECIFICATION Spec
CONSTANTS
    Key = {k1, k2}
    Val = {v1, v2}
    NoVal = NoVal
    NULL = NULL
    Client = {c1}
    Cap = 3
    MaxOps = 5
    MaxCrash = 1
SYMMETRY MCSymmetry
INVARIANT NothingLost
CHECK_DEADLOCK FALSE
