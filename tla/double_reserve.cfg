SPECIFICATION Spec
CONSTANTS
    Checkouts = {r1, r2}
    Buyers = {alice}
    Keys = {k1}
    Cancels = {}
    Jobs = {}
    ReplayByKey = FALSE
    NoOrder = NoOrder
SYMMETRY RequestSymmetry
INVARIANTS
    OneHoldPerRequest
CHECK_DEADLOCK FALSE
