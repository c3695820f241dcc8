SPECIFICATION Spec
CONSTANTS
    Checkouts = {r1, r2}
    Buyers = {alice}
    Keys = {k1}
    Cancels = {}
    Jobs = {}
    ReplayByKey = TRUE
    NoOrder = NoOrder
SYMMETRY RequestSymmetry
INVARIANTS
    StockBehindOrder
CHECK_DEADLOCK FALSE
