SPECIFICATION Spec
CONSTANTS
    Checkouts = {r1, r2, r3}
    Buyers = {alice, bob}
    Keys = {k1, k2}
    Cancels = {}
    Jobs = {}
    ReplayByKey = TRUE
    NoOrder = NoOrder
SYMMETRY RequestSymmetry
INVARIANTS
    OneOrderPerKey
    IdempotentReplies
    RefusedHoldsNothing
    FailedByForeignKey
CHECK_DEADLOCK FALSE
