SPECIFICATION RetrySpec
CONSTANTS
    Checkouts = {r1}
    Buyers = {alice}
    Keys = {k1}
    Cancels = {c1, c2}
    Jobs = {j1, j2}
    ReplayByKey = FALSE
    NoOrder = NoOrder
INVARIANTS
    RetryOnlyCancelled
    HistoryFaithful
PROPERTIES
    PendingSettles
CHECK_DEADLOCK FALSE
