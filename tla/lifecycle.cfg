SPECIFICATION Spec
CONSTANTS
    Checkouts = {r1, r2}
    Buyers = {alice, bob}
    Keys = {k1, k2}
    Cancels = {c1, c2}
    Jobs = {j1}
    ReplayByKey = FALSE
    NoOrder = NoOrder
SYMMETRY CallerSymmetry
INVARIANTS
    TypeOK
    IInv
    CancelledReleased
    StockBehindOrder
    HistoryFaithful
PROPERTIES
    StatusFinal
    ImplementsOrderBook
CHECK_DEADLOCK FALSE
