SPECIFICATION PurchaseSpec
CONSTANTS
    Checkouts = {r1, r2}
    Buyers = {alice}
    Keys = {k1, k2}
    Cancels = {c1}
    Jobs = {j1}
    ReplayByKey = FALSE
    NoOrder = NoOrder
    Skus = {a}
    MaxQuantity = 2
    Prices = {1, 2}
    Stock = 1
SYMMETRY PurchaseSymmetry
INVARIANTS
    PurchaseTypeOK
    HoldMatchesOrder
    TotalOfLines
    NoOversell
PROPERTIES
    ImplementsSales
CHECK_DEADLOCK FALSE
