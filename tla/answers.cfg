SPECIFICATION FairSpec
CONSTANTS
    Checkouts = {r1, r2}
    Buyers = {alice}
    Keys = {k1}
    Cancels = {c1, c2}
    Jobs = {}
    ReplayByKey = FALSE
    NoOrder = NoOrder
PROPERTIES
    RequestsAnswered
CHECK_DEADLOCK FALSE
