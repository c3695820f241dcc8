SPECIFICATION FairCartSpec
CONSTANTS
    Users = {u1}
    Sessions = {g1}
    Skus = {a}
    MaxQuantity = 2
    Adds = {x1, x2}
    Merges = {m1}
    NoSku = NoSku
INVARIANTS
    CartTypeOK
    CartIInv
    AddsNeverDeadlock
PROPERTIES
    AddsCounted
    ImplementsCarts
    LockedRowsMerged
    CartRequestsEnd
