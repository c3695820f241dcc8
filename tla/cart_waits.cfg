SPECIFICATION FairCartSpec
CONSTANTS
    Users = {u1}
    Sessions = {g1, g2}
    Skus = {a, b}
    MaxQuantity = 1
    Adds = {}
    Merges = {m1, m2}
    NoSku = NoSku
PROPERTIES
    ImplementsCarts
    LockedRowsMerged
    CartRequestsEnd
