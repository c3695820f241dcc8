SPECIFICATION FairCartSpec
CONSTANTS
    Users = {u1}
    Sessions = {g1}
    Skus = {a}
    MaxQuantity = 1
    Adds = {x1}
    Merges = {m1}
    NoSku = NoSku
PROPERTIES
    MergeKeepsEverything
