SPECIFICATION OffersSpec
CONSTANTS
    Skus = {a, b}
    MaxQuantity = 2
    Answers <- MCAnswers
    None = None
    Absent = Absent
SYMMETRY OffersSymmetry
INVARIANTS
    SoldIsForSale
