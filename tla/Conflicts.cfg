CONSTANTS
    k1 = k1
    k2 = k2
    None = None
    Spent = Spent
    Keys <- TwoKeys
    Heights = {1, 2}
    MaxPayments = 3
    Checking = TRUE
SPECIFICATION Spec
SYMMETRY KeySymmetry
INVARIANTS TypeOK KeyCountsOnce CreditFollowsBlocks SupersededIsBacked
