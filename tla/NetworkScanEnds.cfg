CONSTANTS
    p1 = p1
    p2 = p2
    s1 = s1
    s2 = s2
    None = None
    InPool = InPool
    NotFound = NotFound
    Block <- MCBlock
    Tx <- OneTx
    MaxHeight = 3
    Depth <- MCDepth
    Chain <- MCChain
    Holds <- MovedHolds
    Spends <- RivalSpends
    Tenant <- OneStore
    Owner <- OneOwner
    CheckDepth = 2
    MaxAttempts = 1
    Switches <- RivalSwitches
    MaxMoves = 3
    MoveDuring <- AllUnits
    MaxFaults = 1
    Ageing <- OneTx
SPECIFICATION FairSpec
INVARIANTS HeightIsRecorded
PROPERTIES EventuallyConverged
