CONSTANTS
    p1 = p1
    p2 = p2
    s1 = s1
    s2 = s2
    None = None
    InPool = InPool
    NotFound = NotFound
    Block <- MCBlock
    Tx <- OneTx
    MaxHeight = 3
    Depth <- MCDepth
    Chain <- MCChain
    Holds <- LateHolds
    Spends <- NoSpends
    Tenant <- OneStore
    Owner <- OneOwner
    CheckDepth = 2
    MaxAttempts = 1
    Switches <- AllSwitches
    MaxMoves = 4
    MoveDuring <- AllUnits
    MaxFaults = 1
    Ageing = {}
SPECIFICATION Spec
INVARIANTS HeightIsRecorded
