CONSTANTS
    p1 = p1
    p2 = p2
    s1 = s1
    s2 = s2
    None = None
    InPool = InPool
    NotFound = NotFound
    Block <- MCBlock
    Tx <- BothTx
    MaxHeight = 3
    Depth <- MCDepth
    Chain <- MCChain
    Holds <- BothHolds
    Spends <- BothSpends
    Tenant <- Stores
    Owner <- EachOwner
    CheckDepth = 2
    MaxAttempts = 2
    Switches <- OnceSwitches
    MaxMoves = 2
    MoveDuring <- AllUnits
    MaxFaults = 2
    Ageing = {}
SPECIFICATION Spec
INVARIANTS TypeOK RecordedChain CursorsRecorded NoMissedPayment HeightIsRecorded
