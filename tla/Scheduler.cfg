CONSTANTS
    None = None
    N = 4
    Share <- MCShare
    Budget = 6
    MaxUnit = 3
    MaxOpening = 8
SPECIFICATION FairSpec
INVARIANTS TypeOK EveryTierRuns PriorityKept NoTimeWasted StartsInTime
PROPERTIES RoundEnds
