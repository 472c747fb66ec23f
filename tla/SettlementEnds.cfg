CONSTANTS
    o1 = o1
    None = None
    MaxPiconero = 5
    Order <- MCOrder
    Pay <- OnePay
    Pays <- OnePays
    Amount <- OneAmount
    Price <- MCPrice
    Required <- Confirmations2
    Deadline <- MCDeadline
    Start = {1, 2}
    MaxTip = 2
    MaxNow = 1
    MaxSurprises = 2
SPECIFICATION FairSpec
INVARIANTS StaleIsScheduled
PROPERTIES EventuallyRight
