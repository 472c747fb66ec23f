CONSTANTS
    o1 = o1
    None = None
    MaxPiconero = 5
    Order <- MCOrder
    Pay <- MCPay
    Pays <- MCPays
    Amount <- MCAmount
    Price <- MCPrice
    Required <- Confirmations2
    Deadline <- MCDeadline
    Start = {1}
    MaxTip = 2
    MaxNow = 1
    MaxSurprises = 2
SPECIFICATION Spec
INVARIANTS TypeOK StaleIsScheduled VoidedIsFlagged
PROPERTIES AnnouncedSafely
