CONSTANTS
    h1 = h1
    h2 = h2
    o1 = o1
    o2 = o2
    NoOrder = NoOrder
    Hook <- TwoHooks
    Order <- TwoOrders
    StoreOf <- TwoStores
    PerStore = 2
    BatchSize = 2
    Concurrency = 2
    MaxAttempts = {1, 2}
    MaxEvents = 2
    MaxSurprises = 3
SPECIFICATION FairSpec
INVARIANTS TypeOK OneInFlight DeliveredWasAccepted
PROPERTIES NoOvertaking EventuallySettled
CHECK_DEADLOCK FALSE
