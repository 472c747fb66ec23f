CONSTANTS
    Unreadable <- OneUnreadable
    Batch = 2
    MaxEvents = 4
    PrunedUnread = FALSE
SPECIFICATION FairSpec
INVARIANTS TypeOK NoSilentLoss
PROPERTIES KeepsPromise EventuallyTold
