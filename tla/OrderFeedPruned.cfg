CONSTANTS
    Unreadable <- OneUnreadable
    Batch = 2
    MaxEvents = 3
    PrunedUnread = TRUE
SPECIFICATION Spec
INVARIANTS NoSilentLoss
