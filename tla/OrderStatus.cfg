CONSTANTS
    None = None
    Absent = Absent
    MaxPiconero = 4
    Ids = {1, 2, 3}
    Amounts = {1, 2}
    Prices = {1, 3}
    Depths = {0, 1, 2}
    MaxTop = 2
    MaxTime = 1
    Expiry = 0
SPECIFICATION HistorySpec
INVARIANTS StatusByDepth ConfirmationsByDepth ScheduleCovers
PROPERTIES LaterPaymentHarmless
