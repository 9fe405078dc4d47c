CONSTANTS
    None = None
    Tasks = {p1}
    Keys = {1, 2}
    Failing = {}
    Dedup = FALSE
    Durable = TRUE
    Expiring = {}
    Limit = 2
    AutoConfirm = TRUE
    PastEnd = TRUE
    MaxFaults = 0
SPECIFICATION PollingSpec
INVARIANTS ConfirmedWereFed
