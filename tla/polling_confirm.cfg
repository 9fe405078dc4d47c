CONSTANTS
    None = None
    Tasks = {p1, p2}
    Keys = {1, 2, 4, 5}
    Failing = {4}
    Dedup = FALSE
    Durable = TRUE
    Expiring = {1}
    Limit = 2
    AutoConfirm = TRUE
    PastEnd = FALSE
    MaxFaults = 1
SPECIFICATION FairPollingSpec
INVARIANTS PollingTypeOK ConfirmedWereFed ConfirmedWereProcessed
PROPERTIES PromiseSpec EventuallyRetried EventuallyConfirmed
