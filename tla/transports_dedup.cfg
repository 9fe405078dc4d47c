CONSTANTS
    None = None
    PushTasks = {w1, w2}
    PollTasks = {p1}
    Kind <- AllWS
    Keys = {1, 2}
    Failing = {1}
    Dedup = TRUE
    Durable = TRUE
    Expiring = {2}
    AtomicStore = FALSE
    Limit = 2
    PastEnd = TRUE
    MaxFaults = 2
SPECIFICATION TransportsSpec
INVARIANTS SingleFlight NeverReprocessed NoneSkipped
SYMMETRY Symmetry
CHECK_DEADLOCK FALSE
