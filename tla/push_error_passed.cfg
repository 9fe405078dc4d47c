CONSTANTS
    s1 = s1
    s2 = s2
    None = None
    Tasks = {s1}
    Kind <- OneSource
    Keys = {1, 2}
    Failing = {1}
    Malformed = {}
    Dedup = FALSE
    Durable = TRUE
    Expiring = {}
    AtomicStore = TRUE
    MaxFaults = 0
SPECIFICATION PushSpec
INVARIANTS FailedNotPassed
CHECK_DEADLOCK FALSE
