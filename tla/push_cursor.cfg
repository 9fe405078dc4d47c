CONSTANTS
    s1 = s1
    s2 = s2
    None = None
    Tasks = {s1, s2}
    Kind <- SameTransport
    Keys = {1, 2, 3, 5}
    Failing = {2}
    Malformed = {5}
    Dedup = FALSE
    Durable = FALSE
    Expiring = {}
    AtomicStore = TRUE
    MaxFaults = 2
SPECIFICATION MCFairPushSpec
INVARIANTS PushTypeOK NoUnseenSkip CursorOnSettled
PROPERTIES CursorMonotone PromiseSpec EventuallyDelivered
CHECK_DEADLOCK FALSE
