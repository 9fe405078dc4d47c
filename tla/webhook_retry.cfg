CONSTANTS
    None = None
    Tasks = {r1, r2}
    e1 = e1
    e2 = e2
    e3 = e3
    e4 = e4
    e5 = e5
    e6 = e6
    Keys = {e1, e2, e3, e4, e5, e6}
    Failing = {e1}
    Body <- EveryBody
    Dedup = TRUE
    Durable = TRUE
    Expiring = {e2}
    MaxFaults = 1
SPECIFICATION FairWebhookSpec
INVARIANTS WebhookTypeOK SingleFlight NeverReprocessed DroppedWereRefused
PROPERTIES EventuallyJudged
CHECK_DEADLOCK FALSE
