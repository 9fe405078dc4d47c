CONSTANTS
    None = None
    Callers = {c1, c2}
    Ids = {s0, s1}
    Newer = {s0}
    Refusals <- RefusalsOf
    MaxCalls = 2
SPECIFICATION ManagementSpec
INVARIANTS ManagementTypeOK ChangesHold NoneMadeUnnoticed CaughtByFamily
SYMMETRY Symmetry
CHECK_DEADLOCK FALSE
