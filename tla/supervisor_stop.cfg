CONSTANTS
    sse1 = sse1
    sse2 = sse2
    poller = poller
    Sources = {sse1, sse2, poller}
    Kind <- EveryKind
    Unclosable = {sse1}
SPECIFICATION FairSupervisorSpec
INVARIANTS SupervisorTypeOK AllSupervised StopNeverSpins
PROPERTIES NoneRunAnew StopEndsSources
