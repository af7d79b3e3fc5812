SPECIFICATION FairSpec
CONSTANTS
    MAX_PROCS = 4
    NULL = NULL
    MaxPid = 5
    InputSize = 2
    Liberties = {}
INVARIANTS StackExclusive QueueExact WaitTargetLive
PROPERTIES LifeCycle NoStarvation ReapedInTheEnd VforkReturns InputDelivered
