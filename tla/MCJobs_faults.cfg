SPECIFICATION FairSpec
CHECK_DEADLOCK FALSE
CONSTANTS
    MaxJobs = 2
    Priorities = {0, 5}
    Dispatch = 1
    MaxLosses = 1
    MaxEdits = 2
    MaxStops = 1
INVARIANTS AtMostOnce StrandedOnlyByLoss FifoWithinPriority
PROPERTIES FinishedKept EveryJobEnds
