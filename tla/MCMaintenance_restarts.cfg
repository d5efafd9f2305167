SPECIFICATION QueueSpec
CONSTANTS
    Workers = {w1, w2}
    Targets = {t1}
    NoTarget = null
    Secrets = {s1, s2}
    MaxJobs = 2
    MaxFaults = 2
INVARIANTS AppliedOnce OutcomeTrue
PROPERTY EveryRequestEnds
CHECK_DEADLOCK FALSE
