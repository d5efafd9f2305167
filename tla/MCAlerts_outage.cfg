SPECIFICATION Spec
CHECK_DEADLOCK FALSE
CONSTANTS
    Configs <- Plain
    Readings <- MCReadings
    Thresholds = {7, 30}
    NoCert = NoCert
    Unread = Unread
    Never = Never
    None = None
    q1 = q1
    q2 = q2
    Requests = {q1}
    MaxRuns = 3
    MaxBatch = 2
    MaxTime = 5
    MaxEvents = 0
PROPERTIES EveryOutagePaged
