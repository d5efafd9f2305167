SPECIFICATION FairSpec
CHECK_DEADLOCK FALSE
CONSTANTS
    MaxResults = 3
    MaxQueue = 3
    BatchSize = 3
    MaxRetries = 2
    MaxStored = 3
    MaxDead = 3
    MaxFiles = 1
    SizeLimit = 2
    Kinds = {"good", "bad", "big"}
    Flushers = {"batch_processor"}
    MaxFaults = 2
    MaxDiskFaults = 1
    MaxStops = 0
    MaxCrashes = 0
    StopMayTimeOut = FALSE
PROPERTIES EverySmallResultSettles TableDrains
