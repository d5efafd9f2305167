SPECIFICATION Spec
CHECK_DEADLOCK FALSE
CONSTANTS
    MaxResults = 3
    MaxQueue = 2
    BatchSize = 2
    MaxRetries = 1
    MaxStored = 1
    MaxDead = 1
    MaxFiles = 2
    SizeLimit = 2
    Kinds = {"good", "bad", "big"}
    Flushers = {"batch_processor", "result_processor"}
    MaxFaults = 1
    MaxDiskFaults = 0
    MaxStops = 1
    MaxCrashes = 1
    StopMayTimeOut = TRUE
INVARIANTS TypeOK Accounted DeadLettersRefused OneCustodian ReplayCopyCurrent DiskCap BatchIsNewest
PROPERTIES ImplementsQueue
