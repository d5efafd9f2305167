SPECIFICATION Spec
CONSTANTS
    r1 = r1
    r2 = r2
    Runs = {r1}
    None = None
    NoRun = NoRun
    Trigger = "interval"
    Interval = 2
    MaxRuntime = 3
    Delay = 1
    Cleanup = 1
    RetryLimit = 2
    Backoff = 1
    BackoffCap = 2
    MaxStreak = 3
    MaxAhead = 2
    MaxByHand = 0
    MaxCrashes = 0
PROPERTIES DisabledAtLimit
