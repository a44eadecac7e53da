INIT HealthInit
NEXT HealthNext
CONSTANTS
    Calls = {c1, c2}
    HealthModels = {m1}
    NoModel = NoModel
    RetryHints = {0, 3}
    BaseDelay = 1
    DelayCap = 3
    promotion_threshold = 2
    MaxClock = 1
    MaxEpoch = 2
CHECK_DEADLOCK FALSE
INVARIANT RotationReleases
