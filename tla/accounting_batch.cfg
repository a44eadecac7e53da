SPECIFICATION Spec
CONSTANTS
    NumRequests = 2
    Attributed = {1, 2}
    MaxAttempts = 2
    Single = 1
    UserLimit = 5
    InstanceLimit = 4
    MaxConcurrent = 2
    Days = 1
    SupervisorCapacity = 1
    BatchLimit = 1
    MaxCrashes = 1
INVARIANTS
    InterruptedHoldsNothing
