SPECIFICATION Spec
CONSTANTS
    None = None
    MaxJobs = 2
    MaxKeys = 2
    MaxTasks = 1
    MaxPods = 1
    MaxAgings = 2
    MaxLocks = 0
    MaxDeletes = 1
    MaxForeign = 1
    MaxErrors = 0
    MaxReadErrors = 0
INVARIANTS
    TypeOK
    SuccessIsEarned
PROPERTIES
    BoundOnce
    SenderNeverRecreated
    RenewalSparesTerminal
    ForeignNotTakenOver
CHECK_DEADLOCK FALSE
