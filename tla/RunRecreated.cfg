SPECIFICATION Spec
CONSTANTS
    None = None
    MaxJobs = 2
    MaxKeys = 1
    MaxTasks = 1
    MaxPods = 1
    MaxAgings = 0
    MaxLocks = 0
    MaxDeletes = 1
    MaxForeign = 0
    MaxErrors = 0
    MaxReadErrors = 1
PROPERTIES
    SenderNeverRecreated
CHECK_DEADLOCK FALSE
