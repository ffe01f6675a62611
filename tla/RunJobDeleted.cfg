SPECIFICATION Spec
CONSTANTS
    None = None
    MaxJobs = 1
    MaxKeys = 1
    MaxTasks = 1
    MaxPods = 1
    MaxAgings = 0
    MaxLocks = 0
    MaxDeletes = 1
    MaxForeign = 0
    MaxErrors = 0
    MaxReadErrors = 0
PROPERTIES
    SuccessIsKept
CHECK_DEADLOCK FALSE
