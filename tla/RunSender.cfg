SPECIFICATION Spec
CONSTANTS
    None = None
    MaxJobs = 1
    MaxKeys = 1
    MaxTasks = 1
    MaxPods = 2
    MaxAgings = 0
    MaxLocks = 0
    MaxDeletes = 0
    MaxForeign = 1
    MaxErrors = 1
    MaxReadErrors = 1
PROPERTIES
    SenderCanConnect
CHECK_DEADLOCK FALSE
