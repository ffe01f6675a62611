SPECIFICATION FairSpec
CONSTANTS
    None = None
    MaxJobs = 1
    MaxKeys = 1
    MaxTasks = 1
    MaxPods = 1
    MaxAgings = 0
    MaxLocks = 1
    MaxDeletes = 0
    MaxForeign = 0
    MaxErrors = 1
    MaxReadErrors = 0
PROPERTIES
    ChildrenCleanedUp
    RunSettles
CHECK_DEADLOCK FALSE
