SPECIFICATION Spec
CONSTANTS
    u1 = u1
    u2 = u2
    k1 = k1
    k2 = k2
    Tasks = {u1, u2}
    Keys = {k1, k2}
    NoKey = NoKey
    KeyOf <- DistinctKeys
    WellFormed = {u1, u2}
    ExpiryTimes = {2}
    Horizon = 2
    TicksPerSecond = 2
    MaxTime = 0
    MaxSessions = 0
    MaxFaults <- CleanupFaults
PROPERTIES
    CleanupPreservesNoAuthority
CHECK_DEADLOCK FALSE
