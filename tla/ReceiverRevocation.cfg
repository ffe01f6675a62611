SPECIFICATION Spec
CONSTANTS
    u1 = u1
    u2 = u2
    k1 = k1
    k2 = k2
    Tasks = {u1, u2}
    Keys = {k1, k2}
    NoKey = NoKey
    KeyOf <- SharedKey
    WellFormed = {u1, u2}
    ExpiryTimes = {1}
    Horizon = 1
    TicksPerSecond = 1
    MaxTime = 1
    MaxSessions = 1
    MaxFaults <- RevocationFaults
INVARIANTS
    ManifestComplete
    KeySelectsOneGrant
PROPERTIES
    RevocationIsImmediate
CHECK_DEADLOCK FALSE
