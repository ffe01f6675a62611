SPECIFICATION FairSpec
CONSTANTS
    u1 = u1
    u2 = u2
    k1 = k1
    k2 = k2
    Tasks = {u1}
    Keys = {k1, k2}
    NoKey = NoKey
    KeyOf <- OneTask
    WellFormed = {u1}
    ExpiryTimes = {2, 6}
    Horizon = 6
    TicksPerSecond = 2
    MaxTime = 4
    MaxSessions = 1
    MaxFaults <- LeaseFaults
INVARIANTS
    LapsedUnusable
    ServingHasAuthority
PROPERTIES
    AuthorityWithinLease
    ReadyIsActive
    TerminalIsFinal
    RevocationWithdrawn
    LapseReported
CHECK_DEADLOCK FALSE
