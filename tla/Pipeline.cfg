SPECIFICATION FairSpec
CONSTANTS
    Stages = 3
    Items = 3
    Capacity = 1
    Input = 3
INVARIANTS
    FailureReported
    OwnFailureReported
    NothingAfterFailure
PROPERTIES
    NothingLeftRunning
    AlwaysReturns
