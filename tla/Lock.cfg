SPECIFICATION FairSpec
CONSTANTS
    Runs = {1, 2}
    Target <- ParentAndChildren
    MaxLag = 3
    MaxRefusals = 1
    MaxDeletes = 1
INVARIANTS
    ExclusiveReceivers
PROPERTIES
    HolderKeepsDestination
    EveryRunEnds
CHECK_DEADLOCK FALSE
