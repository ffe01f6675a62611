SPECIFICATION Spec
CONSTANTS
    Runs = {1, 2}
    Target <- ParentAndChildren
    MaxLag = 2
    MaxRefusals = 0
    MaxDeletes = 0
INVARIANT
    OneReceiverPerDestination
CHECK_DEADLOCK FALSE
