SPECIFICATION Spec
CONSTANTS
    Runs = {1, 2}
    Target <- ParentAndChildren
    MaxLag = 4
    MaxRefusals = 1
    MaxDeletes = 0
INVARIANT
    OneReceiverIfDistinct
CHECK_DEADLOCK FALSE
