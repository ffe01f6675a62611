SPECIFICATION Spec
CONSTANTS
    Ticks = {2, 4, 6}
    Minute = 2
    MaxTime = 7
    Policy = "Forbid"
    SuccessfulRunsHistoryLimit = 1
    FailedRunsHistoryLimit = 1
    PromptWatch = TRUE
    MaxLag = 3
    MaxErrors = 1
    MaxEdits = 1
    MaxManual = 0
INVARIANT
    TypeOK
PROPERTIES
    KeepsContract
    ForbidHolds
    TickHasItsRun
CHECK_DEADLOCK FALSE
