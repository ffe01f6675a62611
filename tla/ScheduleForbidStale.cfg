SPECIFICATION Spec
CONSTANTS
    Ticks = {1, 2}
    Minute = 1
    MaxTime = 2
    Policy = "Forbid"
    SuccessfulRunsHistoryLimit = 1
    FailedRunsHistoryLimit = 1
    PromptWatch = FALSE
    MaxLag = 3
    MaxErrors = 0
    MaxEdits = 0
    MaxManual = 0
PROPERTY
    ForbidHolds
CHECK_DEADLOCK FALSE
