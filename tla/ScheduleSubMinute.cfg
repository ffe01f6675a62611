SPECIFICATION Spec
CONSTANTS
    Ticks = {1, 2}
    Minute = 3
    MaxTime = 3
    Policy = "Forbid"
    SuccessfulRunsHistoryLimit = 1
    FailedRunsHistoryLimit = 1
    PromptWatch = TRUE
    MaxLag = 2
    MaxErrors = 0
    MaxEdits = 0
    MaxManual = 0
PROPERTY
    TickHasItsRun
CHECK_DEADLOCK FALSE
