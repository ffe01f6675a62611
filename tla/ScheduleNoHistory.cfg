SPECIFICATION Spec
CONSTANTS
    Ticks = {2}
    Minute = 2
    MaxTime = 4
    Policy = "Forbid"
    SuccessfulRunsHistoryLimit = 0
    FailedRunsHistoryLimit = 0
    PromptWatch = TRUE
    MaxLag = 3
    MaxErrors = 0
    MaxEdits = 0
    MaxManual = 0
PROPERTY
    KeepsContract
CHECK_DEADLOCK FALSE
