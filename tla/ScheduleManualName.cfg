SPECIFICATION Spec
CONSTANTS
    Ticks = {1, 2}
    Minute = 1
    MaxTime = 2
    Policy = "Allow"
    SuccessfulRunsHistoryLimit = 1
    FailedRunsHistoryLimit = 1
    PromptWatch = FALSE
    MaxLag = 4
    MaxErrors = 0
    MaxEdits = 0
    MaxManual = 1
PROPERTY
    ManualRunsKept
CHECK_DEADLOCK FALSE
