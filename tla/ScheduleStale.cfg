SPECIFICATION FairSpec
CONSTANTS
    Ticks = {1, 2}
    Minute = 1
    MaxTime = 3
    Policy = "Allow"
    SuccessfulRunsHistoryLimit = 1
    FailedRunsHistoryLimit = 1
    PromptWatch = FALSE
    MaxLag = 4
    MaxErrors = 1
    MaxEdits = 1
    MaxManual = 1
PROPERTIES
    TicksAreHandled
    HistoryShrinks
    RecordAdvances
    HistoryKept
CHECK_DEADLOCK FALSE
