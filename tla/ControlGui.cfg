SPECIFICATION FairSpec
CONSTANTS
    None = None
    Services = {sudo}
    Gains = {100}
    Prompts <- Prompting
    Sessions <- Typical
    MaxRuns = 2
    MaxMishaps = 1
    TornAt <- Torn
CHECK_DEADLOCK FALSE
INVARIANTS TypeOK RgbChosenIsAcknowledged NoConfirmationUnasked SavedStreamIsOne UntouchedCameraKept
    PreviewYields DarkPreviewExplained RowsTrue
PROPERTY CommandAnswered
