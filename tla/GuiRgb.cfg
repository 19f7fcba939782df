SPECIFICATION Spec
CONSTANTS
    None = None
    Services = {sudo}
    Gains = {100}
    Prompts <- Prompting
    Sessions <- FreshWebcam
    MaxRuns = 2
    MaxMishaps = 0
    TornAt <- Torn
CHECK_DEADLOCK FALSE
INVARIANT RgbAcknowledged
