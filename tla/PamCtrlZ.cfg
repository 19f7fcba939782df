SPECIFICATION FairSpec
CONSTANTS
    Sessions <- ForegroundSessions
    MaxConfigWrites = 0
    JobControlKeys = TRUE
    Interrupts = FALSE
CHECK_DEADLOCK FALSE
PROPERTY AlwaysReturns
