SPECIFICATION Spec
CONSTANTS
    Sessions <- ForegroundSessions
    MaxConfigWrites = 0
    JobControlKeys = FALSE
    Interrupts = FALSE
CHECK_DEADLOCK FALSE
INVARIANT ForegroundForTheCall
