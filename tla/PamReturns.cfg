SPECIFICATION FairSpec
CONSTANTS
    Sessions <- AllSessions
    MaxConfigWrites = 1
    JobControlKeys = FALSE
    Interrupts = FALSE
CHECK_DEADLOCK FALSE
INVARIANTS NothingLeftBehind TerminalGivenBack
PROPERTY AlwaysReturns
