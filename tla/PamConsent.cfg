SPECIFICATION Spec
CONSTANTS
    Sessions <- AllSessions
    MaxConfigWrites = 1
    JobControlKeys = TRUE
    Interrupts = TRUE
CHECK_DEADLOCK FALSE
INVARIANTS TypeOK ConsentBeforeCamera SuccessNeedsConsentAndMatch
PROPERTIES GaveUpIsFinal GuiLeavesTerminalAlone ConsentSpec
