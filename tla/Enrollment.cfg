SPECIFICATION FairSpec
CONSTANTS
    None = None
    Procs = {p1, p2}
    Models = {sface, other}
    Modes = {ir}
    Devices = {cam}
    Frames <- FewFrames
    MaxAttempts = 2
    MaxOps = 3
    MaxConfigs = 1
CHECK_DEADLOCK FALSE
INVARIANTS TypeOK NoMixedTemplates StatusAgreesWithLogin
PROPERTIES DeletedMeansGone RecognitionSpec EveryCommandEnds
