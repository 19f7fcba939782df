SPECIFICATION Spec
CONSTANTS
    None = None
    Procs = {p1}
    Models = {sface, other}
    Modes = {ir, rgb}
    Devices = {cam}
    Frames <- FewFrames
    MaxAttempts = 1
    MaxOps = 2
    MaxConfigs = 1
CHECK_DEADLOCK FALSE
PROPERTY NeverComparedMismatched
