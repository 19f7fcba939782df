SPECIFICATION Spec
CONSTANTS
    Helpers = {h1, h2}
    AdminContents <- Contents
    MaxOps = 2
    MaxEdits = 0
    MaxLosses = 0
    NoInode = NoInode
    Missing = Missing
CHECK_DEADLOCK FALSE
PROPERTY NeverHalfWritten
