SPECIFICATION Spec
CONSTANTS
    Helpers = {h1}
    AdminContents <- Contents
    MaxOps = 1
    MaxEdits = 1
    MaxLosses = 0
    NoInode = NoInode
    Missing = Missing
CHECK_DEADLOCK FALSE
PROPERTY HandEditLeftAlone
