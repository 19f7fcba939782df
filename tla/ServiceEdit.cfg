SPECIFICATION Spec
CONSTANTS
    Helpers = {h1}
    AdminContents <- Contents
    MaxOps = 3
    MaxEdits = 1
    MaxLosses = 1
    NoInode = NoInode
    Missing = Missing
CHECK_DEADLOCK FALSE
INVARIANTS TypeOK NoLitter
PROPERTIES EnableIsEarned PasswordKeepsWorking ServiceFileSpec NeverHalfWritten
