SPECIFICATION Spec
CONSTANTS
    MaxVersion = 2
    MaxLosses = 2
    MaxRefusals = 3
INVARIANTS StoredIsWhole UncommittedIsLocked
PROPERTY LockIsReleased
CHECK_DEADLOCK FALSE
