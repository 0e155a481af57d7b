SPECIFICATION Spec
CONSTANTS
    Connections = {c1, c2, c3}
    Names = {n1}
    Objects = {o1, o2, o3}
    NoConnection = NoConnection
    NoObject = NoObject
    NoName = NoName
    Gone = Gone
    MaxTasks = 3
SYMMETRY SessionSymmetry
INVARIANTS TypeOK ReferencesExact ClientIsMutual NoClones AutosendForgets
CHECK_DEADLOCK FALSE
