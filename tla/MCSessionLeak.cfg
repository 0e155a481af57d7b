SPECIFICATION Spec
CONSTANTS
    Connections = {c1, c2}
    Names = {n1}
    Objects = {o1, o2}
    NoConnection = NoConnection
    NoObject = NoObject
    NoName = NoName
    Gone = Gone
    MaxTasks = 3
SYMMETRY SessionSymmetry
INVARIANT PlayerNotLeaked
CHECK_DEADLOCK FALSE
