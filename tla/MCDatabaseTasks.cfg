SPECIFICATION Spec
CONSTANTS
    Callers = {disp, net}
    Self = disp
    Tasks = {q1, q2, q3}
    WithCallback = {q1, q2}
INVARIANTS ExactlyOnce
PROPERTIES OvertakesOnlyTaken AcceptedIsExecuted
CHECK_DEADLOCK FALSE
