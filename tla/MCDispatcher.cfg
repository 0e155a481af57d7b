SPECIFICATION Spec
CONSTANTS
    Callers = {c1, c2}
    Self = self
    Tasks = {t1, t2, x1, s1, s2}
    SchedulerTasks = {s1, s2}
    Timed = {x1}
    LastTask = last
    NoTask = none
INVARIANTS TypeOK OneOwner NoLostWakeup
PROPERTIES ImplementsTaskQueue
CHECK_DEADLOCK FALSE
