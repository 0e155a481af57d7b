SPECIFICATION Spec
CONSTANTS
    Callers = {disp, net}
    Self = disp
    Events = {e1, e2}
    Cycles = {1, 2}
    MaxTime = 2
    MaxEventId = 2
INVARIANTS  StoppedNeverFires NeverEarly DispatcherReadsLiveEvent
PROPERTIES PendingFires
CHECK_DEADLOCK FALSE
