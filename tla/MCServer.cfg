SPECIFICATION ServerSpec
CONSTANTS
    Packets = {}
    Events = {e1}
    Queries = {q1}
    Sigint = sigint
    GameShutdown = gameShutdown
    LastTask = last
    NoTask = none
    Disp = disp
    Sched = sched
    DbThread = db
    Main = main
    Cycles = {1}
    MaxTime = 1
    MaxEventId = 1
INVARIANTS NothingLostAtExit
PROPERTIES OnlySleepersBlockExit
CHECK_DEADLOCK FALSE
