------------------------------- MODULE Server -------------------------------
(***************************************************************************)
(* The server's threads together: main() (src/otserv.cpp), which runs the  *)
(* network and signal handlers; the dispatcher, the scheduler and the      *)
(* database threads; and the tasks of an orderly shutdown, from SIGINT     *)
(* (src/signals.cpp) through Game::setGameState and Game::shutdown         *)
(* (src/game.cpp) to the joins of main().                                  *)
(*                                                                         *)
(* The three queues are the modules Dispatcher, Scheduler and              *)
(* DatabaseTasks.  A step that belongs to two of them, such as the         *)
(* scheduler handing an event to the dispatcher, is the conjunction of the *)
(* two actions; what a queue leaves to its environment is decided here.    *)
(***************************************************************************)
EXTENDS Integers, Sequences, FiniteSets

CONSTANTS Packets,        \* tasks that execute a player's request
          Events,         \* scheduler events
          Queries,        \* database queries; in the dispatcher's list a query
                          \* stands for the task that calls its callback
          Sigint,         \* the task of Signals::sigintHandler
          GameShutdown,   \* the task of Game::shutdown
          LastTask, NoTask,
          Disp, Sched, DbThread, Main,   \* the threads, as callers of each other
          Cycles, MaxTime, MaxEventId

DispatcherTasks == {Sigint, GameShutdown} \cup Packets \cup Events \cup Queries

\* The task that ends the dispatcher is none of the others, and no task is the null pointer.
ASSUME ServerAssumption ==
    /\ LastTask \notin DispatcherTasks
    /\ NoTask \notin DispatcherTasks \cup {LastTask}

VARIABLES dState, dList, dpc, dTask, dSignalling, dFate,
          sState, sList, sIds, sLastId, sId, sCycle, spc, sDeadline, sTask, sCall,
          sShutdownAt, now, sFate, sStopped,
          bState, bTasks, bpc, bFlushAt, bInShutdown, bHeld, bSignalling, bAccepted,
          bExecuted, bCalled,
          servicesStopped,   \* ServiceManager::stop was called
          mainAt             \* where main() is

dVars == <<dState, dList, dpc, dTask, dSignalling, dFate>>
sVars == <<sState, sList, sIds, sLastId, sId, sCycle, spc, sDeadline, sTask, sCall,
           sShutdownAt, now, sFate, sStopped>>
bVars == <<bState, bTasks, bpc, bFlushAt, bInShutdown, bHeld, bSignalling, bAccepted,
           bExecuted, bCalled>>
mainVars == <<servicesStopped, mainAt>>
serverVars == <<dVars, sVars, bVars, mainVars>>

D == INSTANCE Dispatcher WITH
        Callers <- {Sched, DbThread, Main}, Self <- Disp, Tasks <- DispatcherTasks,
        SchedulerTasks <- Events, Timed <- {},
        threadState <- dState, taskList <- dList, pc <- dpc, task <- dTask,
        signalling <- dSignalling, fate <- dFate

S == INSTANCE Scheduler WITH
        Callers <- {Disp}, Self <- Disp,
        threadState <- sState, eventList <- sList, eventIds <- sIds,
        lastEventId <- sLastId, eventId <- sId, cycle <- sCycle, pc <- spc,
        deadline <- sDeadline, task <- sTask, call <- sCall, shutdownAt <- sShutdownAt,
        dispatcherOpen <- (dState = "RUNNING"), fate <- sFate, stopped <- sStopped

B == INSTANCE DatabaseTasks WITH
        Callers <- {Disp, Main}, Self <- Disp, Tasks <- Queries, WithCallback <- Queries,
        threadState <- bState, tasks <- bTasks, pc <- bpc, flushAt <- bFlushAt,
        inShutdown <- bInShutdown, held <- bHeld, signalling <- bSignalling,
        dispatcherOpen <- (dState = "RUNNING"), accepted <- bAccepted,
        executed <- bExecuted, called <- bCalled

-----------------------------------------------------------------------------

\* All services are up: main() is in ServiceManager::run and every thread is at
\* the head of its loop.
ServerInit ==
    /\ dState = "RUNNING" /\ dList = <<>> /\ dpc = "loop" /\ dTask = NoTask
    /\ dSignalling = {} /\ dFate = [t \in DispatcherTasks \cup {LastTask} |-> "new"]
    /\ sState = "RUNNING" /\ sList = {} /\ sIds = {} /\ sLastId = 0
    /\ sId = [e \in Events |-> 0] /\ sCycle = [e \in Events |-> 0] /\ spc = "loop"
    /\ sDeadline = MaxTime + 1 /\ sTask = {}
    /\ sCall = [c \in {Disp} |-> [step |-> "idle", event |-> {}]]
    /\ sShutdownAt = "no" /\ now = 0 /\ sFate = [e \in Events |-> "new"] /\ sStopped = {}
    /\ bState = "RUNNING" /\ bTasks = <<>> /\ bpc = "loop" /\ bFlushAt = "idle"
    /\ bInShutdown = FALSE /\ bHeld = [x \in {"thread", "flush"} |-> {}]
    /\ bSignalling = {} /\ bAccepted = <<>> /\ bExecuted = <<>> /\ bCalled = {}
    /\ servicesStopped = FALSE /\ mainAt = "run"

-----------------------------------------------------------------------------
(* The code that the dispatcher thread executes inside a task *)

Running(t) == dpc = "running" /\ dTask = t

\* The task is not inside a call to one of the queues.
NotInCall ==
    /\ sCall[Disp] = S!Idle
    /\ Disp \notin bSignalling \cup dSignalling
    /\ bFlushAt \in {"idle", "over"}

\* Game code: a request, an event, a callback, or what setGameState does before
\* it posts Game::shutdown.  It may add and stop events, submit queries and
\* save the game.
Play ==
    /\ dpc = "running"
    /\ dTask \notin {LastTask, GameShutdown}
    /\ dFate[GameShutdown] = "new"
    /\ NotInCall
    /\ UNCHANGED <<dVars, mainVars>>
    /\ \/ UNCHANGED bVars /\ \E e \in Events, at \in Cycles : S!AddEvent(Disp, e, at)
       \/ UNCHANGED bVars /\ \E e \in Events : S!StopEvent(e)
       \/ UNCHANGED sVars /\ \E q \in Queries : B!AddTask(Disp, q)
       \/ UNCHANGED sVars /\ B!Flush

\* The remaining steps of such a call.
ContinueCall ==
    \/ /\ UNCHANGED <<dVars, bVars, mainVars>>
       /\ S!NotifyOne(Disp) \/ S!ReadEventId(Disp)
    \/ /\ UNCHANGED <<dVars, sVars, mainVars>>
       /\ B!NotifyOne(Disp) \/ B!FlushPop \/ B!FlushQuery \/ B!FlushEnd
    \/ /\ \E q \in bHeld["flush"] : D!AddTask(Disp, q)
       /\ B!FlushPost
       /\ UNCHANGED <<sVars, mainVars>>
    \/ /\ D!NotifyOne(Disp)
       /\ UNCHANGED <<sVars, bVars, mainVars>>

\* Game::setGameState(GAME_STATE_SHUTDOWN): post Game::shutdown, then stop the
\* scheduler, the database tasks and the dispatcher, in this order.
PostGameShutdown ==
    /\ Running(Sigint)
    /\ NotInCall
    /\ D!AddTask(Disp, GameShutdown)
    /\ UNCHANGED <<sVars, bVars, mainVars>>

StopScheduler ==
    /\ Running(Sigint)
    /\ dFate[GameShutdown] # "new"
    /\ NotInCall
    /\ UNCHANGED <<dVars, bVars, mainVars>>
    /\ S!Stop

StopDatabaseTasks ==
    /\ sState = "CLOSING"
    /\ UNCHANGED <<dVars, sVars, mainVars>>
    /\ B!Stop

StopDispatcher ==
    /\ bState = "CLOSING"
    /\ D!Stop /\ S!CloseDispatcher /\ B!CloseDispatcher
    /\ UNCHANGED mainVars

\* Game::shutdown: the three queues again, then the network services.
ShutdownScheduler ==
    /\ Running(GameShutdown)
    /\ UNCHANGED <<dVars, bVars, mainVars>>
    /\ S!ShutdownState \/ S!ShutdownClear \/ S!ShutdownNotify

ShutdownDatabaseTasks ==
    /\ Running(GameShutdown)
    /\ sShutdownAt = "done"
    /\ UNCHANGED <<dVars, sVars, mainVars>>
    /\ B!Shutdown \/ B!ShutdownNotify

ShutdownDispatcher ==
    /\ Running(GameShutdown)
    /\ bFlushAt = "over"
    /\ D!Shutdown(Disp)
    /\ UNCHANGED <<sVars, bVars, mainVars>>

StopServices ==
    /\ Running(GameShutdown)
    /\ dFate[LastTask] # "new"
    /\ ~servicesStopped
    /\ servicesStopped' = TRUE
    /\ UNCHANGED <<dVars, sVars, bVars, mainAt>>

ShutdownSteps == \/ PostGameShutdown \/ StopScheduler \/ StopDatabaseTasks \/ StopDispatcher
                 \/ ShutdownScheduler \/ ShutdownDatabaseTasks \/ ShutdownDispatcher
                 \/ StopServices

\* The two tasks of the shutdown end when all their statements were executed.
AtEndOfTask == /\ NotInCall
               /\ dTask = Sigint => dState = "CLOSING"
               /\ dTask = GameShutdown => servicesStopped

-----------------------------------------------------------------------------
(* The threads *)

DispatcherLoop ==
    /\ UNCHANGED <<bVars, mainVars>>
    /\ \/ /\ D!TestState \/ D!Wait \/ D!NothingToTake \/ D!TakeTask \/ D!BeginTask
          /\ UNCHANGED sVars
       \/ /\ D!FinishTask
          /\ AtEndOfTask
          /\ IF dTask \in Events THEN S!ExecuteEvent(dTask) ELSE UNCHANGED sVars

SchedulerThread ==
    /\ UNCHANGED <<bVars, mainVars>>
    /\ \/ /\ UNCHANGED dVars
          /\ \/ S!TestState /\ Sched \notin dSignalling
             \/ S!Wait \/ S!Timeout \/ S!PopEvent \/ S!NoTimeout
       \/ /\ \E e \in sTask : D!AddTask(Sched, e)
          /\ S!HandOver
       \/ D!NotifyOne(Sched) /\ UNCHANGED sVars

DatabaseThread ==
    /\ UNCHANGED <<sVars, mainVars>>
    /\ \/ /\ UNCHANGED dVars
          /\ \/ B!TestState /\ DbThread \notin dSignalling
             \/ B!Wait \/ B!NothingToTake \/ B!TakeTask \/ B!ThreadQuery
       \/ /\ \E q \in bHeld["thread"] : D!AddTask(DbThread, q)
          /\ B!ThreadPost
       \/ D!NotifyOne(DbThread) /\ UNCHANGED bVars

\* main() inside ServiceManager::run: packets, the ban lookups of new
\* connections, and the signal.
NetworkInput ==
    /\ mainAt = "run"
    /\ UNCHANGED <<sVars, mainVars>>
    /\ \/ UNCHANGED bVars /\ \E t \in Packets \cup {Sigint} : D!AddTask(Main, t)
       \/ /\ Main \notin dSignalling
          /\ UNCHANGED dVars
          /\ \E q \in Queries : B!AddTask(Main, q)

NetworkNotify ==
    /\ UNCHANGED <<sVars, mainVars>>
    /\ \/ D!NotifyOne(Main) /\ UNCHANGED bVars
       \/ UNCHANGED dVars /\ B!NotifyOne(Main)

\* The death timer of ServiceManager::stop ends run(); then main() joins the
\* threads and returns.
MainLeavesRun ==
    /\ mainAt = "run"
    /\ servicesStopped
    /\ Main \notin dSignalling \cup bSignalling
    /\ mainAt' = "joinScheduler"

MainJoins ==
    \/ mainAt = "joinScheduler" /\ spc = "ended" /\ mainAt' = "joinDatabaseTasks"
    \/ mainAt = "joinDatabaseTasks" /\ bpc = "ended" /\ mainAt' = "joinDispatcher"
    \/ mainAt = "joinDispatcher" /\ dpc = "ended" /\ mainAt' = "returned"

MainThread ==
    \/ NetworkNotify
    \/ (MainLeavesRun \/ MainJoins) /\ UNCHANGED <<dVars, sVars, bVars, servicesStopped>>

SpuriousWakeups ==
    /\ UNCHANGED mainVars
    /\ \/ D!SpuriousWakeup /\ UNCHANGED <<sVars, bVars>>
       \/ UNCHANGED <<dVars, bVars>> /\ S!SpuriousWakeup
       \/ UNCHANGED <<dVars, sVars>> /\ B!SpuriousWakeup

Tick == UNCHANGED <<dVars, bVars, mainVars>> /\ S!Tick

ServerNext ==
    \/ Play \/ NetworkInput \/ SpuriousWakeups \/ Tick
    \/ DispatcherLoop \/ ContinueCall \/ ShutdownSteps
    \/ SchedulerThread \/ DatabaseThread \/ MainThread

\* Every thread runs and time passes.  Strong fairness says that a task is a
\* finite program: it does not go on calling the queues for ever, but comes to
\* its next statement and to its end.
ServerFairness ==
    /\ SF_serverVars(DispatcherLoop) /\ SF_serverVars(ShutdownSteps)
    /\ WF_serverVars(ContinueCall) /\ WF_serverVars(SchedulerThread)
    /\ WF_serverVars(DatabaseThread) /\ WF_serverVars(MainThread) /\ WF_serverVars(Tick)

ServerSpec == ServerInit /\ [][ServerNext]_serverVars /\ ServerFairness

-----------------------------------------------------------------------------
(* Properties *)

\* When the process exits, every thread has ended and every accepted query has
\* been executed.
NothingLostAtExit ==
    mainAt = "returned" =>
        /\ dpc = "ended" /\ spc = "ended" /\ bpc = "ended"
        /\ B!Elements(bExecuted) = B!Elements(bAccepted)

\* "SIGINT: Shuts the server down" (src/signals.cpp).  The only way not to return is to be waiting for a scheduler or a database
\* thread that sleeps on its condition variable.
OnlySleepersBlockExit ==
    dFate[Sigint] = "queued" ~>
        \/ mainAt = "returned"
        \/ mainAt = "joinScheduler" /\ spc = "waiting" /\ sList = {}
        \/ mainAt = "joinDatabaseTasks" /\ bpc = "waiting" /\ bTasks = <<>>

=============================================================================
