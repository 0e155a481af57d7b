--------------------------- MODULE DatabaseTasks ----------------------------
(***************************************************************************)
(* The asynchronous database queue (src/databasetasks.cpp): queries are    *)
(* appended by the dispatcher and by network threads and executed by a     *)
(* thread of their own, one at a time, each followed by its callback,      *)
(* which is posted to the dispatcher.  flush(), called by the dispatcher   *)
(* thread when the game is saved and by shutdown(), executes the queued    *)
(* queries itself, concurrently with the thread.                           *)
(***************************************************************************)
EXTENDS Naturals, Sequences

CONSTANTS Callers,        \* threads that call addTask, the dispatcher's among them
          Self,           \* the dispatcher thread, which also calls flush
          Tasks,          \* the queries
          WithCallback    \* those that were given a callback

ASSUME DatabaseTasksAssumption == Self \in Callers /\ WithCallback \subseteq Tasks

VARIABLES threadState,    \* ThreadHolder::threadState
          tasks,          \* DatabaseTasks::tasks
          pc,             \* where threadMain is
          flushAt,        \* where the dispatcher thread is in flush or shutdown
          inShutdown,     \* the flush was called by shutdown
          held,           \* the task each of the two executors has taken
          signalling,     \* callers between unlock() and notify_one()
          dispatcherOpen, \* the dispatcher accepts callbacks
          accepted,       \* the tasks that addTask accepted, in that order
          executed,       \* the tasks whose query was executed, in that order
          called          \* the tasks whose callback was posted

vars == <<threadState, tasks, pc, flushAt, inShutdown, held, signalling, dispatcherOpen,
          accepted, executed, called>>

Executors == {"thread", "flush"}

PCs == {"none", "loop", "locking", "waiting", "woken", "querying", "posting", "ended"}

FlushPCs == {"idle", "popping", "querying", "posting", "notifying", "over"}

Elements(s) == {s[i] : i \in DOMAIN s}

-----------------------------------------------------------------------------

Init ==
    /\ threadState = "TERMINATED"
    /\ tasks = <<>>
    /\ pc = "none"
    /\ flushAt = "idle"
    /\ inShutdown = FALSE
    /\ held = [x \in Executors |-> {}]
    /\ signalling = {}
    /\ dispatcherOpen = TRUE
    /\ accepted = <<>>
    /\ executed = <<>>
    /\ called = {}

\* start(): connects, then starts the thread.
Start ==
    /\ pc = "none"
    /\ flushAt = "idle"
    /\ threadState' = "RUNNING"
    /\ pc' = "loop"
    /\ UNCHANGED <<tasks, flushAt, inShutdown, held, signalling, dispatcherOpen, accepted,
                   executed, called>>

WakeWaiting == IF pc = "waiting" THEN "woken" ELSE pc

\* flush runs on the dispatcher thread, which calls nothing else meanwhile.
CanCall(c) == c \notin signalling /\ (c = Self => flushAt = "idle")

Accepting == threadState = "RUNNING"

SignalNeeded == tasks = <<>>

Mut_PushBack(t) == <<t>> \o tasks

PushBack(t) == Append(tasks, t)

\* addTask under taskLock; a query that is not accepted is silently dropped.
AddTask(c, t) ==
    /\ CanCall(c)
    /\ t \notin Elements(accepted)
    /\ Accepting
    /\ tasks' = PushBack(t)
    /\ accepted' = Append(accepted, t)
    /\ signalling' = IF SignalNeeded THEN signalling \cup {c} ELSE signalling
    /\ UNCHANGED <<threadState, pc, flushAt, inShutdown, held, dispatcherOpen, executed, called>>

NotifyOne(c) ==
    /\ c \in signalling
    /\ signalling' = signalling \ {c}
    /\ pc' = WakeWaiting
    /\ UNCHANGED <<threadState, tasks, flushAt, inShutdown, held, dispatcherOpen, accepted,
                   executed, called>>

-----------------------------------------------------------------------------
(* threadMain *)

TestState ==
    /\ pc = "loop"
    /\ pc' = IF threadState = "TERMINATED" THEN "ended" ELSE "locking"
    /\ UNCHANGED <<threadState, tasks, flushAt, inShutdown, held, signalling, dispatcherOpen,
                   accepted, executed, called>>

Wait ==
    /\ pc = "locking"
    /\ tasks = <<>>
    /\ pc' = "waiting"
    /\ UNCHANGED <<threadState, tasks, flushAt, inShutdown, held, signalling, dispatcherOpen,
                   accepted, executed, called>>

SpuriousWakeup ==
    /\ pc = "waiting"
    /\ pc' = "woken"
    /\ UNCHANGED <<threadState, tasks, flushAt, inShutdown, held, signalling, dispatcherOpen,
                   accepted, executed, called>>

NothingToTake ==
    /\ pc = "woken"
    /\ tasks = <<>>
    /\ pc' = "loop"
    /\ UNCHANGED <<threadState, tasks, flushAt, inShutdown, held, signalling, dispatcherOpen,
                   accepted, executed, called>>

Mut_PopFront == tasks

PopFront == Tail(tasks)

\* Under taskLock an executor takes the first task of the list.
Pop(x) ==
    /\ tasks # <<>>
    /\ held' = [held EXCEPT ![x] = {Head(tasks)}]
    /\ tasks' = PopFront
    /\ UNCHANGED <<threadState, inShutdown, signalling, dispatcherOpen, accepted, executed, called>>

TakeTask ==
    /\ pc \in {"locking", "woken"}
    /\ Pop("thread")
    /\ pc' = "querying"
    /\ UNCHANGED flushAt

\* runTask: the query, executed under the lock of the database connection ...
Query(x) ==
    /\ \E t \in held[x] : executed' = Append(executed, t)
    /\ UNCHANGED <<threadState, tasks, inShutdown, held, signalling, dispatcherOpen, accepted,
                   called>>

Released(x) == {}

\* ... then the callback, posted to the dispatcher if it still accepts tasks.
Post(x) ==
    /\ called' = called \cup IF dispatcherOpen THEN held[x] \cap WithCallback ELSE {}
    /\ held' = [held EXCEPT ![x] = Released(x)]
    /\ UNCHANGED <<threadState, tasks, inShutdown, signalling, dispatcherOpen, accepted, executed>>

ThreadQuery == pc = "querying" /\ pc' = "posting" /\ Query("thread") /\ UNCHANGED flushAt

ThreadPost == pc = "posting" /\ pc' = "loop" /\ Post("thread") /\ UNCHANGED flushAt

-----------------------------------------------------------------------------
(* The dispatcher thread: flush, stop and shutdown *)

\* Game::saveGameState calls flush().
Flush ==
    /\ flushAt = "idle"
    /\ Self \notin signalling
    /\ flushAt' = "popping"
    /\ UNCHANGED <<threadState, tasks, pc, inShutdown, held, signalling, dispatcherOpen,
                   accepted, executed, called>>

FlushPop == flushAt = "popping" /\ flushAt' = "querying" /\ Pop("flush") /\ UNCHANGED pc

FlushQuery == flushAt = "querying" /\ flushAt' = "posting" /\ Query("flush") /\ UNCHANGED pc

FlushPost == flushAt = "posting" /\ flushAt' = "popping" /\ Post("flush") /\ UNCHANGED pc

Mut_FlushDone == TRUE

FlushDone == tasks = <<>>

FlushEnd ==
    /\ flushAt = "popping"
    /\ FlushDone
    /\ flushAt' = IF inShutdown THEN "notifying" ELSE "idle"
    /\ UNCHANGED <<threadState, tasks, pc, inShutdown, held, signalling, dispatcherOpen,
                   accepted, executed, called>>

\* Game::setGameState(GAME_STATE_SHUTDOWN): g_databaseTasks.stop(), and then
\* g_dispatcher.stop().
Stop ==
    /\ flushAt = "idle"
    /\ Self \notin signalling
    /\ threadState = "RUNNING"
    /\ threadState' = "CLOSING"
    /\ UNCHANGED <<tasks, pc, flushAt, inShutdown, held, signalling, dispatcherOpen, accepted,
                   executed, called>>

CloseDispatcher ==
    /\ threadState = "CLOSING"
    /\ dispatcherOpen
    /\ dispatcherOpen' = FALSE
    /\ UNCHANGED <<threadState, tasks, pc, flushAt, inShutdown, held, signalling, accepted,
                   executed, called>>

\* shutdown(): the state is set under taskLock, then everything is flushed ...
Shutdown ==
    /\ flushAt = "idle"
    /\ Self \notin signalling
    /\ threadState' = "TERMINATED"
    /\ inShutdown' = TRUE
    /\ flushAt' = "popping"
    /\ UNCHANGED <<tasks, pc, held, signalling, dispatcherOpen, accepted, executed, called>>

\* ... and at last the thread is notified.
ShutdownNotify ==
    /\ flushAt = "notifying"
    /\ flushAt' = "over"
    /\ pc' = WakeWaiting
    /\ UNCHANGED <<threadState, tasks, inShutdown, held, signalling, dispatcherOpen, accepted,
                   executed, called>>

-----------------------------------------------------------------------------

ThreadMain == TestState \/ Wait \/ NothingToTake \/ TakeTask \/ ThreadQuery \/ ThreadPost

FlushMain == FlushPop \/ FlushQuery \/ FlushPost \/ FlushEnd \/ ShutdownNotify

Next ==
    \/ Start \/ Stop \/ CloseDispatcher \/ Shutdown \/ Flush
    \/ SpuriousWakeup
    \/ ThreadMain
    \/ FlushMain
    \/ \E c \in Callers : NotifyOne(c) \/ \E t \in Tasks : AddTask(c, t)

\* Threads run and queries return; whether anything is submitted, flushed or
\* shut down is the environment's choice.
Fairness ==
    /\ WF_vars(ThreadMain)
    /\ WF_vars(FlushMain)
    /\ \A c \in Callers : WF_vars(NotifyOne(c))

Spec == Init /\ [][Next]_vars /\ Fairness

-----------------------------------------------------------------------------
(* Properties *)

\* Every variable has its type, and an executor holds a task exactly from the
\* moment it took it until runTask returned.
TypeOK ==
    /\ threadState \in {"RUNNING", "CLOSING", "TERMINATED"}
    /\ tasks \in Seq(Tasks)
    /\ pc \in PCs
    /\ flushAt \in FlushPCs
    /\ inShutdown \in BOOLEAN
    /\ held \in [Executors -> SUBSET Tasks]
    /\ held["thread"] # {} <=> pc \in {"querying", "posting"}
    /\ held["flush"] # {} <=> flushAt \in {"querying", "posting"}
    /\ signalling \subseteq Callers
    /\ dispatcherOpen \in BOOLEAN
    /\ accepted \in Seq(Tasks)
    /\ executed \in Seq(Tasks)
    /\ called \subseteq Tasks

\* A task held by an executor that has not executed its query yet.
Taken(x) == IF (x = "thread" /\ pc = "querying") \/ (x = "flush" /\ flushAt = "querying")
            THEN held[x] ELSE {}

\* Although two threads take tasks from the list, every accepted query is in
\* one place: waiting in the list, taken by one executor, or executed; it is
\* never executed twice.
ExactlyOnce ==
    /\ Elements(accepted) =
         Elements(tasks) \cup Taken("thread") \cup Taken("flush") \cup Elements(executed)
    /\ Len(executed) = Len(accepted) - Len(tasks)
         - (IF Taken("thread") = {} THEN 0 ELSE 1) - (IF Taken("flush") = {} THEN 0 ELSE 1)

Before(t, u) == \E i, j \in DOMAIN accepted : i < j /\ accepted[i] = t /\ accepted[j] = u

\* Queries are executed in the order of their submission, except that flush()
\* can overtake the one query that the thread has taken, and the other way
\* round: a query executed before an earlier one finds it in the hands of the
\* other executor.
OvertakesOnlyTaken ==
    [][\A u \in Elements(executed') \ Elements(executed) : \A t \in Elements(accepted) :
          Before(t, u) /\ t \notin Elements(executed) =>
              t \in Taken("thread") \cup Taken("flush")]_vars

\* Every accepted query is executed, also when the server is shut down first.
AcceptedIsExecuted ==
    \A t \in Tasks : t \in Elements(accepted) ~> t \in Elements(executed)

=============================================================================
