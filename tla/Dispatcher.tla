----------------------------- MODULE Dispatcher -----------------------------
(***************************************************************************)
(* The dispatcher (src/tasks.cpp, src/tasks.h, src/thread_holder_base.h):  *)
(* the single thread that executes every game action.  Other threads hand  *)
(* it tasks through addTask, which appends to taskList under taskLock and  *)
(* signals the condition variable taskSignal, after unlocking, only when   *)
(* the list was empty.  The scheduler's tasks are pushed to the front.     *)
(* shutdown() appends a last task that sets the state to TERMINATED.       *)
(*                                                                         *)
(* Every critical section of taskLock is one step; what a thread does      *)
(* outside the lock (the state test of the loop, the notification, the     *)
(* execution of a task) is a step of its own.                              *)
(***************************************************************************)
EXTENDS Naturals, Sequences

CONSTANTS Callers,          \* the threads that call addTask from outside
          Self,             \* the dispatcher thread, as a caller of addTask
          Tasks,            \* the Task objects submitted through addTask
          SchedulerTasks,   \* those the scheduler submits, with push_front
          Timed,            \* those created with an expiration time
          LastTask,         \* the task that shutdown() creates
          NoTask            \* stands for "threadMain holds no task"

ASSUME DispatcherAssumption ==
    /\ Self \notin Callers
    /\ LastTask \notin Tasks
    /\ NoTask \notin Tasks \cup {LastTask}
    /\ SchedulerTasks \subseteq Tasks
    /\ Timed \subseteq Tasks
    /\ SchedulerTasks \cap Timed = {}     \* Scheduler calls setDontExpire

VARIABLES threadState,      \* ThreadHolder::threadState
          taskList,         \* Dispatcher::taskList
          pc,               \* where threadMain is
          task,             \* threadMain's local variable task
          signalling,       \* callers between unlock() and notify_one()
          fate              \* what became of each Task object

vars == <<threadState, taskList, pc, task, signalling, fate>>

ThreadState == {"RUNNING", "CLOSING", "TERMINATED"}

\* new: not submitted; queued: in taskList; taken: popped, not yet tested for
\* expiry; running: being executed; executed / expired: deleted by threadMain
\* after or without execution; rejected: deleted by addTask.
Fates == {"new", "queued", "taken", "running", "executed", "expired", "rejected"}

AllTasks == Tasks \cup {LastTask}

\* none: thread not created; loop: about to test the state; locking: about to
\* lock taskLock; waiting: in taskSignal.wait; woken: must lock again;
\* taken / running: holds a task; ended: threadMain returned.
PCs == {"none", "loop", "locking", "waiting", "woken", "taken", "running", "ended"}

-----------------------------------------------------------------------------

Init == /\ threadState = "TERMINATED"
        /\ taskList = <<>>
        /\ pc = "none"
        /\ task = NoTask
        /\ signalling = {}
        /\ fate = [t \in AllTasks |-> "new"]

\* taskSignal.notify_one() wakes the only thread that ever waits.
WakeWaiting == IF pc = "waiting" THEN "woken" ELSE pc

\* A thread can start a call when it is not inside one; the dispatcher thread
\* makes calls only from the task it executes.
CanCall(c) == /\ pc # "none"
              /\ c \notin signalling
              /\ c = Self => pc = "running"

Accepting == threadState = "RUNNING"

Mut_Pushed(t) == Append(taskList, t)

Pushed(t) == IF t \in SchedulerTasks THEN <<t>> \o taskList ELSE Append(taskList, t)

Mut_SignalNeeded == Len(taskList) = 1

SignalNeeded == taskList = <<>>

\* addTask: the part under taskLock.
AddTask(c, t) ==
    /\ CanCall(c)
    /\ fate[t] = "new"
    /\ IF Accepting
         THEN /\ taskList' = Pushed(t)
              /\ signalling' = IF SignalNeeded THEN signalling \cup {c} ELSE signalling
              /\ fate' = [fate EXCEPT ![t] = "queued"]
         ELSE /\ fate' = [fate EXCEPT ![t] = "rejected"]
              /\ UNCHANGED <<taskList, signalling>>
    /\ UNCHANGED <<threadState, pc, task>>

\* addTask: the notification after unlock().
NotifyOne(c) ==
    /\ c \in signalling
    /\ signalling' = signalling \ {c}
    /\ pc' = WakeWaiting
    /\ UNCHANGED <<threadState, taskList, task, fate>>

\* ThreadHolder::start, called once by main().
Start ==
    /\ pc = "none"
    /\ threadState' = "RUNNING"
    /\ pc' = "loop"
    /\ UNCHANGED <<taskList, task, signalling, fate>>

\* ThreadHolder::stop, called by Game::setGameState inside a task, before the
\* task that calls shutdown() runs.
Stop ==
    /\ pc = "running"
    /\ fate[LastTask] = "new"
    /\ threadState' = "CLOSING"
    /\ UNCHANGED <<taskList, pc, task, signalling, fate>>

WithLastTask == Append(taskList, LastTask)

\* Dispatcher::shutdown, whatever the state is: called by Game::shutdown inside
\* a task, or by main() when no service could be started.
Shutdown(c) ==
    /\ CanCall(c)
    /\ fate[LastTask] = "new"
    /\ taskList' = WithLastTask
    /\ fate' = [fate EXCEPT ![LastTask] = "queued"]
    /\ pc' = WakeWaiting
    /\ UNCHANGED <<threadState, task, signalling>>

-----------------------------------------------------------------------------
(* threadMain *)

\* The loop condition, evaluated without taskLock.
TestState ==
    /\ pc = "loop"
    /\ pc' = IF threadState = "TERMINATED" THEN "ended" ELSE "locking"
    /\ UNCHANGED <<threadState, taskList, task, signalling, fate>>

Wait ==
    /\ pc = "locking"
    /\ taskList = <<>>
    /\ pc' = "waiting"
    /\ UNCHANGED <<threadState, taskList, task, signalling, fate>>

\* A condition variable may wake up without having been notified.
SpuriousWakeup ==
    /\ pc = "waiting"
    /\ pc' = "woken"
    /\ UNCHANGED <<threadState, taskList, task, signalling, fate>>

NothingToTake ==
    /\ pc = "woken"
    /\ taskList = <<>>
    /\ pc' = "loop"
    /\ UNCHANGED <<threadState, taskList, task, signalling, fate>>

Mut_PopFront == taskList

PopFront == Tail(taskList)

TakeTask ==
    /\ pc \in {"locking", "woken"}
    /\ taskList # <<>>
    /\ task' = Head(taskList)
    /\ taskList' = PopFront
    /\ fate' = [fate EXCEPT ![Head(taskList)] = "taken"]
    /\ pc' = "taken"
    /\ UNCHANGED <<threadState, signalling>>

Mut_AfterDelete == task

\* delete task: the pointer is gone with the scope that held it.
AfterDelete == NoTask

DeleteExpired ==
    /\ pc = "taken"
    /\ task \in Timed
    /\ fate' = [fate EXCEPT ![task] = "expired"]
    /\ task' = AfterDelete
    /\ pc' = "loop"
    /\ UNCHANGED <<threadState, taskList, signalling>>

\* The task shutdown() created sets the state; its own notify_one() reaches
\* nobody, the only thread that waits being the one that runs it.
BeginTask ==
    /\ pc = "taken"
    /\ fate' = [fate EXCEPT ![task] = "running"]
    /\ threadState' = IF task = LastTask THEN "TERMINATED" ELSE threadState
    /\ pc' = "running"
    /\ UNCHANGED <<taskList, task, signalling>>

FinishTask ==
    /\ pc = "running"
    /\ Self \notin signalling
    /\ fate' = [fate EXCEPT ![task] = "executed"]
    /\ task' = AfterDelete
    /\ pc' = "loop"
    /\ UNCHANGED <<threadState, taskList, signalling>>

-----------------------------------------------------------------------------

\* The steps the dispatcher thread takes by itself.
ThreadMain == TestState \/ Wait \/ NothingToTake \/ TakeTask \/ DeleteExpired
                \/ BeginTask \/ FinishTask

Next ==
    \/ Start
    \/ Stop
    \/ SpuriousWakeup
    \/ ThreadMain
    \/ \E c \in Callers \cup {Self} :
         \/ NotifyOne(c)
         \/ Shutdown(c)
         \/ \E t \in Tasks : AddTask(c, t)

\* The operating system runs the thread, tasks return, and a caller that
\* unlocked gets to its notification.  Nothing is assumed of spurious wakeups
\* nor of what callers choose to do.
Fairness == /\ WF_vars(ThreadMain)
            /\ \A c \in Callers \cup {Self} : WF_vars(NotifyOne(c))

Spec == Init /\ [][Next]_vars /\ Fairness

-----------------------------------------------------------------------------
(* Properties *)

HoldsTask == pc \in {"taken", "running"}

\* Every variable has its type, and threadMain holds a task exactly from the
\* moment it popped it until it deleted it.
TypeOK ==
    /\ threadState \in ThreadState
    /\ taskList \in Seq(AllTasks)
    /\ pc \in PCs
    /\ task \in IF HoldsTask THEN AllTasks ELSE {NoTask}
    /\ signalling \subseteq Callers \cup {Self}
    /\ fate \in [AllTasks -> Fates]

Listed == {taskList[i] : i \in DOMAIN taskList}

\* A Task object has one owner at a time, so it is executed at most once and
\* deleted exactly once: it is in taskList, in one place, exactly while it is
\* queued, and it is threadMain's task exactly while it is taken or running.
OneOwner ==
    /\ \A i, j \in DOMAIN taskList : taskList[i] = taskList[j] => i = j
    /\ \A t \in AllTasks :
         /\ fate[t] = "queued" <=> t \in Listed
         /\ fate[t] \in {"taken", "running"} <=> t = task

\* addTask signals only when the list was empty, and after releasing the lock;
\* even so the thread never sleeps on a non-empty list unless some caller is
\* still to notify it (src/tasks.cpp, addTask against threadMain).
NoLostWakeup == pc = "waiting" /\ taskList # <<>> => signalling # {}

\* Tasks pushed to the front by the scheduler are never behind other tasks.
SchedulerTasksFirst ==
    \A i, j \in DOMAIN taskList :
        i < j /\ taskList[j] \in SchedulerTasks => taskList[i] \in SchedulerTasks

\* When stop() came before shutdown(), no accepted task is left in the list
\* when the thread terminates: none is lost and none is leaked.
DrainedWhenClosed ==
    [][threadState = "CLOSING" /\ threadState' = "TERMINATED" => taskList' = <<>>]_vars

\* The scheduler's tasks at the front of a list of tasks are its first k.
UrgentPrefix(list, k) == /\ k \in 0 .. Len(list)
                         /\ \A i \in 1 .. k : list[i] \in SchedulerTasks
                         /\ k < Len(list) => list[k + 1] \notin SchedulerTasks

UrgentCount(list) == CHOOSE k \in 0 .. Len(list) : UrgentPrefix(list, k)

\* What the variables of the abstract queue are here.
Urgent == SubSeq(taskList, 1, UrgentCount(taskList))
Ordinary == SubSeq(taskList, UrgentCount(taskList) + 1, Len(taskList))
Served == {t \in AllTasks : fate[t] \notin {"new", "rejected", "queued"}}
Phase == CASE pc = "none"                               -> "idle"
           [] pc # "none" /\ threadState = "RUNNING"    -> "open"
           [] pc # "none" /\ threadState = "CLOSING"    -> "closing"
           [] pc # "none" /\ threadState = "TERMINATED" -> "over"

\* The abstract queue the dispatcher implements.
Queue == INSTANCE TaskQueue WITH
            Items <- Tasks,
            UrgentItems <- SchedulerTasks,
            Final <- LastTask,
            urgent <- Urgent,
            ordinary <- Ordinary,
            served <- Served,
            phase <- Phase

\* The dispatcher implements TaskQueue: order of service, at-most-once service,
\* nothing left behind after an orderly closing, everything eventually served.
ImplementsTaskQueue == Queue!QueueSpec

=============================================================================
