----------------------------- MODULE Scheduler ------------------------------
(***************************************************************************)
(* The scheduler (src/scheduler.cpp, src/scheduler.h): a thread that keeps *)
(* delayed tasks in a priority queue and hands each one to the dispatcher  *)
(* when its time has come.  addEvent wakes the thread only when the new    *)
(* event became the earliest one; stopEvent only forgets the event's id,   *)
(* and the thread discards the object when its time comes.                 *)
(*                                                                         *)
(* Time is discrete and monotone.  An addEvent call has three steps: the   *)
(* critical section, the notification, and the read of the event's id for  *)
(* the return value, which the code makes after releasing the lock.        *)
(***************************************************************************)
EXTENDS Integers, FiniteSets

CONSTANTS Callers,        \* threads that call addEvent, the dispatcher's among them
          Self,           \* the dispatcher thread
          Events,         \* SchedulerTask objects
          Cycles,         \* the times an event can be due at
          MaxTime,        \* the clock stops here
          MaxEventId      \* the largest value of the 32-bit event id

\* An event id is reused only after 2^32 others; pending events are far fewer,
\* so within the life of any event no other one gets the same id.
ASSUME SchedulerAssumption ==
    /\ Self \in Callers
    /\ MaxTime \in Nat
    /\ Cycles \subseteq 0 .. MaxTime
    /\ MaxEventId \in Nat
    /\ IsFiniteSet(Events)
    /\ Cardinality(Events) <= MaxEventId

VARIABLES threadState,    \* ThreadHolder::threadState
          eventList,      \* the priority queue, as a set
          eventIds,       \* ids of the events that are still to be fired
          lastEventId,
          eventId,        \* SchedulerTask::eventId, 0 before addEvent
          cycle,          \* SchedulerTask::expiration
          pc,             \* where threadMain is
          deadline,       \* what wait_until was called with, or NoDeadline
          task,           \* the set holding threadMain's local variable task
          call,           \* where each caller is inside addEvent
          shutdownAt,     \* how far Scheduler::shutdown has come
          dispatcherOpen, \* the dispatcher still accepts tasks
          now,            \* the system clock
          fate,           \* what became of each SchedulerTask object
          stopped         \* events for which stopEvent returned true

vars == <<threadState, eventList, eventIds, lastEventId, eventId, cycle, pc, deadline,
          task, call, shutdownAt, dispatcherOpen, now, fate, stopped>>

listVars == <<eventList, eventIds, lastEventId, eventId, cycle>>
threadVars == <<pc, deadline, task>>
otherVars == <<shutdownAt, dispatcherOpen, now>>

NoDeadline == MaxTime + 1

Idle == [step |-> "idle", event |-> {}]

\* new, pending (in eventList), popped, handed (to the dispatcher), deleted
Fates == {"new", "pending", "popped", "handed", "deleted"}

PCs == {"none", "loop", "locking", "waiting", "woken", "firing", "ended"}

-----------------------------------------------------------------------------

\* The scheduler may have been in use for long: the last id is any value.
Init ==
    /\ threadState = "TERMINATED"
    /\ eventList = {}
    /\ eventIds = {}
    /\ lastEventId \in 0 .. MaxEventId
    /\ eventId = [e \in Events |-> 0]
    /\ cycle = [e \in Events |-> 0]
    /\ pc = "none"
    /\ deadline = NoDeadline
    /\ task = {}
    /\ call = [c \in Callers |-> Idle]
    /\ shutdownAt = "no"
    /\ dispatcherOpen = TRUE
    /\ now = 0
    /\ fate = [e \in Events |-> "new"]
    /\ stopped = {}

Start ==
    /\ pc = "none"
    /\ pc' = "loop"
    /\ threadState' = "RUNNING"
    /\ UNCHANGED <<listVars, deadline, task, call, otherVars, fate, stopped>>

Mut_WakeWaiting == pc

\* eventSignal.notify_one()
WakeWaiting == IF pc = "waiting" THEN "woken" ELSE pc

Mut_SameEventId == IF lastEventId = 0 THEN 1 ELSE lastEventId

\* The counter wraps, and skips 0, which stands for "no id".
NextEventId == IF lastEventId = MaxEventId THEN 1 ELSE lastEventId + 1

WithId(i) == eventIds \cup {i}

\* task == eventList.top(): an event due at the same time keeps its place.
BecameTop(at) == \A f \in eventList : at < cycle[f]

\* addEvent, under eventLock.  The due time at was computed when the task was
\* created and may have passed already.
AddEvent(c, e, at) ==
    /\ pc # "none"
    /\ call[c] = Idle
    /\ fate[e] = "new"
    /\ IF threadState = "RUNNING"
         THEN /\ lastEventId' = NextEventId
              /\ eventId' = [eventId EXCEPT ![e] = NextEventId]
              /\ cycle' = [cycle EXCEPT ![e] = at]
              /\ eventIds' = WithId(NextEventId)
              /\ eventList' = eventList \cup {e}
              /\ fate' = [fate EXCEPT ![e] = "pending"]
              /\ call' = [call EXCEPT ![c] =
                            [step |-> IF BecameTop(at) THEN "notify" ELSE "read",
                             event |-> {e}]]
         ELSE /\ fate' = [fate EXCEPT ![e] = "deleted"]
              /\ UNCHANGED <<listVars, call>>
    /\ UNCHANGED <<threadState, threadVars, otherVars, stopped>>

NotifyOne(c) ==
    /\ call[c].step = "notify"
    /\ call' = [call EXCEPT ![c].step = "read"]
    /\ pc' = WakeWaiting
    /\ UNCHANGED <<threadState, listVars, deadline, task, otherVars, fate, stopped>>

\* return task->getEventId(), after the lock was released.
ReadEventId(c) ==
    /\ call[c].step = "read"
    /\ call' = [call EXCEPT ![c] = Idle]
    /\ UNCHANGED <<threadState, listVars, threadVars, otherVars, fate, stopped>>

\* stopEvent(eventId of e) by a thread that got the id back from addEvent.
StopEvent(e) ==
    /\ eventId[e] # 0
    /\ \A c \in Callers : e \notin call[c].event
    /\ eventId[e] \in eventIds
    /\ eventIds' = eventIds \ {eventId[e]}
    /\ stopped' = stopped \cup {e}
    /\ UNCHANGED <<threadState, eventList, lastEventId, eventId, cycle, threadVars, call,
                   otherVars, fate>>

-----------------------------------------------------------------------------
(* threadMain *)

\* The loop condition, read without eventLock.
TestState ==
    /\ pc = "loop"
    /\ pc' = IF threadState = "TERMINATED" THEN "ended" ELSE "locking"
    /\ UNCHANGED <<threadState, listVars, deadline, task, call, otherVars, fate, stopped>>

Earliest == {e \in eventList : \A f \in eventList : cycle[e] <= cycle[f]}

\* wait, or wait_until the time of the top event; both release eventLock.
Wait ==
    /\ pc = "locking"
    /\ pc' = "waiting"
    /\ IF eventList = {} THEN deadline' = NoDeadline
                         ELSE \E e \in Earliest : deadline' = cycle[e]
    /\ UNCHANGED <<threadState, listVars, task, call, otherVars, fate, stopped>>

SpuriousWakeup ==
    /\ pc = "waiting"
    /\ pc' = "woken"
    /\ UNCHANGED <<threadState, listVars, deadline, task, call, otherVars, fate, stopped>>

Timeout ==
    /\ pc = "waiting"
    /\ deadline <= now
    /\ pc' = "woken"
    /\ UNCHANGED <<threadState, listVars, deadline, task, call, otherVars, fate, stopped>>

Mut_ReportsTimeout == TRUE

\* ret == timeout: whatever ended the wait, wait_until reports a timeout when
\* its deadline has passed by the time the thread holds eventLock again.
ReportsTimeout == deadline <= now

Mut_WasStopped(e) == FALSE

WasStopped(e) == eventId[e] \notin eventIds

\* Timeout: pop the top event, whichever it is now; discard it if it was
\* stopped, else release the lock and go on to hand it over.
PopEvent ==
    /\ pc = "woken"
    /\ ReportsTimeout
    /\ \E e \in Earliest :
         /\ eventList' = eventList \ {e}
         /\ IF WasStopped(e)
              THEN /\ fate' = [fate EXCEPT ![e] = "deleted"]
                   /\ pc' = "loop"
                   /\ UNCHANGED <<eventIds, task>>
              ELSE /\ eventIds' = eventIds \ {eventId[e]}
                   /\ fate' = [fate EXCEPT ![e] = "popped"]
                   /\ task' = {e}
                   /\ pc' = "firing"
    /\ UNCHANGED <<threadState, lastEventId, eventId, cycle, deadline, call, otherVars, stopped>>

\* No timeout, or nothing left in the list: go round the loop.
NoTimeout ==
    /\ pc = "woken"
    /\ ~ReportsTimeout \/ eventList = {}
    /\ pc' = "loop"
    /\ UNCHANGED <<threadState, listVars, deadline, task, call, otherVars, fate, stopped>>

\* g_dispatcher.addTask(task, true), outside eventLock.
HandOver ==
    /\ pc = "firing"
    /\ \E e \in task :
         fate' = [fate EXCEPT ![e] = IF dispatcherOpen THEN "handed" ELSE "deleted"]
    /\ task' = {}
    /\ pc' = "loop"
    /\ UNCHANGED <<threadState, listVars, deadline, call, otherVars, stopped>>

-----------------------------------------------------------------------------
(* The dispatcher thread, as far as the scheduler sees it *)

Mut_DispatcherIsBetweenTasks == TRUE

\* A task calls addEvent synchronously: no other task is executed meanwhile.
DispatcherIsBetweenTasks == call[Self] = Idle

\* The dispatcher executes the event and deletes it.
ExecuteEvent(e) ==
    /\ fate[e] = "handed"
    /\ DispatcherIsBetweenTasks
    /\ fate' = [fate EXCEPT ![e] = "deleted"]
    /\ UNCHANGED <<threadState, listVars, threadVars, call, otherVars, stopped>>

\* Game::setGameState(GAME_STATE_SHUTDOWN): g_scheduler.stop() and, a moment
\* later, g_dispatcher.stop().
Stop ==
    /\ pc # "none"
    /\ threadState = "RUNNING"
    /\ DispatcherIsBetweenTasks
    /\ threadState' = "CLOSING"
    /\ UNCHANGED <<listVars, threadVars, call, otherVars, fate, stopped>>

CloseDispatcher ==
    /\ threadState = "CLOSING"
    /\ dispatcherOpen
    /\ dispatcherOpen' = FALSE
    /\ UNCHANGED <<threadState, listVars, threadVars, call, shutdownAt, now, fate, stopped>>

\* Scheduler::shutdown, first the state, without the lock ...
ShutdownState ==
    /\ pc # "none"
    /\ shutdownAt = "no"
    /\ DispatcherIsBetweenTasks
    /\ threadState' = "TERMINATED"
    /\ shutdownAt' = "clear"
    /\ UNCHANGED <<listVars, threadVars, call, dispatcherOpen, now, fate, stopped>>

\* ... then, under eventLock, every event is deleted ...
ShutdownClear ==
    /\ shutdownAt = "clear"
    /\ fate' = [e \in Events |-> IF e \in eventList THEN "deleted" ELSE fate[e]]
    /\ eventList' = {}
    /\ eventIds' = {}
    /\ shutdownAt' = "notify"
    /\ UNCHANGED <<threadState, lastEventId, eventId, cycle, threadVars, call, dispatcherOpen,
                   now, stopped>>

\* ... and after unlock() the thread is notified.
ShutdownNotify ==
    /\ shutdownAt = "notify"
    /\ shutdownAt' = "done"
    /\ pc' = WakeWaiting
    /\ UNCHANGED <<threadState, listVars, deadline, task, call, dispatcherOpen, now, fate, stopped>>

Tick ==
    /\ now < MaxTime
    /\ now' = now + 1
    /\ UNCHANGED <<threadState, listVars, threadVars, call, shutdownAt, dispatcherOpen, fate, stopped>>

-----------------------------------------------------------------------------

ThreadMain == TestState \/ Wait \/ Timeout \/ PopEvent \/ NoTimeout \/ HandOver

Next ==
    \/ Start \/ Stop \/ CloseDispatcher \/ ShutdownState \/ ShutdownClear \/ ShutdownNotify
    \/ Tick
    \/ SpuriousWakeup
    \/ ThreadMain
    \/ \E c \in Callers : NotifyOne(c) \/ ReadEventId(c)
    \/ \E c \in Callers, e \in Events, at \in Cycles : AddEvent(c, e, at)
    \/ \E e \in Events : StopEvent(e) \/ ExecuteEvent(e)

\* Threads run, time passes, and a wait whose deadline has passed ends; nothing
\* is assumed of spurious wakeups nor of what callers choose to do.
Fairness ==
    /\ WF_vars(ThreadMain)
    /\ WF_vars(Tick)
    /\ \A c \in Callers : WF_vars(NotifyOne(c)) /\ WF_vars(ReadEventId(c))

Spec == Init /\ [][Next]_vars /\ Fairness

-----------------------------------------------------------------------------
(* Properties *)

\* Every variable has its type; 0 is never in use as an event id.
TypeOK ==
    /\ threadState \in {"RUNNING", "CLOSING", "TERMINATED"}
    /\ eventList \subseteq Events
    /\ eventIds \subseteq 1 .. MaxEventId
    /\ lastEventId \in 0 .. MaxEventId
    /\ eventId \in [Events -> 0 .. MaxEventId]
    /\ cycle \in [Events -> 0 .. MaxTime]
    /\ pc \in PCs
    /\ deadline \in 0 .. NoDeadline
    /\ task \subseteq Events
    /\ call \in [Callers -> [step : {"idle", "notify", "read"}, event : SUBSET Events]]
    /\ shutdownAt \in {"no", "clear", "notify", "done"}
    /\ dispatcherOpen \in BOOLEAN
    /\ now \in 0 .. MaxTime
    /\ fate \in [Events -> Fates]
    /\ stopped \subseteq Events

\* The ids in eventIds are exactly those of the events in the list that nobody
\* stopped, and two pending events never share one: so stopEvent returns true
\* exactly when it prevents its event, and 0 is never the id of an event.
EventIdsExact ==
    /\ \A e \in eventList : e \notin stopped <=> eventId[e] \in eventIds
    /\ \A i \in eventIds : \E e \in eventList : eventId[e] = i
    /\ \A e, f \in eventList : eventId[e] = eventId[f] => e = f
    /\ \A e \in eventList : eventId[e] # 0

\* An event for which stopEvent returned true is never handed to the
\* dispatcher.
StoppedNeverFires == \A e \in stopped : fate[e] \in {"pending", "deleted"}

\* No event leaves the list for the dispatcher before its time, although the
\* thread pops the event that is the top one after the wait, not the one whose
\* time it waited for.
NeverEarly == \A e \in task : cycle[e] <= now

\* When the dispatcher thread reads the id of the event it has just added, the
\* object still exists, even if the scheduler thread has fired it meanwhile.
DispatcherReadsLiveEvent == \A e \in call[Self].event : fate[e] # "deleted"

\* Every event that nobody stops is eventually handed over, until the scheduler
\* is shut down.
PendingFires ==
    \A e \in Events :
        fate[e] = "pending" /\ e \notin stopped
          ~> fate[e] # "pending" \/ e \in stopped \/ threadState = "TERMINATED"

=============================================================================
