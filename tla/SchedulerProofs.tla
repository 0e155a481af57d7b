-------------------------- MODULE SchedulerProofs ---------------------------
(***************************************************************************)
(* The invariants of the scheduler, for every number of callers, events    *)
(* and event ids, as long as there are at least as many ids as events.     *)
(***************************************************************************)
EXTENDS Scheduler, FiniteSetTheorems, TLAPS

-----------------------------------------------------------------------------
(* The invariant *)

\* How many ids ago the id i was given out.
Age(i) == IF i <= lastEventId THEN lastEventId - i ELSE lastEventId + MaxEventId - i

\* The events that got an id.
Numbered == {e \in Events : eventId[e] # 0}

\* The ids that were given out are the latest ones, each of them once.
Window ==
    /\ \A e \in Numbered : Age(eventId[e]) < Cardinality(Numbered)
    /\ \A e, f \in Numbered : eventId[e] = eventId[f] => e = f

\* Where an object is, and what became of it.
Places ==
    /\ \A e \in Events : /\ fate[e] = "pending" <=> e \in eventList
                         /\ fate[e] = "popped" <=> e \in task
                         /\ fate[e] = "new" => eventId[e] = 0
    /\ eventList \subseteq Numbered
    /\ pc # "firing" => task = {}
    /\ pc = "firing" => \E e \in Events : task = {e}

\* Events whose addEvent has not returned are not stopped, and those of the dispatcher live.
Adding ==
    /\ \A c \in Callers : call[c].event \cap stopped = {}
    /\ pc = "none" \/ threadState # "RUNNING" => call[Self] = Idle
    /\ \A c \in Callers : \A e \in call[c].event : fate[e] # "new"

\* Start, stop and shutdown come in this order.
Course ==
    /\ pc = "none" => threadState = "TERMINATED" /\ shutdownAt = "no" /\ dispatcherOpen
    /\ shutdownAt # "no" => threadState = "TERMINATED"
    /\ ~dispatcherOpen => threadState # "RUNNING"
    /\ shutdownAt \in {"notify", "done"} => eventList = {}

\* The thread does not wait for longer than until the first event is due.
WaitsForFirst ==
    pc \in {"waiting", "woken"} =>
        \/ deadline = NoDeadline
        \/ \E f \in eventList : cycle[f] <= deadline
        \/ eventList = {} /\ threadState = "TERMINATED"

\* The inductive invariant.
Inv ==
    /\ TypeOK /\ Window /\ Places /\ Adding /\ Course /\ WaitsForFirst
    /\ EventIdsExact /\ StoppedNeverFires /\ NeverEarly /\ DispatcherReadsLiveEvent

-----------------------------------------------------------------------------
(* The steps *)

\* Most steps touch neither the list nor what becomes of an event.
LEMMA ListKept ==
    ASSUME Inv, UNCHANGED <<listVars, fate, stopped>>
    PROVE  Window' /\ EventIdsExact' /\ StoppedNeverFires'
  BY DEF Inv, Window, Numbered, Age, EventIdsExact, StoppedNeverFires, listVars

\* The thread starts.
LEMMA StepStart ==
    ASSUME Inv, Start
    PROVE  Inv'
<1>1. Window' /\ EventIdsExact' /\ StoppedNeverFires'
  BY ListKept DEF Start
<1> USE SchedulerAssumption DEF Inv, TypeOK, Start, listVars, threadVars, otherVars
<1>2. TypeOK'
  BY DEF PCs, NoDeadline, Idle
<1>3. Places' /\ WaitsForFirst'
  BY DEF Places, Numbered, WaitsForFirst, NoDeadline
<1>4. Adding' /\ Course'
  BY DEF Adding, Course, Idle
<1>5. NeverEarly' /\ DispatcherReadsLiveEvent'
  BY DEF NeverEarly, DispatcherReadsLiveEvent, Idle
<1> QED
  BY <1>1, <1>2, <1>3, <1>4, <1>5

\* The loop condition, read without the lock.
LEMMA StepTestState ==
    ASSUME Inv, TestState
    PROVE  Inv'
<1>1. Window' /\ EventIdsExact' /\ StoppedNeverFires'
  BY ListKept DEF TestState
<1> USE SchedulerAssumption DEF Inv, TypeOK, TestState, listVars, threadVars, otherVars
<1>2. TypeOK'
  BY DEF PCs, NoDeadline, Idle
<1>3. Places' /\ WaitsForFirst'
  BY DEF Places, Numbered, WaitsForFirst, NoDeadline
<1>4. Adding' /\ Course'
  BY DEF Adding, Course, Idle
<1>5. NeverEarly' /\ DispatcherReadsLiveEvent'
  BY DEF NeverEarly, DispatcherReadsLiveEvent, Idle
<1> QED
  BY <1>1, <1>2, <1>3, <1>4, <1>5

\* The thread waits for the first event of the list, or for anything.
LEMMA StepWait ==
    ASSUME Inv, Wait
    PROVE  Inv'
<1>1. Window' /\ EventIdsExact' /\ StoppedNeverFires'
  BY ListKept DEF Wait
<1> USE SchedulerAssumption DEF Inv, TypeOK, Wait, Earliest, listVars, threadVars, otherVars
<1>2. TypeOK'
  BY DEF PCs, NoDeadline, Idle
<1>3. Places' /\ WaitsForFirst'
  BY DEF Places, Numbered, WaitsForFirst, NoDeadline
<1>4. Adding' /\ Course'
  BY DEF Adding, Course, Idle
<1>5. NeverEarly' /\ DispatcherReadsLiveEvent'
  BY DEF NeverEarly, DispatcherReadsLiveEvent, Idle
<1> QED
  BY <1>1, <1>2, <1>3, <1>4, <1>5

\* A wakeup without a reason.
LEMMA StepSpuriousWakeup ==
    ASSUME Inv, SpuriousWakeup
    PROVE  Inv'
<1>1. Window' /\ EventIdsExact' /\ StoppedNeverFires'
  BY ListKept DEF SpuriousWakeup
<1> USE SchedulerAssumption DEF Inv, TypeOK, SpuriousWakeup, listVars, threadVars, otherVars
<1>2. TypeOK'
  BY DEF PCs, NoDeadline, Idle
<1>3. Places' /\ WaitsForFirst'
  BY DEF Places, Numbered, WaitsForFirst, NoDeadline
<1>4. Adding' /\ Course'
  BY DEF Adding, Course, Idle
<1>5. NeverEarly' /\ DispatcherReadsLiveEvent'
  BY DEF NeverEarly, DispatcherReadsLiveEvent, Idle
<1> QED
  BY <1>1, <1>2, <1>3, <1>4, <1>5

\* The time waited for has come.
LEMMA StepTimeout ==
    ASSUME Inv, Timeout
    PROVE  Inv'
<1>1. Window' /\ EventIdsExact' /\ StoppedNeverFires'
  BY ListKept DEF Timeout
<1> USE SchedulerAssumption DEF Inv, TypeOK, Timeout, listVars, threadVars, otherVars
<1>2. TypeOK'
  BY DEF PCs, NoDeadline, Idle
<1>3. Places' /\ WaitsForFirst'
  BY DEF Places, Numbered, WaitsForFirst, NoDeadline
<1>4. Adding' /\ Course'
  BY DEF Adding, Course, Idle
<1>5. NeverEarly' /\ DispatcherReadsLiveEvent'
  BY DEF NeverEarly, DispatcherReadsLiveEvent, Idle
<1> QED
  BY <1>1, <1>2, <1>3, <1>4, <1>5

\* The thread goes round the loop.
LEMMA StepNoTimeout ==
    ASSUME Inv, NoTimeout
    PROVE  Inv'
<1>1. Window' /\ EventIdsExact' /\ StoppedNeverFires'
  BY ListKept DEF NoTimeout
<1> USE SchedulerAssumption DEF Inv, TypeOK, NoTimeout, ReportsTimeout, listVars, threadVars, otherVars
<1>2. TypeOK'
  BY DEF PCs, NoDeadline, Idle
<1>3. Places' /\ WaitsForFirst'
  BY DEF Places, Numbered, WaitsForFirst, NoDeadline
<1>4. Adding' /\ Course'
  BY DEF Adding, Course, Idle
<1>5. NeverEarly' /\ DispatcherReadsLiveEvent'
  BY DEF NeverEarly, DispatcherReadsLiveEvent, Idle
<1> QED
  BY <1>1, <1>2, <1>3, <1>4, <1>5

\* stop() when the dispatcher is inside no addEvent.
LEMMA StepStop ==
    ASSUME Inv, Stop
    PROVE  Inv'
<1>1. Window' /\ EventIdsExact' /\ StoppedNeverFires'
  BY ListKept DEF Stop
<1> USE SchedulerAssumption
        DEF Inv, TypeOK, Stop, DispatcherIsBetweenTasks, listVars, threadVars, otherVars
<1>2. TypeOK'
  BY DEF PCs, NoDeadline, Idle
<1>3. Places' /\ WaitsForFirst'
  BY DEF Places, Numbered, WaitsForFirst, NoDeadline
<1>4. Adding' /\ Course'
  BY DEF Adding, Course, Idle
<1>5. NeverEarly' /\ DispatcherReadsLiveEvent'
  BY DEF NeverEarly, DispatcherReadsLiveEvent, Idle
<1> QED
  BY <1>1, <1>2, <1>3, <1>4, <1>5

\* The dispatcher refuses tasks only after the scheduler has been stopped.
LEMMA StepCloseDispatcher ==
    ASSUME Inv, CloseDispatcher
    PROVE  Inv'
<1>1. Window' /\ EventIdsExact' /\ StoppedNeverFires'
  BY ListKept DEF CloseDispatcher
<1> USE SchedulerAssumption DEF Inv, TypeOK, CloseDispatcher, listVars, threadVars, otherVars
<1>2. TypeOK'
  BY DEF PCs, NoDeadline, Idle
<1>3. Places' /\ WaitsForFirst'
  BY DEF Places, Numbered, WaitsForFirst, NoDeadline
<1>4. Adding' /\ Course'
  BY DEF Adding, Course, Idle
<1>5. NeverEarly' /\ DispatcherReadsLiveEvent'
  BY DEF NeverEarly, DispatcherReadsLiveEvent, Idle
<1> QED
  BY <1>1, <1>2, <1>3, <1>4, <1>5

\* shutdown() sets the state before it has the lock.
LEMMA StepShutdownState ==
    ASSUME Inv, ShutdownState
    PROVE  Inv'
<1>1. Window' /\ EventIdsExact' /\ StoppedNeverFires'
  BY ListKept DEF ShutdownState
<1> USE SchedulerAssumption
        DEF Inv, TypeOK, ShutdownState, DispatcherIsBetweenTasks, listVars, threadVars, otherVars
<1>2. TypeOK'
  BY DEF PCs, NoDeadline, Idle
<1>3. Places' /\ WaitsForFirst'
  BY DEF Places, Numbered, WaitsForFirst, NoDeadline
<1>4. Adding' /\ Course'
  BY DEF Adding, Course, Idle
<1>5. NeverEarly' /\ DispatcherReadsLiveEvent'
  BY DEF NeverEarly, DispatcherReadsLiveEvent, Idle
<1> QED
  BY <1>1, <1>2, <1>3, <1>4, <1>5

\* shutdown() notifies the thread.
LEMMA StepShutdownNotify ==
    ASSUME Inv, ShutdownNotify
    PROVE  Inv'
<1>1. Window' /\ EventIdsExact' /\ StoppedNeverFires'
  BY ListKept DEF ShutdownNotify
<1> USE SchedulerAssumption DEF Inv, TypeOK, ShutdownNotify, WakeWaiting, listVars, threadVars, otherVars
<1>2. TypeOK'
  BY DEF PCs, NoDeadline, Idle
<1>3. Places' /\ WaitsForFirst'
  BY DEF Places, Numbered, WaitsForFirst, NoDeadline
<1>4. Adding' /\ Course'
  BY DEF Adding, Course, Idle
<1>5. NeverEarly' /\ DispatcherReadsLiveEvent'
  BY DEF NeverEarly, DispatcherReadsLiveEvent, Idle
<1> QED
  BY <1>1, <1>2, <1>3, <1>4, <1>5

\* Time passes: what is due stays due.
LEMMA StepTick ==
    ASSUME Inv, Tick
    PROVE  Inv'
<1>1. Window' /\ EventIdsExact' /\ StoppedNeverFires'
  BY ListKept DEF Tick
<1> USE SchedulerAssumption DEF Inv, TypeOK, Tick, listVars, threadVars, otherVars
<1>2. TypeOK'
  BY DEF PCs, NoDeadline, Idle
<1>3. Places' /\ WaitsForFirst'
  BY DEF Places, Numbered, WaitsForFirst, NoDeadline
<1>4. Adding' /\ Course'
  BY DEF Adding, Course, Idle
<1>5. NeverEarly' /\ DispatcherReadsLiveEvent'
  BY DEF NeverEarly, DispatcherReadsLiveEvent, Idle
<1> QED
  BY <1>1, <1>2, <1>3, <1>4, <1>5

\* addEvent returns.
LEMMA StepReadEventId ==
    ASSUME Inv, NEW c \in Callers, ReadEventId(c)
    PROVE  Inv'
<1>1. Window' /\ EventIdsExact' /\ StoppedNeverFires'
  BY ListKept DEF ReadEventId
<1> USE SchedulerAssumption DEF Inv, TypeOK, ReadEventId, listVars, threadVars, otherVars
<1>2. TypeOK'
  BY DEF PCs, NoDeadline, Idle
<1>3. Places' /\ WaitsForFirst'
  BY DEF Places, Numbered, WaitsForFirst, NoDeadline
<1>4. Adding' /\ Course'
  BY DEF Adding, Course, Idle
<1>5. NeverEarly' /\ DispatcherReadsLiveEvent'
  BY DEF NeverEarly, DispatcherReadsLiveEvent, Idle
<1> QED
  BY <1>1, <1>2, <1>3, <1>4, <1>5

\* addEvent notifies the thread.
LEMMA StepNotifyOne ==
    ASSUME Inv, NEW c \in Callers, NotifyOne(c)
    PROVE  Inv'
<1>1. Window' /\ EventIdsExact' /\ StoppedNeverFires'
  BY ListKept DEF NotifyOne
<1>2. /\ \A d \in Callers : call'[d].event = call[d].event
      /\ call[Self] = Idle => call'[Self] = Idle
      /\ call' \in [Callers -> [step : {"idle", "notify", "read"}, event : SUBSET Events]]
  <2> DEFINE r == [call[c] EXCEPT !.step = "read"]
  <2>1. call[c] \in [step : {"idle", "notify", "read"}, event : SUBSET Events]
    BY DEF Inv, TypeOK
  <2>2. r.event = call[c].event /\ r \in [step : {"idle", "notify", "read"}, event : SUBSET Events]
    BY <2>1
  <2>3. call' = [call EXCEPT ![c] = r]
    BY DEF NotifyOne
  <2>4. call[Self] = Idle => c # Self
    BY DEF NotifyOne, Idle
  <2> HIDE DEF r
  <2> QED
    BY <2>2, <2>3, <2>4 DEF Inv, TypeOK
<1> USE SchedulerAssumption DEF Inv, TypeOK, NotifyOne, WakeWaiting, listVars, otherVars
<1>3. TypeOK'
  BY <1>2 DEF PCs
<1>4. Places' /\ WaitsForFirst'
  BY DEF Places, Numbered, WaitsForFirst
<1>5. Adding' /\ Course'
  BY <1>2 DEF Adding, Course
<1>6. NeverEarly' /\ DispatcherReadsLiveEvent'
  BY <1>2 DEF NeverEarly, DispatcherReadsLiveEvent
<1> QED
  BY <1>1, <1>3, <1>4, <1>5, <1>6

\* The id names the event itself: it is in the list and nothing else has its id.
LEMMA StepStopEvent ==
    ASSUME Inv, NEW e \in Events, StopEvent(e)
    PROVE  Inv'
<1>1. e \in eventList /\ fate[e] = "pending"
  <2>1. PICK f \in eventList : eventId[f] = eventId[e]
    BY DEF Inv, EventIdsExact, StopEvent
  <2>2. f \in Numbered /\ e \in Numbered
    BY <2>1 DEF Inv, Places, StopEvent, Numbered
  <2> QED
    BY <2>1, <2>2 DEF Inv, Window, Places
<1> USE SchedulerAssumption DEF Inv, TypeOK, StopEvent, threadVars, otherVars
<1>2. TypeOK' /\ Window'
  BY DEF Window, Numbered, Age
<1>3. Places' /\ Adding' /\ Course' /\ WaitsForFirst'
  BY DEF Places, Numbered, Adding, Course, WaitsForFirst
<1>4. EventIdsExact' /\ StoppedNeverFires'
  <2>1. ASSUME NEW f \in eventList PROVE f \notin stopped' <=> eventId[f] \in eventIds'
    BY <1>1 DEF EventIdsExact
  <2>2. ASSUME NEW i \in eventIds' PROVE \E f \in eventList : eventId[f] = i
    BY DEF EventIdsExact
  <2> QED
    BY <1>1, <2>1, <2>2 DEF EventIdsExact, StoppedNeverFires
<1>5. NeverEarly' /\ DispatcherReadsLiveEvent'
  BY DEF NeverEarly, DispatcherReadsLiveEvent
<1> QED
  BY <1>2, <1>3, <1>4, <1>5

\* The dispatcher deletes an event when it is adding none.
LEMMA StepExecuteEvent ==
    ASSUME Inv, NEW e \in Events, ExecuteEvent(e)
    PROVE  Inv'
<1> USE SchedulerAssumption
        DEF Inv, TypeOK, ExecuteEvent, DispatcherIsBetweenTasks, listVars, threadVars, otherVars
<1>1. TypeOK' /\ Window'
  BY DEF Window, Numbered, Age, Fates
<1>2. Places' /\ Adding' /\ Course' /\ WaitsForFirst'
  BY DEF Places, Numbered, Adding, Course, WaitsForFirst
<1>3. EventIdsExact' /\ StoppedNeverFires'
  BY DEF EventIdsExact, StoppedNeverFires
<1>4. NeverEarly' /\ DispatcherReadsLiveEvent'
  BY DEF NeverEarly, DispatcherReadsLiveEvent, Idle
<1> QED
  BY <1>1, <1>2, <1>3, <1>4

\* An event is deleted by the scheduler only when the dispatcher adds none any more.
LEMMA StepHandOver ==
    ASSUME Inv, HandOver
    PROVE  Inv'
<1>1. PICK x \in Events : task = {x}
  BY DEF Inv, Places, HandOver
<1>2. /\ fate[x] = "popped" /\ x \notin eventList /\ x \notin stopped
      /\ fate' = [fate EXCEPT ![x] = IF dispatcherOpen THEN "handed" ELSE "deleted"]
  BY <1>1 DEF Inv, Places, StoppedNeverFires, HandOver
<1>3. ~dispatcherOpen => call[Self] = Idle
  BY DEF Inv, Course, Adding
<1> USE SchedulerAssumption, <1>1, <1>2 DEF Inv, TypeOK, HandOver, listVars, otherVars
<1>4. TypeOK' /\ Window'
  BY DEF Window, Numbered, Age, Fates, PCs
<1>5. Places' /\ Adding' /\ Course' /\ WaitsForFirst'
  BY DEF Places, Numbered, Adding, Course, WaitsForFirst
<1>6. EventIdsExact' /\ StoppedNeverFires'
  BY DEF EventIdsExact, StoppedNeverFires
<1>7. NeverEarly'
  BY DEF NeverEarly
<1>8. DispatcherReadsLiveEvent'
  BY <1>3 DEF DispatcherReadsLiveEvent, Idle
<1> QED
  BY <1>4, <1>5, <1>6, <1>7, <1>8

\* So are all events when the list is cleared.
LEMMA StepShutdownClear ==
    ASSUME Inv, ShutdownClear
    PROVE  Inv'
<1>1. call[Self] = Idle
  BY DEF Inv, Course, Adding, ShutdownClear
<1> USE SchedulerAssumption DEF Inv, TypeOK, ShutdownClear, threadVars
<1>2. TypeOK' /\ Window'
  BY DEF Window, Numbered, Age, Fates
<1>3. Places' /\ Adding' /\ Course' /\ WaitsForFirst'
  BY DEF Places, Numbered, Adding, Course, WaitsForFirst
<1>4. EventIdsExact' /\ StoppedNeverFires' /\ NeverEarly'
  BY DEF EventIdsExact, StoppedNeverFires, NeverEarly
<1>5. DispatcherReadsLiveEvent'
  BY <1>1 DEF DispatcherReadsLiveEvent, Idle
<1> QED
  BY <1>2, <1>3, <1>4, <1>5

\* What is popped is due, and fired when it was not stopped.
LEMMA StepPopEvent ==
    ASSUME Inv, PopEvent
    PROVE  Inv'
<1>1. PICK e \in Earliest :
         /\ eventList' = eventList \ {e}
         /\ IF WasStopped(e)
              THEN /\ fate' = [fate EXCEPT ![e] = "deleted"]
                   /\ pc' = "loop"
                   /\ UNCHANGED <<eventIds, task>>
              ELSE /\ eventIds' = eventIds \ {eventId[e]}
                   /\ fate' = [fate EXCEPT ![e] = "popped"]
                   /\ task' = {e}
                   /\ pc' = "firing"
  BY DEF PopEvent
<1>2. /\ e \in Events /\ e \in eventList /\ fate[e] = "pending" /\ task = {}
      /\ pc = "woken" /\ deadline <= now
      /\ UNCHANGED <<threadState, lastEventId, eventId, cycle, deadline, call>>
      /\ UNCHANGED <<shutdownAt, dispatcherOpen, now, stopped>>
  BY DEF Inv, TypeOK, Places, Earliest, PopEvent, ReportsTimeout, otherVars
<1>3. WasStopped(e) <=> e \in stopped
  BY <1>2 DEF Inv, EventIdsExact, WasStopped
<1>4. cycle[e] <= now
  <2>1. PICK f \in eventList : cycle[f] <= deadline
    BY <1>2, SchedulerAssumption DEF Inv, WaitsForFirst, TypeOK, NoDeadline
  <2>2. cycle[e] <= cycle[f]
    BY <2>1 DEF Earliest
  <2>3. cycle[e] \in Int /\ cycle[f] \in Int /\ deadline \in Int /\ now \in Int
    BY <1>2, SchedulerAssumption DEF Inv, TypeOK, NoDeadline
  <2> QED
    BY <1>2, <2>1, <2>2, <2>3
<1>5. TypeOK'
  BY <1>1, <1>2 DEF Inv, TypeOK, PCs, Fates
<1>6. Window'
  BY <1>2 DEF Inv, Window, Numbered, Age
<1>7. Places'
  BY <1>1, <1>2 DEF Inv, TypeOK, Places, Numbered
<1>8. Adding'
  BY <1>1, <1>2 DEF Inv, TypeOK, Adding
<1>9. Course' /\ WaitsForFirst'
  BY <1>1, <1>2 DEF Inv, Course, WaitsForFirst
<1>10. EventIdsExact'
  <2>1. \A f, g \in eventList : eventId[f] = eventId[g] => f = g
    BY DEF Inv, EventIdsExact
  <2>2. CASE WasStopped(e)
    <3>1. eventIds' = eventIds
      BY <1>1, <2>2
    <3>2. \A i \in eventIds : \E f \in eventList : f # e /\ eventId[f] = i
      BY <2>2 DEF Inv, EventIdsExact, WasStopped
    <3> QED
      BY <1>1, <1>2, <3>1, <3>2 DEF Inv, EventIdsExact
  <2>3. CASE ~WasStopped(e)
    <3>1. eventIds' = eventIds \ {eventId[e]}
      BY <1>1, <2>3
    <3>2. \A f \in eventList : f # e => eventId[f] # eventId[e]
      BY <1>2, <2>1
    <3> QED
      BY <1>1, <1>2, <3>1, <3>2 DEF Inv, EventIdsExact
  <2> QED
    BY <2>2, <2>3
<1>11. StoppedNeverFires'
  BY <1>1, <1>2, <1>3 DEF Inv, TypeOK, StoppedNeverFires
<1>12. NeverEarly'
  BY <1>1, <1>2, <1>4 DEF Inv, NeverEarly
<1>13. DispatcherReadsLiveEvent'
  <2>1. WasStopped(e) => e \notin call[Self].event
    BY <1>3, SchedulerAssumption DEF Inv, Adding
  <2>2. call[Self].event \subseteq Events
    BY SchedulerAssumption DEF Inv, TypeOK
  <2> QED
    BY <1>1, <1>2, <2>1, <2>2 DEF Inv, TypeOK, DispatcherReadsLiveEvent
<1> QED
  BY <1>5, <1>6, <1>7, <1>8, <1>9, <1>10, <1>11, <1>12, <1>13 DEF Inv

\* The counter is not 0 and not one of the ids that are remembered.
LEMMA NextIsNew ==
    ASSUME Inv, NEW e \in Events, eventId[e] = 0
    PROVE  /\ NextEventId \in 1 .. MaxEventId
           /\ IsFiniteSet(Numbered) /\ Cardinality(Numbered) \in Nat
           /\ Cardinality(Numbered) < MaxEventId
           /\ Cardinality(Numbered \cup {e}) = Cardinality(Numbered) + 1
           /\ \A f \in Numbered : eventId[f] # NextEventId
<1>1. Numbered \in SUBSET Events /\ e \notin Numbered
  BY DEF Numbered
<1>2. /\ IsFiniteSet(Numbered) /\ Cardinality(Numbered) \in Nat
      /\ Cardinality(Numbered) <= Cardinality(Events) /\ Cardinality(Numbered) # Cardinality(Events)
  BY <1>1, SchedulerAssumption, FS_Subset, FS_CardinalityType
<1>3. Cardinality(Events) \in Nat /\ Cardinality(Events) <= MaxEventId /\ MaxEventId \in Nat
  BY SchedulerAssumption, FS_CardinalityType
<1>4. Cardinality(Numbered) < MaxEventId
  BY <1>2, <1>3
<1>5. NextEventId \in 1 .. MaxEventId
  BY <1>2, <1>3, <1>4 DEF Inv, TypeOK, NextEventId
<1>6. ASSUME NEW f \in Numbered PROVE eventId[f] # NextEventId
  <2>1. Age(eventId[f]) < Cardinality(Numbered) /\ eventId[f] \in 1 .. MaxEventId
    BY DEF Inv, Window, Numbered, TypeOK
  <2>2. lastEventId \in 0 .. MaxEventId
    BY DEF Inv, TypeOK
  <2> QED
    BY <1>2, <1>3, <1>4, <2>1, <2>2 DEF Age, NextEventId
<1>7. Cardinality(Numbered \cup {e}) = Cardinality(Numbered) + 1
  BY <1>1, <1>2, FS_AddElement
<1> QED
  BY <1>2, <1>4, <1>5, <1>6, <1>7

\* A new event gets an id that no event has.
LEMMA StepAddEvent ==
    ASSUME Inv, NEW c \in Callers, NEW e \in Events, NEW at \in Cycles, AddEvent(c, e, at)
    PROVE  Inv'
<1>1. /\ pc # "none" /\ call[c] = Idle /\ fate[e] = "new" /\ eventId[e] = 0
      /\ e \notin eventList /\ e \notin task /\ e \notin stopped /\ e \notin Numbered
      /\ UNCHANGED <<threadState, pc, deadline, task, shutdownAt, dispatcherOpen, now, stopped>>
  BY DEF AddEvent, Inv, Places, StoppedNeverFires, Numbered, threadVars, otherVars
<1>2. CASE threadState = "RUNNING"
  <2> DEFINE id == NextEventId
             entry == [step |-> IF BecameTop(at) THEN "notify" ELSE "read", event |-> {e}]
  <2>1. /\ lastEventId' = id /\ eventId' = [eventId EXCEPT ![e] = id]
        /\ cycle' = [cycle EXCEPT ![e] = at] /\ eventIds' = eventIds \cup {id}
        /\ eventList' = eventList \cup {e} /\ fate' = [fate EXCEPT ![e] = "pending"]
        /\ call' = [call EXCEPT ![c] = entry]
    BY <1>2 DEF AddEvent, WithId
  <2>2. /\ id \in 1 .. MaxEventId /\ MaxEventId \in Nat
        /\ Cardinality(Numbered) \in Nat /\ Cardinality(Numbered) < MaxEventId
        /\ Cardinality(Numbered \cup {e}) = Cardinality(Numbered) + 1
        /\ \A f \in Numbered : eventId[f] # id
    BY <1>1, NextIsNew, SchedulerAssumption
  <2>3. /\ entry \in [step : {"idle", "notify", "read"}, event : SUBSET Events]
        /\ entry.event = {e}
    OBVIOUS
  <2>4. /\ TypeOK /\ at \in 0 .. MaxTime
        /\ id = IF lastEventId = MaxEventId THEN 1 ELSE lastEventId + 1
    BY SchedulerAssumption DEF Inv, NextEventId
  <2> HIDE DEF id, entry
  <2>5. TypeOK'
    BY <1>1, <2>1, <2>2, <2>3, <2>4 DEF TypeOK, Fates
  <2>6. Numbered' = Numbered \cup {e}
    BY <2>1, <2>2, <2>4 DEF Numbered, TypeOK
  <2>7. Window'
    <3>1. \A f \in Numbered : eventId'[f] = eventId[f] /\ eventId[f] \in 1 .. MaxEventId /\ f # e
      BY <1>1, <2>1, <2>4 DEF Numbered, TypeOK
    <3>2. eventId'[e] = id
      BY <2>1, <2>4 DEF TypeOK
    <3>3. ASSUME NEW f \in Numbered PROVE Age(eventId[f])' = Age(eventId[f]) + 1
      <4>1. Age(eventId[f]) < Cardinality(Numbered) /\ lastEventId \in 0 .. MaxEventId
        BY <2>4 DEF Inv, Window, TypeOK
      <4> QED
        BY <2>1, <2>2, <2>4, <3>1, <4>1 DEF Age
    <3>4. Age(eventId[e])' = 0
      BY <2>1, <2>2, <3>2 DEF Age
    <3>5. ASSUME NEW f \in Numbered' PROVE Age(eventId[f])' < Cardinality(Numbered')
      <4>1. CASE f = e
        BY <2>2, <2>6, <3>4, <4>1
      <4>2. CASE f \in Numbered
        <5>1. Age(eventId[f]) < Cardinality(Numbered) /\ Age(eventId[f]) \in Int
          BY <2>2, <2>4, <3>1, <4>2 DEF Inv, Window, TypeOK, Age
        <5> QED
          BY <2>2, <2>6, <3>3, <4>2, <5>1
      <4> QED
        BY <2>6, <4>1, <4>2
    <3>6. \A f, g \in Numbered' : eventId'[f] = eventId'[g] => f = g
      BY <2>2, <2>6, <3>1, <3>2 DEF Inv, Window
    <3> QED
      BY <3>5, <3>6 DEF Window
  <2>8. Places'
    BY <1>1, <2>1, <2>4, <2>6 DEF Inv, Places, TypeOK
  <2>9. Adding' /\ DispatcherReadsLiveEvent'
    BY <1>1, <1>2, <2>1, <2>3, <2>4, SchedulerAssumption
    DEF Inv, Adding, DispatcherReadsLiveEvent, TypeOK
  <2>10. Course' /\ WaitsForFirst'
    <3>1. Course'
      BY <1>1, <1>2, <2>1 DEF Inv, Course
    <3>2. WaitsForFirst'
      <4>1. \A f \in eventList : f \in eventList' /\ cycle'[f] = cycle[f]
        BY <1>1, <2>1, <2>4 DEF TypeOK
      <4> QED
        BY <1>1, <1>2, <4>1 DEF Inv, WaitsForFirst
    <3> QED
      BY <3>1, <3>2
  <2>11. EventIdsExact'
    <3>1. \A f \in eventList : f # e /\ eventId'[f] = eventId[f] /\ eventId[f] # id
      BY <1>1, <2>1, <2>2, <2>4 DEF Inv, Places, TypeOK
    <3>2. eventId'[e] = id /\ id # 0
      BY <2>1, <2>2, <2>4 DEF TypeOK
    <3> QED
      BY <1>1, <2>1, <3>1, <3>2 DEF Inv, EventIdsExact
  <2>12. StoppedNeverFires' /\ NeverEarly'
    BY <1>1, <2>1, <2>4 DEF Inv, StoppedNeverFires, NeverEarly, TypeOK
  <2> QED
    BY <2>5, <2>7, <2>8, <2>9, <2>10, <2>11, <2>12 DEF Inv
<1>3. CASE threadState # "RUNNING"
  <2>1. fate' = [fate EXCEPT ![e] = "deleted"] /\ UNCHANGED <<listVars, call>>
    BY <1>3 DEF AddEvent
  <2> USE SchedulerAssumption, <1>1, <1>3, <2>1 DEF Inv, TypeOK, listVars
  <2>2. TypeOK' /\ Window'
    BY DEF Window, Numbered, Age, Fates
  <2>3. Places' /\ Adding' /\ Course' /\ WaitsForFirst'
    BY DEF Places, Numbered, Adding, Course, WaitsForFirst
  <2>4. EventIdsExact' /\ StoppedNeverFires' /\ NeverEarly'
    BY DEF EventIdsExact, StoppedNeverFires, NeverEarly
  <2>5. DispatcherReadsLiveEvent'
    BY DEF DispatcherReadsLiveEvent, Adding, Idle
  <2> QED
    BY <2>2, <2>3, <2>4, <2>5
<1> QED
  BY <1>2, <1>3

-----------------------------------------------------------------------------
(* The theorems *)

\* The first state.
LEMMA Initially == Init => Inv
<1> SUFFICES ASSUME Init PROVE Inv
  OBVIOUS
<1>1. TypeOK
  BY SchedulerAssumption DEF Init, TypeOK, PCs, Fates, NoDeadline, Idle
<1>2. Window /\ Places
  BY DEF Init, Window, Places, Numbered
<1>3. Adding /\ Course /\ WaitsForFirst
  BY SchedulerAssumption DEF Init, Adding, Course, WaitsForFirst, Idle
<1>4. EventIdsExact /\ StoppedNeverFires /\ NeverEarly /\ DispatcherReadsLiveEvent
  BY SchedulerAssumption
  DEF Init, EventIdsExact, StoppedNeverFires, NeverEarly, DispatcherReadsLiveEvent, Idle
<1> QED
  BY <1>1, <1>2, <1>3, <1>4 DEF Inv

\* Nothing happens.
LEMMA Stuttering ==
    ASSUME Inv, UNCHANGED vars
    PROVE  Inv'
<1>1. Window' /\ EventIdsExact' /\ StoppedNeverFires'
  BY ListKept DEF vars, listVars
<1>2. TypeOK' /\ Places' /\ Adding' /\ Course' /\ WaitsForFirst'
  BY DEF Inv, vars, TypeOK, Places, Numbered, Adding, Course, WaitsForFirst
<1>3. NeverEarly' /\ DispatcherReadsLiveEvent'
  BY DEF Inv, vars, NeverEarly, DispatcherReadsLiveEvent
<1> QED
  BY <1>1, <1>2, <1>3 DEF Inv

\* Inv holds in every state.
THEOREM Inductive == Spec => []Inv
<1>1. Inv /\ [Next]_vars => Inv'
  <2> SUFFICES ASSUME Inv, [Next]_vars PROVE Inv'
    OBVIOUS
  <2>1. CASE Start \/ Stop \/ CloseDispatcher \/ ShutdownState \/ ShutdownClear \/ ShutdownNotify
    BY <2>1, StepStart, StepStop, StepCloseDispatcher, StepShutdownState, StepShutdownClear,
       StepShutdownNotify
  <2>2. CASE Tick \/ SpuriousWakeup
    BY <2>2, StepTick, StepSpuriousWakeup
  <2>3. CASE ThreadMain
    BY <2>3, StepTestState, StepWait, StepTimeout, StepPopEvent, StepNoTimeout, StepHandOver
    DEF ThreadMain
  <2>4. ASSUME NEW c \in Callers, NotifyOne(c) \/ ReadEventId(c) PROVE Inv'
    BY <2>4, StepNotifyOne, StepReadEventId
  <2>5. ASSUME NEW c \in Callers, NEW e \in Events, NEW at \in Cycles, AddEvent(c, e, at) PROVE Inv'
    BY <2>5, StepAddEvent
  <2>6. ASSUME NEW e \in Events, StopEvent(e) \/ ExecuteEvent(e) PROVE Inv'
    BY <2>6, StepStopEvent, StepExecuteEvent
  <2>7. CASE UNCHANGED vars
    BY <2>7, Stuttering
  <2> QED
    BY <2>1, <2>2, <2>3, <2>4, <2>5, <2>6, <2>7 DEF Next
<1> QED
  BY Initially, <1>1, PTL DEF Spec

\* Every variable of the scheduler keeps its type, and no event has the id 0 in eventIds: the counter
\* wraps past it (addEvent).
THEOREM TypeCorrect == Spec => []TypeOK
  BY Inductive, PTL DEF Inv

\* eventIds holds exactly the ids of the pending events that nobody stopped, although ids wrap and
\* are given out again: so stopEvent returns true exactly when it prevents its event.
THEOREM IdsHold == Spec => []EventIdsExact
  BY Inductive, PTL DEF Inv

\* An event for which stopEvent returned true never fires: threadMain discards it when it pops it.
THEOREM StoppedHolds == Spec => []StoppedNeverFires
  BY Inductive, PTL DEF Inv

\* No event leaves the list before its time, although threadMain pops the top event after the wait
\* and not the one it waited for.
THEOREM EarlyHolds == Spec => []NeverEarly
  BY Inductive, PTL DEF Inv

\* The object whose id the dispatcher reads after unlocking in addEvent exists: it may have been handed
\* over meanwhile, but it is the dispatcher that would delete it.
THEOREM LiveHolds == Spec => []DispatcherReadsLiveEvent
  BY Inductive, PTL DEF Inv
=============================================================================
