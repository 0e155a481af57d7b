----------------------- MODULE DispatcherThreadProofs -----------------------
(***************************************************************************)
(* The dispatcher thread.                                                  *)
(*                                                                         *)
(* First its queue: the dispatcher's invariants, for every set of threads  *)
(* and tasks, and that it implements the safety part of TaskQueue: in      *)
(* taskList the scheduler's tasks and the others are two queues one behind *)
(* the other, a task is served when threadMain pops it, and the service    *)
(* ends when the task of shutdown() runs.                                  *)
(*                                                                         *)
(* Then the creatures, which no other thread touches: their invariants,    *)
(* for every number of players, monsters, places and slots of the spawn.   *)
(* Handlers call each other, so that the invariant does not hold in the    *)
(* middle of them.  What does is Core(v); and each handler promises what   *)
(* it keeps of the rest, Keeps(v, u, X, Y), but for the monsters of Y that *)
(* may have another master, and the pairs of X that need not know each     *)
(* other any more.  These promises compose; what a task leaves out of them *)
(* has to be made up for when it ends.                                     *)
(***************************************************************************)
EXTENDS Dispatcher, Creatures, SequenceTheorems, FiniteSetTheorems, TLAPS

-----------------------------------------------------------------------------
(* The queue *)

\* Only the dispatcher thread waits, so a notification can only move it from
\* waiting to woken.
LEMMA WakeWaitingType ==
    ASSUME pc \in PCs
    PROVE  WakeWaiting \in PCs /\ (WakeWaiting \in {"taken", "running"} <=> HoldsTask)
  BY DEF WakeWaiting, PCs, HoldsTask

\* Both ways of inserting a task keep a list of tasks, never an empty one.
LEMMA PushedType ==
    ASSUME taskList \in Seq(AllTasks), NEW t \in AllTasks
    PROVE  /\ Pushed(t) \in Seq(AllTasks)
           /\ Len(Pushed(t)) = Len(taskList) + 1
           /\ t \in SchedulerTasks =>
                /\ Pushed(t)[1] = t
                /\ \A i \in 2 .. Len(taskList) + 1 : Pushed(t)[i] = taskList[i - 1]
           /\ t \notin SchedulerTasks =>
                /\ Pushed(t)[Len(taskList) + 1] = t
                /\ \A i \in 1 .. Len(taskList) : Pushed(t)[i] = taskList[i]
<1>1. CASE t \in SchedulerTasks
  <2>1. <<t>> \in Seq(AllTasks) /\ Len(<<t>>) = 1 /\ <<t>>[1] = t
    OBVIOUS
  <2> QED
    BY <1>1, <2>1, ConcatProperties DEF Pushed
<1>2. CASE t \notin SchedulerTasks
  BY <1>2 DEF Pushed
<1> QED
  BY <1>1, <1>2

\* Every step keeps the types.
LEMMA TypeOKStep == TypeOK /\ [Next]_vars => TypeOK'
<1> SUFFICES ASSUME TypeOK, [Next]_vars PROVE TypeOK'
  OBVIOUS
<1> USE DEF TypeOK, HoldsTask
<1>1. CASE Start
  BY <1>1 DEF Start, ThreadState, PCs
<1>2. CASE Stop
  BY <1>2 DEF Stop, ThreadState
<1>3. CASE SpuriousWakeup
  BY <1>3 DEF SpuriousWakeup, PCs
<1>4. CASE TestState
  BY <1>4 DEF TestState, PCs
<1>5. CASE Wait
  BY <1>5 DEF Wait, PCs
<1>6. CASE NothingToTake
  BY <1>6 DEF NothingToTake, PCs
<1>7. CASE TakeTask
  <2>1. /\ Head(taskList) \in AllTasks
        /\ Tail(taskList) \in Seq(AllTasks)
    BY <1>7 DEF TakeTask
  <2> QED
    BY <1>7, <2>1 DEF TakeTask, PopFront, PCs, Fates
<1>8. CASE DeleteExpired
  BY <1>8 DEF DeleteExpired, AfterDelete, PCs, Fates
<1>9. CASE BeginTask
  BY <1>9 DEF BeginTask, PCs, Fates, ThreadState
<1>10. CASE FinishTask
  BY <1>10 DEF FinishTask, AfterDelete, PCs, Fates
<1>11. ASSUME NEW c \in Callers \cup {Self}, NotifyOne(c) PROVE TypeOK'
  BY <1>11, WakeWaitingType DEF NotifyOne
<1>12. ASSUME NEW c \in Callers \cup {Self}, Shutdown(c) PROVE TypeOK'
  BY <1>12, WakeWaitingType DEF Shutdown, WithLastTask, AllTasks, Fates
<1>13. ASSUME NEW c \in Callers \cup {Self}, NEW t \in Tasks, AddTask(c, t)
       PROVE  TypeOK'
  <2>1. t \in AllTasks
    BY DEF AllTasks
  <2> QED
    BY <1>13, <2>1, PushedType DEF AddTask, Fates
<1>14. CASE UNCHANGED vars
  BY <1>14 DEF vars
<1> QED
  BY <1>1, <1>2, <1>3, <1>4, <1>5, <1>6, <1>7, <1>8, <1>9, <1>10, <1>11, <1>12,
     <1>13, <1>14 DEF Next, ThreadMain

-----------------------------------------------------------------------------

\* Once stop() has been called nothing is accepted any more, so the task that
\* shutdown() appended stays the last one of the list until it is taken, and
\* only that task can terminate the thread.
LastTaskIsLast ==
    /\ fate[LastTask] \in {"new", "queued", "taken"} /\ pc # "none" =>
         threadState # "TERMINATED"
    /\ threadState = "CLOSING" /\ fate[LastTask] = "queued" =>
         taskList[Len(taskList)] = LastTask
    /\ threadState = "CLOSING" /\ fate[LastTask] \notin {"new", "queued"} =>
         taskList = <<>>

\* The inductive invariant.  NoLostWakeup and SchedulerTasksFirst need only the
\* types; OneOwner is needed to know that the task threadMain takes is queued
\* in no other place; LastTaskIsLast is what DrainedWhenClosed rests on.
Inv == TypeOK /\ OneOwner /\ NoLostWakeup /\ SchedulerTasksFirst /\ LastTaskIsLast

\* What TakeTask leaves in the list.
LEMMA TailProperties ==
    ASSUME taskList \in Seq(AllTasks), taskList # <<>>
    PROVE  /\ Len(taskList) \in Nat \ {0}
           /\ Head(taskList) = taskList[1]
           /\ Head(taskList) \in AllTasks
           /\ Tail(taskList) \in Seq(AllTasks)
           /\ Len(Tail(taskList)) = Len(taskList) - 1
           /\ \A i \in 1 .. Len(taskList) - 1 : Tail(taskList)[i] = taskList[i + 1]
  OBVIOUS

\* One critical section or one step of threadMain preserves ownership.
LEMMA OneOwnerStep == Inv /\ [Next]_vars => OneOwner'
<1> SUFFICES ASSUME Inv, [Next]_vars PROVE OneOwner'
  OBVIOUS
<1> USE DEF Inv, TypeOK
<1>1. CASE taskList' = taskList /\ fate' = fate /\ task' = task
  BY <1>1 DEF OneOwner, Listed
<1>2. CASE TakeTask
  <2> DEFINE h == Head(taskList)
             n == Len(taskList)
  <2>1. /\ n \in Nat \ {0}
        /\ h = taskList[1]
        /\ h \in AllTasks
        /\ taskList' \in Seq(AllTasks)
        /\ Len(taskList') = n - 1
        /\ \A i \in 1 .. n - 1 : taskList'[i] = taskList[i + 1]
    BY <1>2, TailProperties DEF TakeTask, PopFront
  <2>2. task = NoTask
    BY <1>2 DEF TakeTask, HoldsTask
  <2>3. \A i, j \in DOMAIN taskList' : taskList'[i] = taskList'[j] => i = j
    BY <2>1 DEF OneOwner
  <2>4. Listed' = Listed \ {h}
    <3>1. DOMAIN taskList = 1 .. n /\ DOMAIN taskList' = 1 .. n - 1
      BY <2>1
    <3>2. ASSUME NEW x \in Listed' PROVE x \in Listed /\ x # h
      <4>1. PICK i \in 1 .. n - 1 : x = taskList'[i]
        BY <3>1 DEF Listed
      <4>2. x = taskList[i + 1] /\ i + 1 \in 1 .. n /\ i + 1 # 1 /\ 1 \in 1 .. n
        BY <4>1, <2>1
      <4> QED
        BY <4>2, <3>1, <2>1 DEF Listed, OneOwner
    <3>3. ASSUME NEW x \in Listed, x # h PROVE x \in Listed'
      <4>1. PICK i \in 1 .. n : x = taskList[i]
        BY <3>1 DEF Listed
      <4>2. i - 1 \in 1 .. n - 1 /\ taskList'[i - 1] = x
        BY <4>1, <3>3, <2>1
      <4> QED
        BY <4>2, <3>1 DEF Listed
    <3> QED
      BY <3>2, <3>3
  <2>5. fate' = [fate EXCEPT ![h] = "taken"] /\ task' = h
    BY <1>2 DEF TakeTask
  <2>6. \A t \in AllTasks : fate[t] \notin {"taken", "running"}
    BY <2>2, DispatcherAssumption DEF OneOwner, AllTasks
  <2>7. ASSUME NEW t \in AllTasks
        PROVE  /\ fate'[t] = "queued" <=> t \in Listed'
               /\ fate'[t] \in {"taken", "running"} <=> t = task'
    <3>1. fate[t] = "queued" <=> t \in Listed
      BY DEF OneOwner
    <3> QED
      BY <3>1, <2>1, <2>4, <2>5, <2>6
  <2> QED
    BY <2>3, <2>7 DEF OneOwner
<1>3. CASE DeleteExpired \/ BeginTask \/ FinishTask
  <2>1. task \in AllTasks /\ task # NoTask
    BY <1>3, DispatcherAssumption
       DEF DeleteExpired, BeginTask, FinishTask, HoldsTask, AllTasks
  <2>2. taskList' = taskList
    BY <1>3 DEF DeleteExpired, BeginTask, FinishTask
  <2>3. \/ /\ task' = NoTask
           /\ \/ fate' = [fate EXCEPT ![task] = "expired"]
              \/ fate' = [fate EXCEPT ![task] = "executed"]
        \/ task' = task /\ fate' = [fate EXCEPT ![task] = "running"]
    BY <1>3 DEF DeleteExpired, BeginTask, FinishTask, AfterDelete
  <2>4. NoTask \notin AllTasks
    BY DispatcherAssumption DEF AllTasks
  <2> QED
    BY <2>1, <2>2, <2>3, <2>4 DEF OneOwner, Listed
<1>4. ASSUME NEW t \in AllTasks,
             fate[t] = "new", task' = task, fate' = [fate EXCEPT ![t] = "queued"],
             taskList' \in Seq(AllTasks),
             NEW k \in 1 .. Len(taskList) + 1,
             Len(taskList') = Len(taskList) + 1, taskList'[k] = t,
             \A i \in 1 .. Len(taskList) :
                 taskList[i] = taskList'[IF i < k THEN i ELSE i + 1]
      PROVE  OneOwner'
  <2> DEFINE n == Len(taskList)
  <2>1. DOMAIN taskList = 1 .. n /\ DOMAIN taskList' = 1 .. n + 1 /\ n \in Nat
    BY <1>4
  <2>2. \A i \in 1 .. n + 1 :
          i # k => LET j == IF i < k THEN i ELSE i - 1
                   IN  j \in 1 .. n /\ taskList'[i] = taskList[j]
    BY <1>4, <2>1
  <2>3. t \notin Listed /\ t # task
    BY <1>4 DEF OneOwner
  <2>4. Listed' = Listed \cup {t}
    <3>1. Listed' \subseteq Listed \cup {t}
      BY <2>1, <2>2, <1>4 DEF Listed
    <3>2. t \in Listed'
      BY <2>1, <1>4 DEF Listed
    <3>3. ASSUME NEW i \in 1 .. n PROVE taskList[i] \in Listed'
      <4>1. (IF i < k THEN i ELSE i + 1) \in 1 .. n + 1
        BY <2>1
      <4> QED
        BY <4>1, <2>1, <1>4 DEF Listed
    <3> QED
      BY <3>1, <3>2, <3>3, <2>1 DEF Listed
  <2>5. \A i \in 1 .. n : taskList[i] # t
    BY <2>1, <2>3 DEF Listed
  <2>6. ASSUME NEW i \in 1 .. n + 1, NEW j \in 1 .. n + 1, taskList'[i] = taskList'[j]
        PROVE  i = j
    <3>1. i = k <=> j = k
      BY <2>2, <2>5, <2>6, <1>4
    <3>2. CASE i # k
      <4> DEFINE a == IF i < k THEN i ELSE i - 1
                 b == IF j < k THEN j ELSE j - 1
      <4>1. a \in 1 .. n /\ b \in 1 .. n /\ taskList[a] = taskList[b]
        BY <2>2, <2>6, <3>1, <3>2
      <4>2. a = b
        BY <4>1, <2>1 DEF OneOwner
      <4> QED
        BY <4>2, <3>1, <3>2, <2>1
    <3> QED
      BY <3>1, <3>2
  <2>7. ASSUME NEW u \in AllTasks
        PROVE  /\ fate'[u] = "queued" <=> u \in Listed'
               /\ fate'[u] \in {"taken", "running"} <=> u = task'
    BY <1>4, <2>3, <2>4 DEF OneOwner
  <2> QED
    BY <2>1, <2>6, <2>7 DEF OneOwner
<1>5. ASSUME NEW c \in Callers \cup {Self}, Shutdown(c) PROVE OneOwner'
  <2>1. LastTask \in AllTasks /\ Len(taskList) + 1 \in 1 .. Len(taskList) + 1
    BY DEF AllTasks
  <2>2. /\ taskList' \in Seq(AllTasks)
        /\ Len(taskList') = Len(taskList) + 1
        /\ taskList'[Len(taskList) + 1] = LastTask
        /\ \A i \in 1 .. Len(taskList) : taskList'[i] = taskList[i]
    BY <1>5, <2>1 DEF Shutdown, WithLastTask
  <2>3. \A i \in 1 .. Len(taskList) :
          taskList[i] = taskList'[IF i < Len(taskList) + 1 THEN i ELSE i + 1]
    BY <2>2
  <2> QED
    BY <1>4, <1>5, <2>1, <2>2, <2>3 DEF Shutdown
<1>6. ASSUME NEW c \in Callers \cup {Self}, NEW t \in Tasks, AddTask(c, t)
      PROVE  OneOwner'
  <2>1. t \in AllTasks /\ fate[t] = "new" /\ task' = task
    BY <1>6 DEF AddTask, AllTasks
  <2>2. CASE ~Accepting
    <3>1. taskList' = taskList /\ fate' = [fate EXCEPT ![t] = "rejected"]
      BY <1>6, <2>2 DEF AddTask
    <3> QED
      BY <2>1, <3>1 DEF OneOwner, Listed
  <2>3. CASE Accepting
    <3>1. taskList' = Pushed(t) /\ fate' = [fate EXCEPT ![t] = "queued"]
      BY <1>6, <2>3 DEF AddTask
    <3>2. CASE t \in SchedulerTasks
      <4>0. Len(taskList) \in Nat
        OBVIOUS
      <4>3. /\ taskList' \in Seq(AllTasks)
            /\ Len(taskList') = Len(taskList) + 1
            /\ taskList'[1] = t
            /\ \A i \in 2 .. Len(taskList) + 1 : taskList'[i] = taskList[i - 1]
        BY <3>1, <3>2, <2>1, PushedType
      <4>1. \A i \in 1 .. Len(taskList) :
               taskList[i] = taskList'[IF i < 1 THEN i ELSE i + 1]
        <5> TAKE i \in 1 .. Len(taskList)
        <5>1. i + 1 \in 2 .. Len(taskList) + 1 /\ (i + 1) - 1 = i /\ ~(i < 1)
          BY <4>0
        <5> QED
          BY <4>3, <5>1
      <4>2. 1 \in 1 .. Len(taskList) + 1
        BY <4>0
      <4> QED
        BY <4>1, <4>2, <4>3, <3>1, <2>1, <1>4
    <3>3. CASE t \notin SchedulerTasks
      <4>0. Len(taskList) \in Nat /\ Len(taskList) + 1 \in 1 .. Len(taskList) + 1
        OBVIOUS
      <4>1. /\ taskList' \in Seq(AllTasks)
            /\ Len(taskList') = Len(taskList) + 1
            /\ taskList'[Len(taskList) + 1] = t
            /\ \A i \in 1 .. Len(taskList) : taskList'[i] = taskList[i]
        BY <3>1, <3>3, <2>1, PushedType
      <4>2. \A i \in 1 .. Len(taskList) :
               taskList[i] = taskList'[IF i < Len(taskList) + 1 THEN i ELSE i + 1]
        BY <4>1
      <4> QED
        BY <4>0, <4>1, <4>2, <3>1, <2>1, <1>4
    <3> QED
      BY <3>2, <3>3
  <2> QED
    BY <2>2, <2>3
<1> QED
  BY <1>1, <1>2, <1>3, <1>5, <1>6
     DEF Next, ThreadMain, vars, Start, Stop, SpuriousWakeup, TestState, Wait,
         NothingToTake, NotifyOne

\* The condition variable: only Wait puts the thread to sleep, on an empty
\* list; whoever makes the list non-empty owes a notification.
LEMMA NoLostWakeupStep == Inv /\ [Next]_vars => NoLostWakeup'
<1> SUFFICES ASSUME Inv, [Next]_vars PROVE NoLostWakeup'
  OBVIOUS
<1> USE DEF Inv, NoLostWakeup
<1>1. CASE UNCHANGED <<pc, taskList, signalling>>
  BY <1>1
<1>2. CASE Start \/ SpuriousWakeup \/ TestState \/ Wait \/ NothingToTake \/ TakeTask
             \/ DeleteExpired \/ BeginTask \/ FinishTask
  BY <1>2 DEF Start, SpuriousWakeup, TestState, Wait, NothingToTake, TakeTask,
              DeleteExpired, BeginTask, FinishTask
<1>3. ASSUME NEW c \in Callers \cup {Self}, NotifyOne(c) \/ Shutdown(c)
      PROVE  pc' # "waiting"
  BY <1>3 DEF NotifyOne, Shutdown, WakeWaiting
<1>4. ASSUME NEW c \in Callers \cup {Self}, NEW t \in Tasks, AddTask(c, t)
      PROVE  NoLostWakeup'
  BY <1>4 DEF AddTask, SignalNeeded
<1> QED
  BY <1>1, <1>2, <1>3, <1>4 DEF Next, ThreadMain, vars, Stop

\* The scheduler's tasks form a prefix of the list.
LEMMA SchedulerTasksFirstStep == Inv /\ [Next]_vars => SchedulerTasksFirst'
<1> SUFFICES ASSUME Inv, [Next]_vars PROVE SchedulerTasksFirst'
  OBVIOUS
<1> USE DEF Inv, TypeOK
<1> DEFINE n == Len(taskList)
<1>0. n \in Nat /\ DOMAIN taskList = 1 .. n
  OBVIOUS
<1>1. CASE UNCHANGED taskList
  BY <1>1 DEF SchedulerTasksFirst
<1>2. CASE TakeTask
  <2>1. /\ taskList' \in Seq(AllTasks)
        /\ Len(taskList') = n - 1
        /\ \A i \in 1 .. n - 1 : taskList'[i] = taskList[i + 1]
    BY <1>2, TailProperties DEF TakeTask, PopFront
  <2>2. ASSUME NEW i \in 1 .. n - 1, NEW j \in 1 .. n - 1, i < j,
               taskList'[j] \in SchedulerTasks
        PROVE  taskList'[i] \in SchedulerTasks
    <3>1. i + 1 \in 1 .. n /\ j + 1 \in 1 .. n /\ i + 1 < j + 1
      BY <1>0, <2>2
    <3> QED
      BY <3>1, <2>1, <2>2, <1>0 DEF SchedulerTasksFirst
  <2> QED
    BY <2>1, <2>2 DEF SchedulerTasksFirst
<1>3. ASSUME NEW t \in AllTasks, t \notin SchedulerTasks,
             taskList' \in Seq(AllTasks), Len(taskList') = n + 1, taskList'[n + 1] = t,
             \A i \in 1 .. n : taskList'[i] = taskList[i]
      PROVE  SchedulerTasksFirst'
  <2>1. ASSUME NEW i \in 1 .. n + 1, NEW j \in 1 .. n + 1, i < j,
               taskList'[j] \in SchedulerTasks
        PROVE  taskList'[i] \in SchedulerTasks
    <3>1. j # n + 1
      BY <2>1, <1>3
    <3>2. i \in 1 .. n /\ j \in 1 .. n
      BY <3>1, <2>1, <1>0
    <3> QED
      BY <3>2, <2>1, <1>3, <1>0 DEF SchedulerTasksFirst
  <2>2. DOMAIN taskList' = 1 .. n + 1
    BY <1>3
  <2> QED
    BY <2>1, <2>2 DEF SchedulerTasksFirst
<1>4. ASSUME NEW c \in Callers \cup {Self}, Shutdown(c) PROVE SchedulerTasksFirst'
  <2>1. LastTask \in AllTasks /\ LastTask \notin SchedulerTasks
    BY DispatcherAssumption DEF AllTasks
  <2>2. /\ taskList' \in Seq(AllTasks)
        /\ Len(taskList') = n + 1
        /\ taskList'[n + 1] = LastTask
        /\ \A i \in 1 .. n : taskList'[i] = taskList[i]
    BY <1>4, <2>1 DEF Shutdown, WithLastTask
  <2> QED
    BY <1>3, <2>1, <2>2
<1>5. ASSUME NEW c \in Callers \cup {Self}, NEW t \in Tasks, AddTask(c, t),
             ~UNCHANGED taskList
      PROVE  SchedulerTasksFirst'
  <2>1. t \in AllTasks /\ taskList' = Pushed(t)
    BY <1>5 DEF AddTask, AllTasks
  <2>2. CASE t \notin SchedulerTasks
    <3>1. /\ taskList' \in Seq(AllTasks)
          /\ Len(taskList') = n + 1
          /\ taskList'[n + 1] = t
          /\ \A i \in 1 .. n : taskList'[i] = taskList[i]
      BY <2>1, <2>2, PushedType
    <3> QED
      BY <1>3, <2>1, <2>2, <3>1
  <2>3. CASE t \in SchedulerTasks
    <3>1. /\ taskList' \in Seq(AllTasks)
          /\ Len(taskList') = n + 1
          /\ taskList'[1] = t
          /\ \A i \in 2 .. n + 1 : taskList'[i] = taskList[i - 1]
      BY <2>1, <2>3, PushedType
    <3>2. ASSUME NEW i \in 1 .. n + 1, NEW j \in 1 .. n + 1, i < j,
                 taskList'[j] \in SchedulerTasks
          PROVE  taskList'[i] \in SchedulerTasks
      <4>1. CASE i = 1
        BY <4>1, <3>1, <2>3
      <4>2. CASE i # 1
        <5>1. /\ i \in 2 .. n + 1 /\ j \in 2 .. n + 1
              /\ i - 1 \in 1 .. n /\ j - 1 \in 1 .. n /\ i - 1 < j - 1
          BY <4>2, <3>2, <1>0
        <5>2. taskList'[i] = taskList[i - 1] /\ taskList'[j] = taskList[j - 1]
          BY <5>1, <3>1
        <5> QED
          BY <5>1, <5>2, <3>2, <1>0 DEF SchedulerTasksFirst
      <4> QED
        BY <4>1, <4>2
    <3>3. DOMAIN taskList' = 1 .. n + 1
      BY <3>1
    <3> QED
      BY <3>2, <3>3 DEF SchedulerTasksFirst
  <2> QED
    BY <2>2, <2>3
<1> QED
  BY <1>1, <1>2, <1>4, <1>5
     DEF Next, ThreadMain, vars, Start, Stop, SpuriousWakeup, TestState, Wait,
         NothingToTake, DeleteExpired, BeginTask, FinishTask, NotifyOne

\* After stop() the list only shrinks, shutdown() aside.
LEMMA LastTaskIsLastStep == Inv /\ [Next]_vars => LastTaskIsLast'
<1> SUFFICES ASSUME Inv, [Next]_vars PROVE LastTaskIsLast'
  OBVIOUS
<1> USE DEF Inv, TypeOK
<1>0. LastTask \in AllTasks /\ LastTask \notin Tasks /\ NoTask # LastTask
  BY DispatcherAssumption DEF AllTasks
<1>1. CASE UNCHANGED <<threadState, taskList, fate>> /\ (pc = "none" => pc' = "none")
  BY <1>1 DEF LastTaskIsLast
<1>2. CASE Start
  BY <1>2 DEF Start, LastTaskIsLast
<1>3. CASE Stop
  BY <1>3 DEF Stop, LastTaskIsLast
<1>4. CASE TakeTask
  <2> DEFINE n == Len(taskList)
  <2>1. /\ n \in Nat \ {0}
        /\ Head(taskList) = taskList[1]
        /\ Head(taskList) \in AllTasks
        /\ Tail(taskList) \in Seq(AllTasks)
        /\ Len(Tail(taskList)) = n - 1
        /\ \A i \in 1 .. n - 1 : Tail(taskList)[i] = taskList[i + 1]
    BY <1>4, TailProperties DEF TakeTask
  <2>2. /\ taskList' = Tail(taskList)
        /\ fate' = [fate EXCEPT ![taskList[1]] = "taken"]
        /\ threadState' = threadState
        /\ pc # "none"
    BY <1>4, <2>1 DEF TakeTask, PopFront
  <2>3. fate[LastTask] = "queued" <=> \E i \in 1 .. n : taskList[i] = LastTask
    BY <1>0, <2>1 DEF OneOwner, Listed
  <2>4. threadState = "CLOSING" => fate[LastTask] \in {"new", "queued"}
    BY <1>4 DEF LastTaskIsLast, TakeTask
  <2>5. CASE threadState = "CLOSING" /\ taskList[1] = LastTask
    <3>1. fate[LastTask] = "queued" /\ taskList[n] = LastTask
      BY <2>1, <2>3, <2>5 DEF LastTaskIsLast
    <3>2. n = 1
      BY <3>1, <2>1, <2>5 DEF OneOwner
    <3>3. taskList' = <<>>
      BY <3>2, <2>1, <2>2
    <3> QED
      BY <3>3, <2>2, <2>5, <1>0 DEF LastTaskIsLast
  <2>6. CASE threadState = "CLOSING" /\ taskList[1] # LastTask
    <3>1. fate'[LastTask] = fate[LastTask]
      BY <1>0, <2>2, <2>6
    <3>2. fate[LastTask] = "queued" => taskList'[Len(taskList')] = LastTask
      <4>1. SUFFICES ASSUME fate[LastTask] = "queued"
                     PROVE  taskList'[Len(taskList')] = LastTask
        OBVIOUS
      <4>2. taskList[n] = LastTask
        BY <4>1, <2>6 DEF LastTaskIsLast
      <4>3. n # 1
        BY <4>2, <2>6
      <4>4. n - 1 \in 1 .. n - 1 /\ (n - 1) + 1 = n
        BY <4>3, <2>1
      <4> QED
        BY <4>2, <4>4, <2>1, <2>2
    <3> QED
      BY <3>1, <3>2, <2>2, <2>4, <2>6 DEF LastTaskIsLast
  <2>7. CASE threadState # "CLOSING"
    <3>1. fate'[LastTask] \in {"new", "queued", "taken"} =>
            fate[LastTask] \in {"new", "queued", "taken"}
      BY <1>0, <2>1, <2>2, <2>3
    <3> QED
      BY <3>1, <2>2, <2>7 DEF LastTaskIsLast
  <2> QED
    BY <2>5, <2>6, <2>7
<1>5. CASE DeleteExpired \/ FinishTask
  <2>1. /\ task \in AllTasks
        /\ threadState' = threadState /\ taskList' = taskList
        /\ pc # "none"
        /\ \/ fate' = [fate EXCEPT ![task] = "expired"]
           \/ fate' = [fate EXCEPT ![task] = "executed"]
    BY <1>5 DEF DeleteExpired, FinishTask, HoldsTask
  <2>2. task = LastTask => fate[LastTask] \in {"taken", "running"}
    BY <1>0 DEF OneOwner
  <2> QED
    BY <1>0, <2>1, <2>2 DEF LastTaskIsLast
<1>6. CASE BeginTask
  <2>1. /\ task \in AllTasks
        /\ taskList' = taskList
        /\ pc # "none"
        /\ fate' = [fate EXCEPT ![task] = "running"]
        /\ threadState' = IF task = LastTask THEN "TERMINATED" ELSE threadState
    BY <1>6 DEF BeginTask, HoldsTask
  <2> QED
    BY <1>0, <2>1 DEF LastTaskIsLast
<1>7. ASSUME NEW c \in Callers \cup {Self}, Shutdown(c) PROVE LastTaskIsLast'
  <2>1. /\ threadState' = threadState
        /\ fate' = [fate EXCEPT ![LastTask] = "queued"]
        /\ fate[LastTask] = "new"
        /\ pc # "none"
        /\ taskList'[Len(taskList')] = LastTask
    BY <1>0, <1>7 DEF Shutdown, WithLastTask, CanCall
  <2> QED
    BY <1>0, <2>1 DEF LastTaskIsLast
<1>8. ASSUME NEW c \in Callers \cup {Self}, NEW t \in Tasks, AddTask(c, t)
      PROVE  LastTaskIsLast'
  <2>1. /\ threadState' = threadState /\ pc' = pc
        /\ fate'[LastTask] = fate[LastTask]
        /\ threadState # "RUNNING" => taskList' = taskList
    BY <1>0, <1>8 DEF AddTask, Accepting
  <2> QED
    BY <2>1 DEF LastTaskIsLast
<1>9. ASSUME NEW c \in Callers \cup {Self}, NotifyOne(c) PROVE LastTaskIsLast'
  BY <1>9 DEF NotifyOne, WakeWaiting, LastTaskIsLast
<1>10. CASE SpuriousWakeup \/ TestState \/ Wait \/ NothingToTake
  BY <1>10 DEF SpuriousWakeup, TestState, Wait, NothingToTake, LastTaskIsLast
<1> QED
  BY <1>1, <1>2, <1>3, <1>4, <1>5, <1>6, <1>7, <1>8, <1>9, <1>10
     DEF Next, ThreadMain, vars

\* The inductive invariant holds initially and always.
THEOREM Invariance == Spec => []Inv
<1>1. Init => Inv
  <2> SUFFICES ASSUME Init PROVE Inv
    OBVIOUS
  <2>1. TypeOK
    BY DEF Init, TypeOK, HoldsTask, ThreadState, PCs, Fates
  <2>2. OneOwner
    BY DispatcherAssumption DEF Init, OneOwner, Listed, AllTasks
  <2> QED
    BY <2>1, <2>2 DEF Init, Inv, NoLostWakeup, SchedulerTasksFirst, LastTaskIsLast, AllTasks
<1>2. Inv /\ [Next]_vars => Inv'
  BY TypeOKStep, OneOwnerStep, NoLostWakeupStep, SchedulerTasksFirstStep,
     LastTaskIsLastStep DEF Inv
<1> QED
  BY <1>1, <1>2, PTL DEF Spec

\* Type correctness: in particular threadMain holds a task exactly between
\* popping it from taskList and deleting it.
THEOREM TypeCorrect == Spec => []TypeOK
  BY Invariance, PTL DEF Inv

\* A task is executed at most once and deleted once: it has one owner.
THEOREM OwnershipHolds == Spec => []OneOwner
  BY Invariance, PTL DEF Inv

\* threadMain never sleeps through an accepted task.
THEOREM WakeupHolds == Spec => []NoLostWakeup
  BY Invariance, PTL DEF Inv

\* The scheduler's tasks are never behind the others.
THEOREM PriorityHolds == Spec => []SchedulerTasksFirst
  BY Invariance, PTL DEF Inv

\* After an orderly closing no accepted task is left when the thread
\* terminates.
THEOREM DrainHolds == Spec => DrainedWhenClosed
<1>1. Inv /\ [Next]_vars =>
        [threadState = "CLOSING" /\ threadState' = "TERMINATED" => taskList' = <<>>]_vars
  <2> SUFFICES ASSUME Inv, [Next]_vars, threadState = "CLOSING", threadState' = "TERMINATED"
               PROVE  taskList' = <<>>
    BY DEF vars
  <2>1. BeginTask
    BY DEF Next, ThreadMain, vars, Start, Stop, SpuriousWakeup, TestState, Wait,
           NothingToTake, TakeTask, DeleteExpired, FinishTask, NotifyOne, Shutdown, AddTask
  <2>2. task = LastTask /\ taskList' = taskList
    BY <2>1 DEF BeginTask
  <2>3. fate[LastTask] \in {"taken", "running"}
    BY <2>2 DEF Inv, OneOwner, AllTasks
  <2> QED
    BY <2>2, <2>3 DEF Inv, LastTaskIsLast
<1> QED
  BY <1>1, Invariance, PTL DEF Spec, DrainedWhenClosed

-----------------------------------------------------------------------------
(* The refinement of TaskQueue *)

\* A list of tasks has one prefix of scheduler tasks.
LEMMA UrgentCountUnique ==
    ASSUME NEW list \in Seq(AllTasks), NEW k, UrgentPrefix(list, k)
    PROVE  UrgentCount(list) = k
<1>1. \A j \in 0 .. Len(list) : UrgentPrefix(list, j) => j = k
  <2> SUFFICES ASSUME NEW j \in 0 .. Len(list), UrgentPrefix(list, j) PROVE j = k
    OBVIOUS
  <2>0. Len(list) \in Nat /\ k \in 0 .. Len(list)
    BY DEF UrgentPrefix
  <2>1. ~(j < k)
    <3> SUFFICES ASSUME j < k PROVE FALSE
      OBVIOUS
    <3>1. j + 1 \in 1 .. k /\ j < Len(list)
      BY <2>0
    <3> QED
      BY <3>1 DEF UrgentPrefix
  <2>2. ~(k < j)
    <3> SUFFICES ASSUME k < j PROVE FALSE
      OBVIOUS
    <3>1. k + 1 \in 1 .. j /\ k < Len(list)
      BY <2>0
    <3> QED
      BY <3>1 DEF UrgentPrefix
  <2> QED
    BY <2>0, <2>1, <2>2
<1>2. k \in 0 .. Len(list)
  BY DEF UrgentPrefix
<1> QED
  BY <1>1, <1>2 DEF UrgentCount

\* The parts of a list of tasks.
LEMMA PartsType ==
    ASSUME NEW list \in Seq(AllTasks), NEW k \in 0 .. Len(list)
    PROVE  /\ SubSeq(list, 1, k) \in Seq(AllTasks)
           /\ Len(SubSeq(list, 1, k)) = k
           /\ \A i \in 1 .. k : SubSeq(list, 1, k)[i] = list[i]
           /\ SubSeq(list, k + 1, Len(list)) \in Seq(AllTasks)
           /\ Len(SubSeq(list, k + 1, Len(list))) = Len(list) - k
           /\ \A i \in 1 .. Len(list) - k : SubSeq(list, k + 1, Len(list))[i] = list[k + i]
<1> DEFINE n == Len(list)
<1>1. n \in Nat /\ \A i \in 1 .. n : list[i] \in AllTasks
  OBVIOUS
<1>2. /\ SubSeq(list, 1, k) \in Seq(AllTasks)
      /\ Len(SubSeq(list, 1, k)) = IF 1 <= k THEN k - 1 + 1 ELSE 0
      /\ \A i \in 1 .. k - 1 + 1 : SubSeq(list, 1, k)[i] = list[1 + i - 1]
  <2>1. 1 \in Int /\ k \in Int /\ \A i \in 1 .. k : list[i] \in AllTasks
    BY <1>1
  <2> QED
    BY <2>1, SubSeqProperties
<1>3. /\ SubSeq(list, k + 1, n) \in Seq(AllTasks)
      /\ Len(SubSeq(list, k + 1, n)) = IF k + 1 <= n THEN n - (k + 1) + 1 ELSE 0
      /\ \A i \in 1 .. n - (k + 1) + 1 : SubSeq(list, k + 1, n)[i] = list[k + 1 + i - 1]
  <2>1. k + 1 \in Int /\ n \in Int /\ \A i \in k + 1 .. n : list[i] \in AllTasks
    BY <1>1
  <2> QED
    BY <2>1, SubSeqProperties
<1>4. Len(SubSeq(list, 1, k)) = k
  BY <1>2
<1>5. Len(SubSeq(list, k + 1, n)) = n - k
  BY <1>1, <1>3
<1>6. \A i \in 1 .. k : SubSeq(list, 1, k)[i] = list[i]
  BY <1>2
<1>7. \A i \in 1 .. n - k : SubSeq(list, k + 1, n)[i] = list[k + i]
  <2> TAKE i \in 1 .. n - k
  <2>1. i \in 1 .. n - (k + 1) + 1 /\ k + 1 + i - 1 = k + i
    BY <1>1
  <2> QED
    BY <2>1, <1>3
<1> QED
  BY <1>2, <1>3, <1>4, <1>5, <1>6, <1>7

\* Appending an ordinary task leaves the scheduler's part as it is.
LEMMA AppendParts ==
    ASSUME NEW list \in Seq(AllTasks), NEW k, UrgentPrefix(list, k),
           NEW t \in AllTasks, t \notin SchedulerTasks
    PROVE  LET m == Append(list, t)
           IN  /\ UrgentPrefix(m, k)
               /\ SubSeq(m, 1, k) = SubSeq(list, 1, k)
               /\ SubSeq(m, k + 1, Len(m)) = Append(SubSeq(list, k + 1, Len(list)), t)
<1> DEFINE n == Len(list)
           m == Append(list, t)
<1>1. /\ n \in Nat /\ k \in 0 .. n
      /\ m \in Seq(AllTasks) /\ Len(m) = n + 1 /\ m[n + 1] = t
      /\ \A i \in 1 .. n : m[i] = list[i]
  BY DEF UrgentPrefix
<1> HIDE DEF m
<1>2. UrgentPrefix(m, k)
  BY <1>1 DEF UrgentPrefix
<1>3. SubSeq(m, 1, k) = SubSeq(list, 1, k)
  <2>1. k \in 0 .. Len(m) /\ \A i \in 1 .. k : m[i] = list[i]
    BY <1>1
  <2>2. /\ SubSeq(m, 1, k) \in Seq(AllTasks) /\ Len(SubSeq(m, 1, k)) = k
        /\ \A i \in 1 .. k : SubSeq(m, 1, k)[i] = m[i]
    BY <1>1, <2>1, PartsType
  <2>3. /\ SubSeq(list, 1, k) \in Seq(AllTasks) /\ Len(SubSeq(list, 1, k)) = k
        /\ \A i \in 1 .. k : SubSeq(list, 1, k)[i] = list[i]
    BY <1>1, PartsType
  <2> QED
    BY <2>1, <2>2, <2>3, SeqEqual
<1>4. SubSeq(m, k + 1, Len(m)) = Append(SubSeq(list, k + 1, n), t)
  <2> DEFINE s == SubSeq(m, k + 1, Len(m))
             r == SubSeq(list, k + 1, n)
  <2>1. k \in 0 .. Len(m)
    BY <1>1
  <2>2. /\ s \in Seq(AllTasks) /\ Len(s) = Len(m) - k
        /\ \A i \in 1 .. Len(m) - k : s[i] = m[k + i]
    BY <1>1, <2>1, PartsType
  <2>3. /\ r \in Seq(AllTasks) /\ Len(r) = n - k
        /\ \A i \in 1 .. n - k : r[i] = list[k + i]
    BY <1>1, PartsType
  <2> HIDE DEF s, r
  <2>4. /\ Append(r, t) \in Seq(AllTasks)
        /\ Len(Append(r, t)) = Len(s)
        /\ Append(r, t)[n - k + 1] = t
        /\ \A i \in 1 .. n - k : Append(r, t)[i] = r[i]
    BY <1>1, <2>2, <2>3
  <2>5. ASSUME NEW i \in 1 .. Len(s) PROVE s[i] = Append(r, t)[i]
    <3>1. i \in 1 .. n + 1 - k /\ s[i] = m[k + i]
      BY <1>1, <2>2
    <3>2. CASE i = n - k + 1
      <4>1. k + i = n + 1
        BY <3>2, <1>1
      <4> QED
        BY <4>1, <3>1, <3>2, <2>4, <1>1
    <3>3. CASE i # n - k + 1
      <4>1. i \in 1 .. n - k /\ k + i \in 1 .. n
        BY <3>1, <3>3, <1>1
      <4> QED
        BY <4>1, <3>1, <2>3, <2>4, <1>1
    <3> QED
      BY <3>2, <3>3
  <2>6. s = Append(r, t)
    BY <2>2, <2>4, <2>5, SeqEqual
  <2> QED
    BY <2>6 DEF s, r
<1> QED
  BY <1>2, <1>3, <1>4 DEF m

\* Putting a scheduler task in front leaves the other part as it is.
LEMMA PushParts ==
    ASSUME NEW list \in Seq(AllTasks), NEW k, UrgentPrefix(list, k),
           NEW t \in AllTasks, t \in SchedulerTasks
    PROVE  LET m == <<t>> \o list
           IN  /\ UrgentPrefix(m, k + 1)
               /\ SubSeq(m, 1, k + 1) = <<t>> \o SubSeq(list, 1, k)
               /\ SubSeq(m, (k + 1) + 1, Len(m)) = SubSeq(list, k + 1, Len(list))
<1> DEFINE n == Len(list)
           m == <<t>> \o list
<1>0. <<t>> \in Seq(AllTasks) /\ Len(<<t>>) = 1 /\ <<t>>[1] = t
  OBVIOUS
<1>1. /\ n \in Nat /\ k \in 0 .. n
      /\ m \in Seq(AllTasks) /\ Len(m) = n + 1 /\ m[1] = t
      /\ \A i \in 2 .. n + 1 : m[i] = list[i - 1]
  <2>1. n \in Nat /\ k \in 0 .. n
    BY DEF UrgentPrefix
  <2> QED
    BY <1>0, <2>1, ConcatProperties
<1> HIDE DEF m
<1>2. k + 1 \in 0 .. Len(m)
  BY <1>1
<1>3. UrgentPrefix(m, k + 1)
  <2>1. ASSUME NEW i \in 1 .. k + 1 PROVE m[i] \in SchedulerTasks
    <3>1. CASE i = 1
      BY <3>1, <1>1
    <3>2. CASE i # 1
      <4>1. i - 1 \in 1 .. k /\ i \in 2 .. n + 1
        BY <3>2, <1>1
      <4> QED
        BY <4>1, <1>1 DEF UrgentPrefix
    <3> QED
      BY <3>1, <3>2
  <2>2. ASSUME k + 1 < Len(m) PROVE m[(k + 1) + 1] \notin SchedulerTasks
    <3>1. k < n /\ (k + 1) + 1 \in 2 .. n + 1 /\ ((k + 1) + 1) - 1 = k + 1
      BY <2>2, <1>1
    <3>2. m[(k + 1) + 1] = list[k + 1]
      BY <3>1, <1>1
    <3> QED
      BY <3>1, <3>2 DEF UrgentPrefix
  <2> QED
    BY <1>2, <2>1, <2>2 DEF UrgentPrefix
<1>4. SubSeq(m, 1, k + 1) = <<t>> \o SubSeq(list, 1, k)
  <2> DEFINE s == SubSeq(m, 1, k + 1)
             r == SubSeq(list, 1, k)
  <2>1. /\ s \in Seq(AllTasks) /\ Len(s) = k + 1
        /\ \A i \in 1 .. k + 1 : s[i] = m[i]
    BY <1>1, <1>2, PartsType
  <2>2. /\ r \in Seq(AllTasks) /\ Len(r) = k
        /\ \A i \in 1 .. k : r[i] = list[i]
    BY <1>1, PartsType
  <2> HIDE DEF s, r
  <2>3. /\ <<t>> \o r \in Seq(AllTasks)
        /\ Len(<<t>> \o r) = k + 1
        /\ (<<t>> \o r)[1] = t
        /\ \A i \in 2 .. k + 1 : (<<t>> \o r)[i] = r[i - 1]
    BY <1>0, <1>1, <2>2, ConcatProperties
  <2>4. ASSUME NEW i \in 1 .. Len(s) PROVE s[i] = (<<t>> \o r)[i]
    <3>1. CASE i = 1
      <4>1. 1 \in 1 .. k + 1
        BY <1>1
      <4> QED
        BY <4>1, <3>1, <2>1, <2>3, <1>1
    <3>2. CASE i # 1
      <4>1. i \in 2 .. k + 1 /\ i \in 2 .. n + 1 /\ i - 1 \in 1 .. k /\ i \in 1 .. k + 1
        BY <3>2, <1>1, <2>1
      <4> QED
        BY <4>1, <2>1, <2>2, <2>3, <1>1
    <3> QED
      BY <3>1, <3>2
  <2>5. s = <<t>> \o r
    BY <2>1, <2>3, <2>4, SeqEqual
  <2> QED
    BY <2>5 DEF s, r
<1>5. SubSeq(m, (k + 1) + 1, Len(m)) = SubSeq(list, k + 1, n)
  <2> DEFINE s == SubSeq(m, (k + 1) + 1, Len(m))
             r == SubSeq(list, k + 1, n)
  <2>1. /\ s \in Seq(AllTasks) /\ Len(s) = Len(m) - (k + 1)
        /\ \A i \in 1 .. Len(m) - (k + 1) : s[i] = m[(k + 1) + i]
    BY <1>1, <1>2, PartsType
  <2>2. /\ r \in Seq(AllTasks) /\ Len(r) = n - k
        /\ \A i \in 1 .. n - k : r[i] = list[k + i]
    BY <1>1, PartsType
  <2> HIDE DEF s, r
  <2>3. Len(s) = Len(r)
    BY <1>1, <2>1, <2>2
  <2>4. ASSUME NEW i \in 1 .. Len(s) PROVE s[i] = r[i]
    <3>1. /\ i \in 1 .. Len(m) - (k + 1) /\ i \in 1 .. n - k
          /\ (k + 1) + i \in 2 .. n + 1 /\ ((k + 1) + i) - 1 = k + i
      BY <1>1, <2>1
    <3> QED
      BY <3>1, <1>1, <2>1, <2>2
  <2>5. s = r
    BY <2>1, <2>2, <2>3, <2>4, SeqEqual
  <2> QED
    BY <2>5 DEF s, r
<1> QED
  BY <1>3, <1>4, <1>5 DEF m

\* Taking the first task takes the first of the scheduler's part while there
\* is one, and then the first of the other part.
LEMMA TailParts ==
    ASSUME NEW list \in Seq(AllTasks), list # <<>>, NEW k, UrgentPrefix(list, k)
    PROVE  LET m == Tail(list)
               u == SubSeq(list, 1, k)
               o == SubSeq(list, k + 1, Len(list))
           IN  /\ k > 0 =>
                    /\ UrgentPrefix(m, k - 1)
                    /\ u # <<>> /\ Head(u) = Head(list)
                    /\ SubSeq(m, 1, k - 1) = Tail(u)
                    /\ SubSeq(m, (k - 1) + 1, Len(m)) = o
               /\ k = 0 => u = <<>> /\ o = list
<1> DEFINE n == Len(list)
           m == Tail(list)
           u == SubSeq(list, 1, k)
           o == SubSeq(list, k + 1, Len(list))
<1>1. /\ n \in Nat \ {0} /\ k \in 0 .. n
      /\ m \in Seq(AllTasks) /\ Len(m) = n - 1
      /\ \A i \in 1 .. n - 1 : m[i] = list[i + 1]
      /\ Head(list) = list[1]
  BY DEF UrgentPrefix
<1>2. /\ u \in Seq(AllTasks) /\ Len(u) = k
      /\ \A i \in 1 .. k : u[i] = list[i]
  BY <1>1, PartsType
<1>3. /\ o \in Seq(AllTasks) /\ Len(o) = n - k
      /\ \A i \in 1 .. n - k : o[i] = list[k + i]
  BY <1>1, PartsType
<1> HIDE DEF m, u, o
<1>4. ASSUME k > 0
      PROVE  /\ UrgentPrefix(m, k - 1)
             /\ u # <<>> /\ Head(u) = Head(list)
             /\ SubSeq(m, 1, k - 1) = Tail(u)
             /\ SubSeq(m, (k - 1) + 1, Len(m)) = o
  <2>1. k - 1 \in 0 .. Len(m) /\ 1 \in 1 .. k
    BY <1>1, <1>4
  <2>2. UrgentPrefix(m, k - 1)
    <3>1. ASSUME NEW i \in 1 .. k - 1 PROVE m[i] \in SchedulerTasks
      <4>1. i \in 1 .. n - 1 /\ i + 1 \in 1 .. k
        BY <1>1
      <4> QED
        BY <4>1, <1>1 DEF UrgentPrefix
    <3>2. ASSUME k - 1 < Len(m) PROVE m[(k - 1) + 1] \notin SchedulerTasks
      <4>1. k < n /\ (k - 1) + 1 = k /\ k \in 1 .. n - 1
        BY <3>2, <1>1, <1>4
      <4> QED
        BY <4>1, <1>1 DEF UrgentPrefix
    <3> QED
      BY <2>1, <3>1, <3>2 DEF UrgentPrefix
  <2>3. u # <<>> /\ Head(u) = Head(list)
    BY <1>1, <1>2, <1>4, <2>1
  <2>4. SubSeq(m, 1, k - 1) = Tail(u)
    <3> DEFINE s == SubSeq(m, 1, k - 1)
    <3>1. /\ s \in Seq(AllTasks) /\ Len(s) = k - 1
          /\ \A i \in 1 .. k - 1 : s[i] = m[i]
      BY <1>1, <2>1, PartsType
    <3> HIDE DEF s
    <3>2. /\ Tail(u) \in Seq(AllTasks) /\ Len(Tail(u)) = k - 1
          /\ \A i \in 1 .. k - 1 : Tail(u)[i] = u[i + 1]
      BY <1>2, <2>3
    <3>3. ASSUME NEW i \in 1 .. Len(s) PROVE s[i] = Tail(u)[i]
      <4>1. i \in 1 .. k - 1 /\ i \in 1 .. n - 1 /\ i + 1 \in 1 .. k
        BY <1>1, <3>1
      <4> QED
        BY <4>1, <3>1, <3>2, <1>1, <1>2
    <3>4. s = Tail(u)
      BY <3>1, <3>2, <3>3, SeqEqual
    <3> QED
      BY <3>4 DEF s
  <2>5. SubSeq(m, (k - 1) + 1, Len(m)) = o
    <3> DEFINE s == SubSeq(m, (k - 1) + 1, Len(m))
    <3>1. /\ s \in Seq(AllTasks) /\ Len(s) = Len(m) - (k - 1)
          /\ \A i \in 1 .. Len(m) - (k - 1) : s[i] = m[(k - 1) + i]
      BY <1>1, <2>1, PartsType
    <3> HIDE DEF s
    <3>2. Len(s) = Len(o)
      BY <3>1, <1>1, <1>3
    <3>3. ASSUME NEW i \in 1 .. Len(s) PROVE s[i] = o[i]
      <4>1. /\ i \in 1 .. Len(m) - (k - 1) /\ i \in 1 .. n - k
            /\ (k - 1) + i \in 1 .. n - 1 /\ ((k - 1) + i) + 1 = k + i
        BY <1>1, <3>1, <1>4
      <4> QED
        BY <4>1, <3>1, <1>1, <1>3
    <3>4. s = o
      BY <3>1, <3>2, <3>3, <1>3, SeqEqual
    <3> QED
      BY <3>4 DEF s
  <2> QED
    BY <2>2, <2>3, <2>4, <2>5
<1>5. ASSUME k = 0 PROVE u = <<>> /\ o = list
  <2>1. u = <<>>
    BY <1>2, <1>5
  <2>2. \A i \in 1 .. Len(o) : o[i] = list[i]
    BY <1>1, <1>3, <1>5
  <2>3. Len(o) = Len(list)
    BY <1>1, <1>3, <1>5
  <2> QED
    BY <2>1, <2>2, <2>3, <1>3, SeqEqual
<1> QED
  BY <1>4, <1>5 DEF m, u, o

-----------------------------------------------------------------------------

\* Once threadMain has taken the task that shutdown() created, it does nothing
\* but run it and end.
LastTaskEnds ==
    fate[LastTask] \notin {"new", "queued"} =>
        \/ pc = "taken" /\ task = LastTask /\ fate[LastTask] = "taken"
        \/ pc = "running" /\ task = LastTask /\ threadState = "TERMINATED"
        \/ pc \in {"loop", "ended"} /\ threadState = "TERMINATED"

\* What the refinement needs besides Inv: the list is the scheduler's part
\* followed by the other one, and nothing is taken after the last task.
Mapped == LastTaskEnds /\ \E k : UrgentPrefix(taskList, k)

LEMMA LastTaskEndsStep == Inv /\ LastTaskEnds /\ [Next]_vars => LastTaskEnds'
<1> SUFFICES ASSUME Inv, LastTaskEnds, [Next]_vars PROVE LastTaskEnds'
  OBVIOUS
<1> USE DEF Inv, TypeOK, LastTaskEnds
<1>0. LastTask \in AllTasks /\ LastTask \notin Tasks /\ LastTask \notin Timed
  BY DispatcherAssumption DEF AllTasks
<1>1. CASE UNCHANGED vars
  BY <1>1 DEF vars
<1>2. CASE Start \/ Stop \/ SpuriousWakeup \/ TestState \/ Wait \/ NothingToTake
  BY <1>2 DEF Start, Stop, SpuriousWakeup, TestState, Wait, NothingToTake
<1>3. CASE TakeTask
  <2>1. Head(taskList) \in AllTasks
    BY <1>3, TailProperties DEF TakeTask
  <2> QED
    BY <1>0, <1>3, <2>1 DEF TakeTask
<1>4. CASE DeleteExpired \/ BeginTask \/ FinishTask
  <2>1. task \in AllTasks /\ pc \in {"taken", "running"}
    BY <1>4 DEF DeleteExpired, BeginTask, FinishTask, HoldsTask
  <2>2. task = LastTask => fate[LastTask] \in {"taken", "running"}
    BY <1>0 DEF OneOwner
  <2> QED
    BY <1>0, <1>4, <2>1, <2>2 DEF DeleteExpired, BeginTask, FinishTask
<1>5. ASSUME NEW c \in Callers \cup {Self}, NotifyOne(c) \/ Shutdown(c)
      PROVE  LastTaskEnds'
  BY <1>0, <1>5 DEF NotifyOne, Shutdown, WakeWaiting
<1>6. ASSUME NEW c \in Callers \cup {Self}, NEW t \in Tasks, AddTask(c, t)
      PROVE  LastTaskEnds'
  BY <1>0, <1>6 DEF AddTask
<1> QED
  BY <1>1, <1>2, <1>3, <1>4, <1>5, <1>6 DEF Next, ThreadMain

-----------------------------------------------------------------------------

\* The phase of the abstract queue is read off pc and threadState.
LEMMA PhaseIs ==
    ASSUME TypeOK
    PROVE  /\ pc = "none" => Phase = "idle"
           /\ pc # "none" /\ threadState = "RUNNING" => Phase = "open"
           /\ pc # "none" /\ threadState = "CLOSING" => Phase = "closing"
           /\ pc # "none" /\ threadState = "TERMINATED" => Phase = "over"
  BY DEF Phase

\* A task that is not in taskList is not pending in the abstract queue.
LEMMA PendingIsListed ==
    ASSUME TypeOK, Mapped, NEW t, t \notin Listed
    PROVE  t \notin Queue!Pending
<1>1. PICK k : UrgentPrefix(taskList, k)
  BY DEF Mapped
<1>2. UrgentCount(taskList) = k
  BY <1>1, UrgentCountUnique DEF TypeOK
<1>3. k \in 0 .. Len(taskList) /\ Len(taskList) \in Nat /\ taskList \in Seq(AllTasks)
  BY <1>1 DEF UrgentPrefix, TypeOK
<1>4. /\ Urgent \in Seq(AllTasks) /\ Len(Urgent) = k
      /\ \A i \in 1 .. k : Urgent[i] = taskList[i]
      /\ Ordinary \in Seq(AllTasks) /\ Len(Ordinary) = Len(taskList) - k
      /\ \A i \in 1 .. Len(taskList) - k : Ordinary[i] = taskList[k + i]
  BY <1>2, <1>3, PartsType DEF Urgent, Ordinary
<1>5. ASSUME NEW i \in DOMAIN Urgent PROVE Urgent[i] # t
  <2>1. i \in 1 .. k /\ i \in DOMAIN taskList
    BY <1>3, <1>4
  <2> QED
    BY <2>1, <1>4 DEF Listed
<1>6. ASSUME NEW i \in DOMAIN Ordinary PROVE Ordinary[i] # t
  <2>1. i \in 1 .. Len(taskList) - k /\ k + i \in DOMAIN taskList
    BY <1>3, <1>4
  <2> QED
    BY <2>1, <1>4 DEF Listed
<1> QED
  BY <1>5, <1>6 DEF Queue!Pending

\* A step that changes neither the list, nor what is taken, nor the state, is
\* invisible to the users of the queue.
LEMMA Invisible ==
    ASSUME taskList' = taskList, Served' = Served, Phase' = Phase
    PROVE  UNCHANGED Queue!queueVars
  BY DEF Queue!queueVars, Urgent, Ordinary

-----------------------------------------------------------------------------

\* addTask submits a task, or refuses it unseen.
LEMMA SubmitStep ==
    ASSUME Inv, Mapped, NEW c \in Callers \cup {Self}, NEW t \in Tasks, AddTask(c, t)
    PROVE  /\ \E k : UrgentPrefix(taskList', k)
           /\ Queue!Submit(t) \/ UNCHANGED Queue!queueVars
<1> USE DEF Inv
<1>1. PICK k : UrgentPrefix(taskList, k)
  BY DEF Mapped
<1>2. /\ t \in AllTasks /\ taskList \in Seq(AllTasks)
      /\ UrgentCount(taskList) = k
  BY <1>1, UrgentCountUnique DEF TypeOK, AllTasks
<1>3. fate[t] = "new" /\ pc # "none" /\ Phase' = Phase
  BY DEF AddTask, CanCall, Phase
<1>4. CASE ~Accepting
  <2>1. taskList' = taskList /\ fate' = [fate EXCEPT ![t] = "rejected"]
    BY <1>4 DEF AddTask
  <2>2. Served' = Served
    BY <2>1, <1>3 DEF Served, TypeOK
  <2> QED
    BY <1>1, <1>3, <2>1, <2>2, Invisible
<1>5. CASE Accepting
  <2>1. /\ taskList' = Pushed(t) /\ fate' = [fate EXCEPT ![t] = "queued"]
        /\ Phase = "open"
    BY <1>3, <1>5, PhaseIs DEF AddTask, Accepting
  <2>2. Served' = Served /\ t \notin Served
    BY <2>1, <1>3 DEF Served, TypeOK
  <2>3. t \notin Queue!Pending
    BY <1>2, <1>3, PendingIsListed DEF OneOwner
  <2>4. CASE t \in SchedulerTasks
    <3>1. taskList' = <<t>> \o taskList
      BY <2>1, <2>4 DEF Pushed
    <3>2. /\ UrgentPrefix(taskList', k + 1)
          /\ SubSeq(taskList', 1, k + 1) = <<t>> \o SubSeq(taskList, 1, k)
          /\ SubSeq(taskList', (k + 1) + 1, Len(taskList')) = SubSeq(taskList, k + 1, Len(taskList))
      BY <1>1, <1>2, <2>4, <3>1, PushParts
    <3>3. taskList' \in Seq(AllTasks)
      BY <1>2, <2>1, PushedType
    <3>4. UrgentCount(taskList') = k + 1
      BY <3>2, <3>3, UrgentCountUnique
    <3>5. Urgent' = <<t>> \o Urgent /\ Ordinary' = Ordinary
      BY <1>2, <3>2, <3>4 DEF Urgent, Ordinary
    <3>6. Queue!Submit(t)
      BY <1>3, <2>1, <2>2, <2>3, <2>4, <3>5 DEF Queue!Submit
    <3> QED
      BY <3>2, <3>6
  <2>5. CASE t \notin SchedulerTasks
    <3>1. taskList' = Append(taskList, t)
      BY <2>1, <2>5 DEF Pushed
    <3>2. /\ UrgentPrefix(taskList', k)
          /\ SubSeq(taskList', 1, k) = SubSeq(taskList, 1, k)
          /\ SubSeq(taskList', k + 1, Len(taskList')) =
               Append(SubSeq(taskList, k + 1, Len(taskList)), t)
      BY <1>1, <1>2, <2>5, <3>1, AppendParts
    <3>3. taskList' \in Seq(AllTasks)
      BY <1>2, <2>1, PushedType
    <3>4. UrgentCount(taskList') = k
      BY <3>2, <3>3, UrgentCountUnique
    <3>5. Urgent' = Urgent /\ Ordinary' = Append(Ordinary, t)
      BY <1>2, <3>2, <3>4 DEF Urgent, Ordinary
    <3>6. Queue!Submit(t)
      BY <1>3, <2>1, <2>2, <2>3, <2>5, <3>5 DEF Queue!Submit
    <3> QED
      BY <3>2, <3>6
  <2> QED
    BY <2>4, <2>5
<1> QED
  BY <1>4, <1>5

\* shutdown submits the final task, behind all ordinary ones.
LEMMA SubmitFinalStep ==
    ASSUME Inv, Mapped, NEW c \in Callers \cup {Self}, Shutdown(c)
    PROVE  (\E k : UrgentPrefix(taskList', k)) /\ Queue!SubmitFinal
<1> USE DEF Inv
<1>1. PICK k : UrgentPrefix(taskList, k)
  BY DEF Mapped
<1>2. /\ LastTask \in AllTasks /\ LastTask \notin SchedulerTasks
      /\ taskList \in Seq(AllTasks) /\ UrgentCount(taskList) = k
  BY <1>1, UrgentCountUnique, DispatcherAssumption DEF TypeOK, AllTasks
<1>3. /\ taskList' = Append(taskList, LastTask)
      /\ fate[LastTask] = "new" /\ fate' = [fate EXCEPT ![LastTask] = "queued"]
      /\ pc # "none" /\ (pc' = "none" <=> pc = "none") /\ threadState' = threadState
  BY DEF Shutdown, WithLastTask, CanCall, WakeWaiting
<1>4. Phase' = Phase /\ Phase # "idle"
  BY <1>3 DEF Phase, TypeOK, ThreadState
<1>5. Served' = Served /\ LastTask \notin Served
  BY <1>2, <1>3 DEF Served, TypeOK
<1>6. LastTask \notin Queue!Pending
  BY <1>2, <1>3, PendingIsListed DEF OneOwner
<1>7. /\ UrgentPrefix(taskList', k)
      /\ SubSeq(taskList', 1, k) = SubSeq(taskList, 1, k)
      /\ SubSeq(taskList', k + 1, Len(taskList')) =
           Append(SubSeq(taskList, k + 1, Len(taskList)), LastTask)
  BY <1>1, <1>2, <1>3, AppendParts
<1>8. taskList' \in Seq(AllTasks)
  BY <1>2, <1>3
<1>9. UrgentCount(taskList') = k
  BY <1>7, <1>8, UrgentCountUnique
<1>10. Urgent' = Urgent /\ Ordinary' = Append(Ordinary, LastTask)
  BY <1>2, <1>7, <1>9 DEF Urgent, Ordinary
<1> QED
  BY <1>4, <1>5, <1>6, <1>7, <1>10 DEF Queue!SubmitFinal

\* Taking a task serves the first urgent one, or the first ordinary one when
\* none is urgent.
LEMMA ServeStep ==
    ASSUME Inv, Mapped, TakeTask
    PROVE  (\E k : UrgentPrefix(taskList', k)) /\ Queue!Serve
<1> USE DEF Inv
<1> DEFINE h == Head(taskList)
<1>1. PICK k : UrgentPrefix(taskList, k)
  BY DEF Mapped
<1>2. /\ taskList \in Seq(AllTasks) /\ UrgentCount(taskList) = k
      /\ k \in 0 .. Len(taskList)
  BY <1>1, UrgentCountUnique DEF TypeOK, UrgentPrefix
<1>3. /\ taskList # <<>> /\ taskList' = Tail(taskList)
      /\ fate' = [fate EXCEPT ![h] = "taken"]
      /\ pc \in {"locking", "woken"} /\ pc' = "taken" /\ threadState' = threadState
  BY DEF TakeTask, PopFront
<1>4. /\ h \in AllTasks /\ h = taskList[1] /\ taskList' \in Seq(AllTasks)
      /\ Len(taskList) \in Nat \ {0} /\ Len(taskList') = Len(taskList) - 1
      /\ \A i \in 1 .. Len(taskList) - 1 : taskList'[i] = taskList[i + 1]
  BY <1>2, <1>3, TailProperties
<1>5. fate[LastTask] \in {"new", "queued"} /\ LastTask \in AllTasks
  BY <1>3 DEF Mapped, LastTaskEnds, AllTasks
<1>6. LastTask \notin Served
  BY <1>5 DEF Served
<1>7. Phase \in {"open", "closing"} /\ Phase' = Phase
  <2>1. threadState \in {"RUNNING", "CLOSING"}
    BY <1>3, <1>5 DEF LastTaskIsLast, TypeOK, ThreadState
  <2> QED
    BY <2>1, <1>3 DEF Phase
<1>8. Served' = Served \cup {h}
  BY <1>3, <1>4 DEF Served, TypeOK
<1>9. CASE k > 0
  <2>1. /\ UrgentPrefix(taskList', k - 1)
        /\ SubSeq(taskList, 1, k) # <<>> /\ Head(SubSeq(taskList, 1, k)) = h
        /\ SubSeq(taskList', 1, k - 1) = Tail(SubSeq(taskList, 1, k))
        /\ SubSeq(taskList', (k - 1) + 1, Len(taskList')) = SubSeq(taskList, k + 1, Len(taskList))
    BY <1>1, <1>2, <1>3, <1>9, TailParts
  <2>2. UrgentCount(taskList') = k - 1
    BY <1>4, <2>1, UrgentCountUnique
  <2>3. /\ Urgent # <<>> /\ h = Head(Urgent)
        /\ Urgent' = Tail(Urgent) /\ Ordinary' = Ordinary
    BY <1>2, <2>1, <2>2 DEF Urgent, Ordinary
  <2> QED
    BY <1>6, <1>7, <1>8, <2>1, <2>3 DEF Queue!Serve
<1>10. CASE k = 0
  <2>1. taskList[1] \notin SchedulerTasks
    BY <1>1, <1>4, <1>10 DEF UrgentPrefix
  <2>2. UrgentPrefix(taskList', 0)
    <3>1. 0 < Len(taskList') => taskList'[0 + 1] \notin SchedulerTasks
      <4> SUFFICES ASSUME 0 < Len(taskList') PROVE taskList'[1] \notin SchedulerTasks
        OBVIOUS
      <4>1. 1 \in DOMAIN taskList /\ 2 \in DOMAIN taskList /\ taskList'[1] = taskList[2]
        BY <1>2, <1>4
      <4> QED
        BY <2>1, <4>1 DEF SchedulerTasksFirst
    <3> QED
      BY <1>4, <3>1 DEF UrgentPrefix
  <2>3. Urgent = <<>> /\ Ordinary = taskList
    BY <1>1, <1>2, <1>3, <1>10, TailParts DEF Urgent, Ordinary
  <2>4. UrgentCount(taskList') = 0
    BY <1>4, <2>2, UrgentCountUnique
  <2>5. Urgent' = <<>> /\ Ordinary' = taskList'
    <3>1. SubSeq(taskList', 1, 0) = <<>>
      BY SubSeqEmpty
    <3>2. SubSeq(taskList', 0 + 1, Len(taskList')) = taskList'
      BY <1>4, SubSeqFull
    <3> QED
      BY <2>4, <3>1, <3>2 DEF Urgent, Ordinary
  <2> QED
    BY <1>3, <1>6, <1>7, <1>8, <2>2, <2>3, <2>5 DEF Queue!Serve
<1> QED
  BY <1>2, <1>9, <1>10

\* Running the task of shutdown() ends the service; running another one is
\* invisible, it was served when it was taken.
LEMMA EndStep ==
    ASSUME Inv, Mapped, BeginTask
    PROVE  /\ \E k : UrgentPrefix(taskList', k)
           /\ Queue!End \/ UNCHANGED Queue!queueVars
<1> USE DEF Inv
<1>1. /\ task \in AllTasks /\ pc = "taken" /\ pc' = "running" /\ taskList' = taskList
      /\ fate' = [fate EXCEPT ![task] = "running"]
      /\ fate[task] \in {"taken", "running"}
      /\ threadState' = IF task = LastTask THEN "TERMINATED" ELSE threadState
  BY DEF BeginTask, TypeOK, HoldsTask, OneOwner
<1>2. Served' = Served
  BY <1>1 DEF Served, TypeOK
<1>3. Urgent' = Urgent /\ Ordinary' = Ordinary
  BY <1>1 DEF Urgent, Ordinary
<1>4. CASE task # LastTask
  <2>1. Phase' = Phase
    BY <1>1, <1>4 DEF Phase
  <2> QED
    BY <1>1, <1>2, <2>1, Invisible DEF Mapped
<1>5. CASE task = LastTask
  <2>1. fate[LastTask] = "taken"
    BY <1>1, <1>5 DEF Mapped, LastTaskEnds
  <2>2. threadState \in {"RUNNING", "CLOSING"}
    BY <1>1, <2>1 DEF LastTaskIsLast, TypeOK, ThreadState
  <2>3. Phase \in {"open", "closing"} /\ Phase' = "over" /\ LastTask \in Served
    BY <1>1, <1>5, <2>1, <2>2 DEF Phase, Served
  <2>4. Phase = "closing" => Urgent \o Ordinary = <<>>
    <3>1. SUFFICES ASSUME Phase = "closing" PROVE Urgent \o Ordinary = <<>>
      OBVIOUS
    <3>2. threadState = "CLOSING"
      BY <1>1, <2>2, <3>1 DEF Phase
    <3>3. taskList = <<>>
      BY <2>1, <3>2 DEF LastTaskIsLast
    <3>4. UrgentPrefix(taskList, 0)
      BY <3>3 DEF UrgentPrefix
    <3>5. UrgentCount(taskList) = 0
      BY <3>4, UrgentCountUnique DEF TypeOK
    <3>6. Urgent = <<>> /\ Ordinary = <<>>
      BY <3>3, <3>5, SubSeqEmpty DEF Urgent, Ordinary
    <3> QED
      BY <3>6
  <2> QED
    BY <1>1, <1>2, <1>3, <2>3, <2>4 DEF Queue!End, Mapped
<1> QED
  BY <1>4, <1>5

\* Every step of the dispatcher is a step of the abstract queue or invisible.
LEMMA QueueStep ==
    Inv /\ Mapped /\ [Next]_vars =>
        Mapped' /\ [Queue!QueueNext]_(Queue!queueVars)
<1> SUFFICES ASSUME Inv, Mapped, [Next]_vars
             PROVE  /\ \E k : UrgentPrefix(taskList', k)
                    /\ Queue!QueueNext \/ UNCHANGED Queue!queueVars
  BY LastTaskEndsStep DEF Mapped
<1> USE DEF Inv
<1>1. CASE taskList' = taskList /\ Served' = Served /\ Phase' = Phase
  BY <1>1, Invisible DEF Mapped
<1>2. CASE UNCHANGED vars
  BY <1>1, <1>2 DEF vars, Served, Phase
<1>3. CASE Start
  <2>1. Phase = "idle" /\ Phase' = "open"
    BY <1>3 DEF Start, Phase
  <2>2. taskList' = taskList /\ Urgent' = Urgent /\ Ordinary' = Ordinary /\ Served' = Served
    BY <1>3 DEF Start, Urgent, Ordinary, Served
  <2> QED
    BY <2>1, <2>2 DEF Mapped, Queue!QueueNext, Queue!Open
<1>4. CASE Stop
  <2>1. pc = "running" /\ fate[LastTask] = "new" /\ UNCHANGED <<taskList, fate, pc>>
    BY <1>4 DEF Stop
  <2>2. Phase \in {"open", "closing"} /\ Phase' = "closing"
    BY <1>4, <2>1 DEF Stop, Phase, TypeOK, ThreadState, LastTaskIsLast
  <2>3. Urgent' = Urgent /\ Ordinary' = Ordinary /\ Served' = Served
    BY <2>1 DEF Urgent, Ordinary, Served
  <2>4. CASE Phase = "open"
    BY <2>1, <2>2, <2>3, <2>4 DEF Mapped, Queue!QueueNext, Queue!Close
  <2>5. CASE Phase = "closing"
    BY <1>1, <2>1, <2>2, <2>3, <2>5
  <2> QED
    BY <2>2, <2>4, <2>5
<1>5. CASE SpuriousWakeup \/ TestState \/ Wait \/ NothingToTake
  <2>1. Phase' = Phase /\ Served' = Served /\ taskList' = taskList
    BY <1>5 DEF SpuriousWakeup, TestState, Wait, NothingToTake, Phase, Served
  <2> QED
    BY <1>1, <2>1
<1>6. CASE DeleteExpired \/ FinishTask
  <2>1. task \in AllTasks /\ fate[task] \in {"taken", "running"}
    BY <1>6 DEF DeleteExpired, FinishTask, HoldsTask, TypeOK, OneOwner
  <2>2. \/ fate' = [fate EXCEPT ![task] = "expired"]
        \/ fate' = [fate EXCEPT ![task] = "executed"]
    BY <1>6 DEF DeleteExpired, FinishTask
  <2>3. Served' = Served
    BY <2>1, <2>2 DEF Served, TypeOK
  <2>4. Phase' = Phase /\ taskList' = taskList
    BY <1>6 DEF DeleteExpired, FinishTask, Phase
  <2> QED
    BY <1>1, <2>3, <2>4
<1>7. ASSUME NEW c \in Callers \cup {Self}, NotifyOne(c)
      PROVE  Phase' = Phase /\ Served' = Served /\ taskList' = taskList
  BY <1>7 DEF NotifyOne, WakeWaiting, Phase, Served
<1>8. CASE TakeTask
  BY <1>8, ServeStep DEF Queue!QueueNext
<1>9. CASE BeginTask
  BY <1>9, EndStep DEF Queue!QueueNext
<1>10. ASSUME NEW c \in Callers \cup {Self}, Shutdown(c)
       PROVE  (\E k : UrgentPrefix(taskList', k)) /\ Queue!QueueNext
  BY <1>10, SubmitFinalStep DEF Queue!QueueNext
<1>11. ASSUME NEW c \in Callers \cup {Self}, NEW t \in Tasks, AddTask(c, t)
       PROVE  /\ \E k : UrgentPrefix(taskList', k)
              /\ Queue!QueueNext \/ UNCHANGED Queue!queueVars
  BY <1>11, SubmitStep DEF Queue!QueueNext
<1> QED
  BY <1>1, <1>2, <1>3, <1>4, <1>5, <1>6, <1>7, <1>8, <1>9, <1>10, <1>11
     DEF Next, ThreadMain

\* The dispatcher implements the safety part of TaskQueue: each accepted task
\* is served once, the scheduler's before the others, the others in the order
\* of their submission, and an orderly closing leaves nothing behind.
THEOREM Refinement == Spec => Queue!QueueInit /\ [][Queue!QueueNext]_(Queue!queueVars)
<1>1. Init => Queue!QueueInit /\ Mapped
  <2> SUFFICES ASSUME Init PROVE Queue!QueueInit /\ Mapped
    OBVIOUS
  <2>1. UrgentPrefix(taskList, 0) /\ taskList \in Seq(AllTasks) /\ taskList = <<>>
    BY DEF Init, UrgentPrefix
  <2>2. UrgentCount(taskList) = 0
    BY <2>1, UrgentCountUnique
  <2>3. Urgent = <<>> /\ Ordinary = <<>>
    BY <2>1, <2>2, SubSeqEmpty DEF Urgent, Ordinary
  <2>4. Served = {} /\ Phase = "idle" /\ LastTaskEnds
    BY DEF Init, Served, Phase, LastTaskEnds, AllTasks
  <2> QED
    BY <2>1, <2>3, <2>4 DEF Queue!QueueInit, Mapped
<1> QED
  BY <1>1, QueueStep, Invariance, PTL DEF Spec

-----------------------------------------------------------------------------
(* What handlers keep *)

(***************************************************************************)
(* What holds all the time, in the middle of handlers too.                 *)
(***************************************************************************)
State ==
  [status : [Creatures -> {"free", "placed", "removed"}], at : [Creatures -> Places],
   alive : [Creatures -> BOOLEAN], refs : [Creatures -> Int], toRelease : [Creatures -> Nat],
   checked : [Creatures -> BOOLEAN], inVector : [Creatures -> BOOLEAN],
   master : [Creatures -> Creatures \cup {Nobody}], summons : [Creatures -> SUBSET Creatures],
   attacked : [Creatures -> Creatures \cup {Nobody}], follow : [Creatures -> Creatures \cup {Nobody}],
   idle : [Creatures -> BOOLEAN], targets : [Creatures -> SUBSET Creatures],
   friends : [Creatures -> SUBSET Creatures], spawned : [Slots -> SUBSET Monsters],
   checkSpawnEvent : BOOLEAN, scheduled : SUBSET Slots,
   forgotten : SUBSET (Creatures \X Creatures), filled : SUBSET Slots]

\* The same, for steps that change a few fields.
Fields ==
  {"status", "at", "alive", "refs", "toRelease", "checked", "inVector", "master", "summons", "attacked", "follow",
   "idle", "targets", "friends", "spawned", "checkSpawnEvent", "scheduled", "forgotten", "filled"}

\* The shape of the state, apart from its types.
Shaped(v) == v = [f \in Fields |-> v[f]]

\* The types of its fields.
Typed(v) ==
  /\ v.status \in [Creatures -> {"free", "placed", "removed"}] /\ v.at \in [Creatures -> Places]
  /\ v.alive \in [Creatures -> BOOLEAN] /\ v.refs \in [Creatures -> Int]
  /\ v.toRelease \in [Creatures -> Nat]
  /\ v.checked \in [Creatures -> BOOLEAN] /\ v.inVector \in [Creatures -> BOOLEAN]
  /\ v.master \in [Creatures -> Creatures \cup {Nobody}]
  /\ v.summons \in [Creatures -> SUBSET Creatures]
  /\ v.attacked \in [Creatures -> Creatures \cup {Nobody}]
  /\ v.follow \in [Creatures -> Creatures \cup {Nobody}]
  /\ v.idle \in [Creatures -> BOOLEAN] /\ v.targets \in [Creatures -> SUBSET Creatures]
  /\ v.friends \in [Creatures -> SUBSET Creatures] /\ v.spawned \in [Slots -> SUBSET Monsters]
  /\ v.checkSpawnEvent \in BOOLEAN /\ v.scheduled \in SUBSET Slots
  /\ v.forgotten \in SUBSET (Creatures \X Creatures) /\ v.filled \in SUBSET Slots

\* A state is a record of this shape whose fields have these types.
LEMMA StateIs == \A v : v \in State <=> Shaped(v) /\ Typed(v)
BY DEF State, Shaped, Typed, Fields

\* The object of c is there at least until the next cleanup.
Live(v, c) == Placed(v, c) \/ v.toRelease[c] > 0

\* There is an object at the address c.
Used(v, c) == v.status[c] # "free"

\* c is in the list of creatures to check, and to be checked.
Awake(v, c) == v.checked[c] /\ v.inVector[c]

\* Whom x attacks or follows.
Pointers(v, x) == {v.attacked[x], v.follow[x]} \ {Nobody}

\* Every counter is the number of those who will decrement it.
Exact(v) == \A c \in Creatures : v.refs[c] = References(v, c)

\* Master and summons agree, players have no master, and the master of a master is a player.
Lines(v) ==
  /\ \A p \in Players : v.master[p] = Nobody
  /\ \A x, m \in Creatures : v.master[x] = m <=> x \in v.summons[m]
  /\ \A x \in Creatures : v.master[x] \in Monsters => v.master[v.master[x]] \notin Monsters

\* An address that is not used looks unused.
Blank(v) ==
  \A c \in Creatures : v.status[c] = "free" =>
    v.alive[c] /\ v.attacked[c] = Nobody /\ v.follow[c] = Nobody /\ v.summons[c] = {}

\* The master of a summon in the world is not deleted while handlers run.
MastersLive(v) ==
  \A x \in Creatures : Placed(v, x) /\ v.master[x] # Nobody => Live(v, v.master[x])

\* Core but for the objects that a decrement left without a reference.
Loose(v) ==
  /\ v \in State /\ Exact(v) /\ Lines(v) /\ Blank(v) /\ MastersLive(v)
  /\ \A c \in Creatures : v.status[c] = "free" => v.refs[c] = 0
  /\ \A c \in Creatures : Awake(v, c) => Placed(v, c)

Core(v) == Loose(v) /\ \A c \in Creatures : v.refs[c] = 0 => v.status[c] = "free"

(***************************************************************************)
(* What a handler keeps, from v to u.  The monsters of Y may have another  *)
(* master, and those of the pairs <<m, p>> of X need not know p any more.  *)
(***************************************************************************)
Knows(v, m, p) ==
  \/ <<m, p>> \in v.forgotten
  \/ Awake(v, m) /\ (v.master[m] = Nobody => p \in v.targets[m])

\* Players are checked as long as they are in the world, and so is what has no health left.
Minded(v, c) == c \in Players \/ ~v.alive[c] => Awake(v, c)

\* x may point to y.
Safe(v, x, y) == Placed(v, y) /\ InView(v.at[x], v.at[y])

\* Nobody appears or moves, and no object is deleted that was in the world or released.
KeepsLives(v, u) ==
  /\ \A c \in Creatures : Live(v, c) => Live(u, c) /\ u.at[c] = v.at[c]
  /\ \A c \in Creatures : Placed(u, c) => Placed(v, c)
  /\ \A m \in Monsters : Placed(u, m) /\ u.alive[m] => v.alive[m]

\* A pointer is safe, or an old one, to somebody who has not left the world since.
KeepsPointers(v, u) ==
  \A x \in Creatures : Placed(u, x) => \A y \in Pointers(u, x) :
    \/ Safe(u, x, y)
    \/ y \in Pointers(v, x) /\ (Safe(v, x, y) => Placed(u, y))

\* Monsters know the players they knew.
KeepsKnown(v, u, X, Y) ==
  \A m \in Monsters \ Y, p \in Players :
    Placed(u, m) /\ u.alive[m] /\ Placed(u, p) /\ <<m, p>> \notin X /\ Knows(v, m, p) => Knows(u, m, p)

\* Nobody in the world has another master.
KeepsMasters(v, u, Y) ==
  \A x \in Creatures \ Y : Placed(u, x) => u.master[x] = v.master[x]

\* The spawn keeps its monsters, and is woken when one is removed.
KeepsSpawns(v, u) ==
  /\ u.spawned = v.spawned /\ u.filled = v.filled /\ u.scheduled = v.scheduled
  /\ v.checkSpawnEvent => u.checkSpawnEvent
  /\ \A s \in Slots : \A m \in v.spawned[s] : Placed(v, m) /\ ~Placed(u, m) => u.checkSpawnEvent

\* Who had to be checked and was, is checked.
KeepsMinded(v, u) == \A c \in Creatures : Placed(u, c) /\ Minded(v, c) => Minded(u, c)

\* All of these.
Keeps(v, u, X, Y) ==
  /\ KeepsLives(v, u) /\ KeepsPointers(v, u) /\ KeepsKnown(v, u, X, Y) /\ KeepsMasters(v, u, Y)
  /\ KeepsSpawns(v, u) /\ KeepsMinded(v, u)

\* Nobody leaves the world.
Stays(v, u) == \A c \in Creatures : Placed(v, c) => Placed(u, c)

\* Nobody dies, points to somebody else or has more summons.
Calm(v, u) ==
  \A c \in Creatures : /\ v.alive[c] => u.alive[c]
                       /\ Pointers(u, c) \subseteq Pointers(v, c)
                       /\ u.summons[c] \subseteq v.summons[c]

\* What a handler promises.
Sound(v, u, X, Y) == Core(u) /\ Keeps(v, u, X, Y) /\ Stays(v, u)

\* Doing nothing keeps everything.
LEMMA KeepsSelf == \A v : Keeps(v, v, {}, {}) /\ Stays(v, v)
BY DEF Keeps, KeepsLives, KeepsPointers, KeepsKnown, KeepsMasters, KeepsSpawns, KeepsMinded, Stays,
   Safe, Pointers

\* What two handlers keep, one after the other, they keep together.
LEMMA KeepsOn ==
  ASSUME NEW v \in State, NEW u \in State, NEW t \in State, NEW X, NEW Y, NEW X2, NEW Y2,
         Keeps(v, u, X, Y), Keeps(u, t, X2, Y2)
  PROVE  Keeps(v, t, X \cup X2, Y \cup Y2)
<1>1. KeepsLives(v, t)
  BY DEF Keeps, KeepsLives, Creatures
<1>2. KeepsPointers(v, t)
  <2> SUFFICES ASSUME NEW x \in Creatures, Placed(t, x), NEW y \in Pointers(t, x), ~Safe(t, x, y)
               PROVE  y \in Pointers(v, x) /\ (Safe(v, x, y) => Placed(t, y))
    BY DEF KeepsPointers
  <2>0. y \in Creatures
    BY DEF Pointers, State
  <2>1. y \in Pointers(u, x) /\ (Safe(u, x, y) => Placed(t, y)) /\ Placed(u, x)
    BY DEF Keeps, KeepsPointers, KeepsLives
  <2>2. ~Safe(u, x, y)
    <3>1. SUFFICES ASSUME Placed(t, y), Safe(u, x, y) PROVE FALSE
      BY <2>1
    <3>2. t.at[x] = u.at[x] /\ t.at[y] = u.at[y]
      BY <2>0, <2>1, <3>1 DEF Keeps, KeepsLives, Live, Safe
    <3> QED BY <3>1, <3>2 DEF Safe
  <2>3. y \in Pointers(v, x) /\ (Safe(v, x, y) => Placed(u, y))
    BY <2>1, <2>2 DEF Keeps, KeepsPointers
  <2>4. ~Safe(v, x, y)
    <3>1. SUFFICES ASSUME Placed(u, y), Safe(v, x, y), Placed(v, x) PROVE FALSE
      BY <2>1, <2>3 DEF Keeps, KeepsLives
    <3>2. u.at[x] = v.at[x] /\ u.at[y] = v.at[y]
      BY <2>0, <3>1 DEF Keeps, KeepsLives, Live, Safe
    <3> QED BY <3>1, <3>2, <2>2 DEF Safe
  <2> QED BY <2>3, <2>4
<1>3. KeepsKnown(v, t, X \cup X2, Y \cup Y2)
  <2> SUFFICES ASSUME NEW m \in Monsters \ (Y \cup Y2), NEW p \in Players, Placed(t, m),
                      t.alive[m], Placed(t, p),
                      <<m, p>> \notin X \cup X2, Knows(v, m, p)
               PROVE  Knows(t, m, p)
    BY DEF KeepsKnown
  <2>1. Placed(u, m) /\ u.alive[m] /\ Placed(u, p)
    BY DEF Keeps, KeepsLives, Creatures
  <2>2. Knows(u, m, p)
    BY <2>1 DEF Keeps, KeepsKnown
  <2> QED BY <2>2 DEF Keeps, KeepsKnown
<1>4. KeepsMasters(v, t, Y \cup Y2)
  BY DEF Keeps, KeepsLives, KeepsMasters
<1>5. KeepsSpawns(v, t)
  BY DEF Keeps, KeepsSpawns
<1>6. KeepsMinded(v, t)
  BY DEF Keeps, KeepsLives, KeepsMinded
<1> QED BY <1>1, <1>2, <1>3, <1>4, <1>5, <1>6 DEF Keeps

\* The sets of the constants, as the steps below need them.
LEMMA Hands ==
  /\ IsFiniteSet(Creatures) /\ IsFiniteSet(Slots)
  /\ Players \subseteq Creatures /\ Monsters \subseteq Creatures /\ Nobody \notin Creatures
  /\ \A D : IsFiniteSet(Creatures \cap D) /\ Cardinality(Creatures \cap D) \in Nat
  /\ Players \cap Monsters = {} /\ Home \in Places
BY CreaturesAssumption, FS_Union, FS_Subset, FS_CardinalityType DEF Creatures

-----------------------------------------------------------------------------
(* Counting, and garbage *)

(***************************************************************************)
(* Counting.                                                               *)
(***************************************************************************)
Within(D, f, c) == {m \in D : c \in f[m]}

\* Those who hold c can be counted.
LEMMA WithinCounts ==
  ASSUME NEW D, IsFiniteSet(D), NEW f, NEW c
  PROVE  IsFiniteSet(Within(D, f, c)) /\ Cardinality(Within(D, f, c)) \in Nat
BY FS_Subset, FS_CardinalityType DEF Within

\* Those of E who hold c hold it in a part of D.
LEMMA WithinMore ==
  ASSUME NEW D, IsFiniteSet(D), NEW E \in SUBSET D, NEW f, NEW c
  PROVE  /\ Cardinality(Within(E, f, c)) <= Cardinality(Within(D, f, c))
         /\ Cardinality(Within(E, f, c)) = Cardinality(Within(D, f, c))
              => \A m \in D : c \in f[m] => m \in E
<1>1. Within(E, f, c) \in SUBSET Within(D, f, c) /\ IsFiniteSet(Within(D, f, c))
  BY WithinCounts DEF Within
<1>2. /\ Cardinality(Within(E, f, c)) <= Cardinality(Within(D, f, c))
      /\ Cardinality(Within(E, f, c)) = Cardinality(Within(D, f, c))
           => Within(E, f, c) = Within(D, f, c)
  BY <1>1, FS_Subset
<1> QED BY <1>2 DEF Within

\* When those of E let go, the others remain.
LEMMA WithinLess ==
  ASSUME NEW D, IsFiniteSet(D), NEW E \in SUBSET D, NEW f, NEW g, NEW c,
         \A m \in D : g[m] = IF m \in E THEN {} ELSE f[m]
  PROVE  Cardinality(Within(D, g, c)) = Cardinality(Within(D, f, c)) - Cardinality(Within(E, f, c))
<1>1. IsFiniteSet(Within(D, f, c)) /\ Within(E, f, c) \in SUBSET Within(D, f, c)
  BY WithinCounts DEF Within
<1>2. Within(D, g, c) = Within(D, f, c) \ Within(E, f, c)
  BY DEF Within
<1>3. IsFiniteSet(Within(E, f, c)) /\ IsFiniteSet(Within(D, g, c))
  BY <1>1, <1>2, FS_Subset
<1>4. Within(D, f, c) = Within(D, g, c) \cup Within(E, f, c)
      /\ Within(D, g, c) \cap Within(E, f, c) = {}
  BY <1>1, <1>2
<1>5. Cardinality(Within(D, f, c)) = Cardinality(Within(D, g, c)) + Cardinality(Within(E, f, c)) - 0
  BY <1>3, <1>4, FS_Union, FS_EmptySet
<1> QED BY <1>3, <1>5, FS_CardinalityType

\* One list changes.
LEMMA WithinOne ==
  ASSUME NEW D, IsFiniteSet(D), NEW d \in D, NEW f, NEW g, NEW c,
         \A m \in D \ {d} : g[m] = f[m]
  PROVE  Cardinality(Within(D, g, c)) + Count(c \in f[d]) = Cardinality(Within(D, f, c)) + Count(c \in g[d])
<1> DEFINE R == Within(D \ {d}, f, c)
<1>1. IsFiniteSet(D \ {d})
  BY FS_Subset
<1>2. IsFiniteSet(R) /\ Cardinality(R) \in Nat /\ d \notin R
  BY <1>1, WithinCounts DEF Within
<1>3. Within(D, f, c) = IF c \in f[d] THEN R \cup {d} ELSE R
  BY DEF Within
<1>4. Within(D, g, c) = IF c \in g[d] THEN R \cup {d} ELSE R
  BY DEF Within
<1> HIDE DEF R
<1>5. Cardinality(R \cup {d}) = Cardinality(R) + 1
  BY <1>2, FS_AddElement
<1> QED BY <1>2, <1>3, <1>4, <1>5 DEF Count

\* The references of c, by whom they are held.
LEMMA ReferencesAre ==
  \A v, c : References(v, c) =
    Count(Placed(v, c)) + v.toRelease[c] + Count(v.inVector[c])
    + Cardinality(Within(Slots, v.spawned, c)) + Count(v.master[c] # Nobody)
    + Cardinality(Within(Creatures, v.targets, c)) + Cardinality(Within(Creatures, v.friends, c))
BY DEF References, Within

\* The same of those that objects of D let go when they are deleted.
LEMMA HeldByIs ==
  \A v, D, c : HeldBy(v, D, c) =
    Cardinality(Within(D, v.targets, c)) + Cardinality(Within(D, v.friends, c))
    + Count(v.master[c] # Nobody /\ \E m \in D : c \in v.summons[m])
BY DEF HeldBy, Within

\* What the objects of D hold can be counted.
LEMMA HeldByType ==
  ASSUME NEW v, NEW D \in SUBSET Creatures, NEW c
  PROVE  HeldBy(v, D, c) \in Nat
<1>1. IsFiniteSet(D)
  BY Hands, FS_Subset
<1> QED BY <1>1, WithinCounts, HeldByIs DEF Count

\* A larger set holds more.
LEMMA HeldByMore ==
  ASSUME NEW v, NEW D \in SUBSET Creatures, NEW E \in SUBSET D, NEW c
  PROVE  HeldBy(v, E, c) <= HeldBy(v, D, c)
<1>1. IsFiniteSet(D) /\ IsFiniteSet(E)
  BY Hands, FS_Subset
<1>2. /\ Cardinality(Within(E, v.targets, c)) <= Cardinality(Within(D, v.targets, c))
      /\ Cardinality(Within(E, v.friends, c)) <= Cardinality(Within(D, v.friends, c))
  BY <1>1, WithinMore
<1>3. /\ Cardinality(Within(E, v.targets, c)) \in Nat
      /\ Cardinality(Within(D, v.targets, c)) \in Nat
      /\ Cardinality(Within(E, v.friends, c)) \in Nat
      /\ Cardinality(Within(D, v.friends, c)) \in Nat
  BY <1>1, WithinCounts
<1>4. Count(v.master[c] # Nobody /\ \E m \in E : c \in v.summons[m])
        <= Count(v.master[c] # Nobody /\ \E m \in D : c \in v.summons[m])
  BY DEF Count
<1>5. /\ Count(v.master[c] # Nobody /\ \E m \in E : c \in v.summons[m]) \in Nat
      /\ Count(v.master[c] # Nobody /\ \E m \in D : c \in v.summons[m]) \in Nat
  BY DEF Count
<1> QED BY <1>2, <1>3, <1>4, <1>5, HeldByIs

(***************************************************************************)
(* The garbage is the least closed set: its members are held by members    *)
(* only, and whoever is not of it is held by somebody else.                *)
(***************************************************************************)
Closed(v, D) == \A x \in Creatures \ D : v.status[x] # "free" => HeldBy(v, D, x) < v.refs[x]

\* Garbage is the intersection of the closed sets.
LEMMA GarbageIs == \A v : Garbage(v) = {c \in Creatures : \A D \in SUBSET Creatures : Closed(v, D) => c \in D}
BY DEF Garbage, Closed

\* It is closed itself: whoever is not deleted has a reference that remains.
LEMMA GarbageClosed ==
  ASSUME NEW v \in State
  PROVE  Closed(v, Garbage(v)) /\ Garbage(v) \in SUBSET Creatures
<1>0. Garbage(v) \in SUBSET Creatures
  BY DEF Garbage
<1>1. SUFFICES ASSUME NEW x \in Creatures \ Garbage(v), v.status[x] # "free"
               PROVE  HeldBy(v, Garbage(v), x) < v.refs[x]
  BY <1>0 DEF Closed
<1>2. PICK D \in SUBSET Creatures : Closed(v, D) /\ x \notin D
  BY GarbageIs
<1>3. Garbage(v) \subseteq D
  BY <1>2, GarbageIs
<1>4. HeldBy(v, Garbage(v), x) <= HeldBy(v, D, x)
  BY <1>3, HeldByMore
<1>5. HeldBy(v, D, x) < v.refs[x]
  BY <1>1, <1>2 DEF Closed
<1>6. HeldBy(v, D, x) \in Nat /\ HeldBy(v, Garbage(v), x) \in Nat /\ v.refs[x] \in Int
  BY <1>0, HeldByType DEF State
<1> QED BY <1>4, <1>5, <1>6

\* Nothing else is deleted: all references to an object of it come from objects of it.
LEMMA GarbageHeld ==
  ASSUME NEW v \in State, NEW x \in Garbage(v)
  PROVE  v.status[x] # "free" /\ v.refs[x] <= HeldBy(v, Garbage(v), x)
<1> DEFINE G == Garbage(v)
           D == {c \in G : v.status[c] # "free" /\ v.refs[c] <= HeldBy(v, G, c)}
<1>0. G \in SUBSET Creatures /\ D \in SUBSET G
  BY GarbageClosed
<1>1. Closed(v, D)
  <2> SUFFICES ASSUME NEW c \in Creatures \ D, v.status[c] # "free"
               PROVE  HeldBy(v, D, c) < v.refs[c]
    BY DEF Closed
  <2>1. HeldBy(v, G, c) < v.refs[c]
    <3>1. CASE c \in G
      <4>1. ~ (v.refs[c] <= HeldBy(v, G, c))
        BY <3>1
      <4>2. v.refs[c] \in Int /\ HeldBy(v, G, c) \in Nat
        BY <1>0, HeldByType DEF State
      <4> QED BY <4>1, <4>2
    <3>2. CASE c \notin G
      BY <3>2, GarbageClosed DEF Closed
    <3> QED BY <3>1, <3>2
  <2>2. HeldBy(v, D, c) <= HeldBy(v, G, c)
    BY <1>0, HeldByMore
  <2>3. v.refs[c] \in Int /\ HeldBy(v, G, c) \in Nat /\ HeldBy(v, D, c) \in Nat
    BY <1>0, HeldByType DEF State
  <2> QED BY <2>1, <2>2, <2>3
<1>2. G \subseteq D
  BY <1>0, <1>1, GarbageIs
<1> QED BY <1>2

\* What is garbage is not in the world, not released, not checked and not of the spawn.
LEMMA GarbageDead ==
  ASSUME NEW v, Loose(v), NEW x \in Garbage(v)
  PROVE  /\ ~Live(v, x) /\ ~v.inVector[x] /\ \A s \in Slots : x \notin v.spawned[s]
         /\ v.refs[x] = HeldBy(v, Garbage(v), x)
         /\ \A m \in Creatures : x \in v.targets[m] \/ x \in v.friends[m] => m \in Garbage(v)
         /\ v.master[x] # Nobody => v.master[x] \in Garbage(v)
<1> DEFINE G == Garbage(v)
           h == Count(v.master[x] # Nobody /\ \E m \in G : x \in v.summons[m])
<1>0. v \in State /\ x \in Creatures /\ G \in SUBSET Creatures
  BY GarbageClosed DEF Loose
<1>1. v.refs[x] <= HeldBy(v, G, x)
  BY <1>0, GarbageHeld
<1>2. v.refs[x] = References(v, x)
  BY <1>0 DEF Loose, Exact
<1>3. /\ Cardinality(Within(G, v.targets, x)) <= Cardinality(Within(Creatures, v.targets, x))
      /\ Cardinality(Within(G, v.targets, x)) = Cardinality(Within(Creatures, v.targets, x))
           => \A m \in Creatures : x \in v.targets[m] => m \in G
      /\ Cardinality(Within(G, v.friends, x)) <= Cardinality(Within(Creatures, v.friends, x))
      /\ Cardinality(Within(G, v.friends, x)) = Cardinality(Within(Creatures, v.friends, x))
           => \A m \in Creatures : x \in v.friends[m] => m \in G
  <2> HIDE DEF G
  <2> QED BY <1>0, Hands, WithinMore
<1>4. /\ Cardinality(Within(G, v.targets, x)) \in Nat
      /\ Cardinality(Within(Creatures, v.targets, x)) \in Nat
      /\ Cardinality(Within(G, v.friends, x)) \in Nat
      /\ Cardinality(Within(Creatures, v.friends, x)) \in Nat
      /\ Cardinality(Within(Slots, v.spawned, x)) \in Nat
  <2> HIDE DEF G
  <2>1. IsFiniteSet(G)
    BY <1>0, Hands, FS_Subset
  <2> QED BY <2>1, Hands, WithinCounts
<1>5. /\ h \in {0, 1} /\ h <= Count(v.master[x] # Nobody) /\ Count(v.master[x] # Nobody) \in {0, 1}
      /\ h = Count(v.master[x] # Nobody) => (v.master[x] # Nobody => \E m \in G : x \in v.summons[m])
      /\ Count(Placed(v, x)) \in Nat /\ (Count(Placed(v, x)) = 0 => ~Placed(v, x))
      /\ Count(v.inVector[x]) \in Nat /\ (Count(v.inVector[x]) = 0 => ~v.inVector[x])
      /\ v.toRelease[x] \in Nat
  BY <1>0 DEF Count, State
<1>6. HeldBy(v, G, x) = Cardinality(Within(G, v.targets, x)) + Cardinality(Within(G, v.friends, x)) + h
  BY HeldByIs
<1>7. v.refs[x] = Count(Placed(v, x)) + v.toRelease[x] + Count(v.inVector[x])
    + Cardinality(Within(Slots, v.spawned, x)) + Count(v.master[x] # Nobody)
    + Cardinality(Within(Creatures, v.targets, x)) + Cardinality(Within(Creatures, v.friends, x))
  BY <1>2, ReferencesAre
<1>8. /\ Count(Placed(v, x)) = 0 /\ v.toRelease[x] = 0 /\ Count(v.inVector[x]) = 0
      /\ Cardinality(Within(Slots, v.spawned, x)) = 0 /\ h = Count(v.master[x] # Nobody)
      /\ Cardinality(Within(G, v.targets, x)) = Cardinality(Within(Creatures, v.targets, x))
      /\ Cardinality(Within(G, v.friends, x)) = Cardinality(Within(Creatures, v.friends, x))
      /\ v.refs[x] = HeldBy(v, G, x)
  <2> HIDE DEF h, G
  <2> QED BY <1>1, <1>3, <1>4, <1>5, <1>6, <1>7
<1>9. \A s \in Slots : x \notin v.spawned[s]
  <2>1. Within(Slots, v.spawned, x) = {}
    BY <1>8, Hands, WithinCounts, FS_EmptySet
  <2> QED BY <2>1 DEF Within
<1>10. v.master[x] # Nobody => v.master[x] \in G
  <2> SUFFICES ASSUME v.master[x] # Nobody PROVE v.master[x] \in G
    OBVIOUS
  <2>1. PICK m \in G : x \in v.summons[m]
    BY <1>5, <1>8
  <2>2. v.master[x] = m
    BY <2>1, <1>0 DEF Loose, Lines
  <2> QED BY <2>1, <2>2
<1> QED BY <1>3, <1>5, <1>8, <1>9, <1>10 DEF Live

-----------------------------------------------------------------------------
(* Deleting *)

\* What ~Creature and ~Monster change, field by field.
LEMMA DeletedIs ==
  ASSUME NEW v \in State, NEW D \in SUBSET Creatures, NEW u, u = Deleted(v, D)
  PROVE  /\ u \in State
         /\ u.toRelease = v.toRelease /\ u.checked = v.checked /\ u.inVector = v.inVector
         /\ u.spawned = v.spawned /\ u.checkSpawnEvent = v.checkSpawnEvent
         /\ u.scheduled = v.scheduled /\ u.filled = v.filled
         /\ u.forgotten = {f \in v.forgotten : f[1] \notin D /\ f[2] \notin D}
         /\ \A c \in Creatures : /\ u.refs[c] = v.refs[c] - HeldBy(v, D, c)
                                 /\ u.targets[c] = IF c \in D THEN {} ELSE v.targets[c]
                                 /\ u.friends[c] = IF c \in D THEN {} ELSE v.friends[c]
                                 /\ u.summons[c] = IF c \in D THEN {} ELSE v.summons[c]
                                 /\ u.master[c] = IF c \in Orphans(v, D) THEN Nobody ELSE v.master[c]
                                 /\ u.attacked[c] \in {v.attacked[c], Nobody}
                                 /\ c \in D => u.attacked[c] = Nobody
                                 /\ u.follow[c] = IF c \in D THEN Nobody ELSE v.follow[c]
                                 /\ u.status[c] = IF c \in D THEN "free" ELSE v.status[c]
                                 /\ u.alive[c] = (c \in D \/ v.alive[c])
                                 /\ u.at[c] = IF c \in D THEN Home ELSE v.at[c]
<1> DEFINE E == {c \in Creatures : c \in D \/ \E s \in Orphans(v, D) : c \in AttackingWith(v, s, Nobody)}
           O == Orphans(v, D)
<1>1. \A c \in Creatures : HeldBy(v, D, c) \in Nat /\ v.refs[c] - HeldBy(v, D, c) \in Int
  BY HeldByType DEF State
<1>2. u = [v EXCEPT
        !.refs = [c \in Creatures |-> @[c] - HeldBy(v, D, c)],
        !.targets = [c \in Creatures |-> IF c \in D THEN {} ELSE @[c]],
        !.friends = [c \in Creatures |-> IF c \in D THEN {} ELSE @[c]],
        !.summons = [c \in Creatures |-> IF c \in D THEN {} ELSE @[c]],
        !.master = [c \in Creatures |-> IF c \in O THEN Nobody ELSE @[c]],
        !.attacked = [c \in Creatures |-> IF c \in E THEN Nobody ELSE @[c]],
        !.follow = [c \in Creatures |-> IF c \in D THEN Nobody ELSE @[c]],
        !.status = [c \in Creatures |-> IF c \in D THEN "free" ELSE @[c]],
        !.idle = [c \in Creatures |-> c \in D \/ @[c]],
        !.alive = [c \in Creatures |-> c \in D \/ @[c]],
        !.at = [c \in Creatures |-> IF c \in D THEN Home ELSE @[c]],
        !.forgotten = {f \in @ : f[1] \notin D /\ f[2] \notin D}]
  BY DEF Deleted
<1>3. D \subseteq E
  OBVIOUS
<1> HIDE DEF E, O
<1>4. u \in State
  <2>0. O \in SUBSET Creatures
    BY DEF O, Orphans, State
  <2>1. /\ [c \in Creatures |-> v.refs[c] - HeldBy(v, D, c)] \in [Creatures -> Int]
        /\ [c \in Creatures |-> IF c \in D THEN {} ELSE v.targets[c]] \in [Creatures -> SUBSET Creatures]
        /\ [c \in Creatures |-> IF c \in D THEN {} ELSE v.friends[c]] \in [Creatures -> SUBSET Creatures]
        /\ [c \in Creatures |-> IF c \in D THEN {} ELSE v.summons[c]] \in [Creatures -> SUBSET Creatures]
    BY <1>1 DEF State
  <2>2. /\ [c \in Creatures |-> IF c \in O THEN Nobody ELSE v.master[c]] \in [Creatures -> Creatures \cup {Nobody}]
        /\ [c \in Creatures |-> IF c \in E THEN Nobody ELSE v.attacked[c]] \in [Creatures -> Creatures \cup {Nobody}]
        /\ [c \in Creatures |-> IF c \in D THEN Nobody ELSE v.follow[c]] \in [Creatures -> Creatures \cup {Nobody}]
    BY DEF State
  <2>3. /\ [c \in Creatures |-> IF c \in D THEN "free" ELSE v.status[c]] \in [Creatures -> {"free", "placed", "removed"}]
        /\ [c \in Creatures |-> c \in D \/ v.idle[c]] \in [Creatures -> BOOLEAN]
        /\ [c \in Creatures |-> c \in D \/ v.alive[c]] \in [Creatures -> BOOLEAN]
        /\ [c \in Creatures |-> IF c \in D THEN Home ELSE v.at[c]] \in [Creatures -> Places]
        /\ {f \in v.forgotten : f[1] \notin D /\ f[2] \notin D} \in SUBSET (Creatures \X Creatures)
    BY Hands DEF State
  <2> DEFINE r == [c \in Creatures |-> v.refs[c] - HeldBy(v, D, c)]
             t == [c \in Creatures |-> IF c \in D THEN {} ELSE v.targets[c]]
             f == [c \in Creatures |-> IF c \in D THEN {} ELSE v.friends[c]]
             s == [c \in Creatures |-> IF c \in D THEN {} ELSE v.summons[c]]
             m == [c \in Creatures |-> IF c \in O THEN Nobody ELSE v.master[c]]
             a == [c \in Creatures |-> IF c \in E THEN Nobody ELSE v.attacked[c]]
             o == [c \in Creatures |-> IF c \in D THEN Nobody ELSE v.follow[c]]
             z == [c \in Creatures |-> IF c \in D THEN "free" ELSE v.status[c]]
             i == [c \in Creatures |-> c \in D \/ v.idle[c]]
             l == [c \in Creatures |-> c \in D \/ v.alive[c]]
             p == [c \in Creatures |-> IF c \in D THEN Home ELSE v.at[c]]
             g == {h \in v.forgotten : h[1] \notin D /\ h[2] \notin D}
  <2>4. u = [v EXCEPT !.refs = r, !.targets = t, !.friends = f, !.summons = s, !.master = m, !.attacked = a,
                      !.follow = o, !.status = z, !.idle = i, !.alive = l, !.at = p, !.forgotten = g]
    BY <1>2
  <2> HIDE DEF r, t, f, s, m, a, o, z, i, l, p, g
  <2> DEFINE v1 == [v EXCEPT !.refs = r, !.targets = t, !.friends = f, !.summons = s]
             v2 == [v1 EXCEPT !.master = m, !.attacked = a, !.follow = o, !.status = z]
  <2>5. v1 \in State
    BY <2>1 DEF State, r, t, f, s
  <2>6. v2 \in State
    <3> HIDE DEF v1
    <3> QED BY <2>2, <2>3, <2>5 DEF State, m, a, o, z
  <2>7. u = [v2 EXCEPT !.idle = i, !.alive = l, !.at = p, !.forgotten = g]
    BY <2>4
  <2> HIDE DEF v2
  <2> QED BY <2>3, <2>6, <2>7 DEF State, i, l, p, g
<1>5. /\ u.toRelease = v.toRelease /\ u.checked = v.checked /\ u.inVector = v.inVector
      /\ u.spawned = v.spawned /\ u.checkSpawnEvent = v.checkSpawnEvent
      /\ u.scheduled = v.scheduled /\ u.filled = v.filled
      /\ u.forgotten = {f \in v.forgotten : f[1] \notin D /\ f[2] \notin D}
  BY <1>2 DEF State
<1>6. ASSUME NEW c \in Creatures
      PROVE  /\ u.refs[c] = v.refs[c] - HeldBy(v, D, c)
             /\ u.targets[c] = IF c \in D THEN {} ELSE v.targets[c]
             /\ u.friends[c] = IF c \in D THEN {} ELSE v.friends[c]
             /\ u.summons[c] = IF c \in D THEN {} ELSE v.summons[c]
             /\ u.master[c] = IF c \in O THEN Nobody ELSE v.master[c]
             /\ u.attacked[c] = IF c \in E THEN Nobody ELSE v.attacked[c]
             /\ u.follow[c] = IF c \in D THEN Nobody ELSE v.follow[c]
             /\ u.status[c] = IF c \in D THEN "free" ELSE v.status[c]
             /\ u.alive[c] = (c \in D \/ v.alive[c])
             /\ u.at[c] = IF c \in D THEN Home ELSE v.at[c]
  BY <1>2 DEF State
<1>7. \A c \in Creatures : u.attacked[c] \in {v.attacked[c], Nobody} /\ (c \in D => u.attacked[c] = Nobody)
  BY <1>3, <1>6
<1> QED BY <1>4, <1>5, <1>6, <1>7 DEF O

\* Deleting all of the garbage leaves the counters exact.
LEMMA DeletedExact ==
  ASSUME NEW v, Loose(v), NEW u, u = Deleted(v, Garbage(v))
  PROVE  Exact(u)
<1> DEFINE G == Garbage(v)
<1>0. v \in State /\ G \in SUBSET Creatures /\ IsFiniteSet(Creatures)
  BY GarbageClosed, Hands DEF Loose
<1> HIDE DEF G
<1>1. SUFFICES ASSUME NEW c \in Creatures PROVE u.refs[c] = References(u, c)
  BY DEF Exact
<1>2. /\ Cardinality(Within(Creatures, u.targets, c))
           = Cardinality(Within(Creatures, v.targets, c)) - Cardinality(Within(G, v.targets, c))
      /\ Cardinality(Within(Creatures, u.friends, c))
           = Cardinality(Within(Creatures, v.friends, c)) - Cardinality(Within(G, v.friends, c))
  BY <1>0, WithinLess, DeletedIs DEF G
<1>3. /\ Cardinality(Within(G, v.targets, c)) \in Nat
      /\ Cardinality(Within(Creatures, v.targets, c)) \in Nat
      /\ Cardinality(Within(G, v.friends, c)) \in Nat
      /\ Cardinality(Within(Creatures, v.friends, c)) \in Nat
      /\ Cardinality(Within(Slots, v.spawned, c)) \in Nat
  <2>1. IsFiniteSet(G)
    BY <1>0, FS_Subset
  <2> QED BY <2>1, Hands, WithinCounts
<1>4. u.refs[c] = v.refs[c] - HeldBy(v, G, c)
  BY <1>0, DeletedIs DEF G
<1>5. v.refs[c] = Count(Placed(v, c)) + v.toRelease[c] + Count(v.inVector[c])
    + Cardinality(Within(Slots, v.spawned, c)) + Count(v.master[c] # Nobody)
    + Cardinality(Within(Creatures, v.targets, c)) + Cardinality(Within(Creatures, v.friends, c))
  BY ReferencesAre DEF Loose, Exact
<1>6. HeldBy(v, G, c) = Cardinality(Within(G, v.targets, c)) + Cardinality(Within(G, v.friends, c))
                        + Count(v.master[c] # Nobody /\ \E m \in G : c \in v.summons[m])
  BY HeldByIs
<1>7. Count(u.master[c] # Nobody)
        = Count(v.master[c] # Nobody) - Count(v.master[c] # Nobody /\ \E m \in G : c \in v.summons[m])
  <2>1. u.master[c] = IF \E m \in G : c \in v.summons[m] THEN Nobody ELSE v.master[c]
    BY <1>0, DeletedIs DEF G, Orphans
  <2> QED BY <2>1 DEF Count
<1>8. Placed(u, c) <=> Placed(v, c)
  <2>1. c \in G => ~Placed(v, c)
    BY GarbageDead DEF G, Live
  <2>2. u.status[c] = IF c \in G THEN "free" ELSE v.status[c]
    BY <1>0, DeletedIs DEF G
  <2> QED BY <2>1, <2>2 DEF Placed
<1>9. u.toRelease = v.toRelease /\ u.inVector = v.inVector /\ u.spawned = v.spawned
  BY <1>0, DeletedIs DEF G
<1>10. References(u, c) = Count(Placed(v, c)) + v.toRelease[c] + Count(v.inVector[c])
    + Cardinality(Within(Slots, v.spawned, c))
    + (Count(v.master[c] # Nobody) - Count(v.master[c] # Nobody /\ \E m \in G : c \in v.summons[m]))
    + (Cardinality(Within(Creatures, v.targets, c)) - Cardinality(Within(G, v.targets, c)))
    + (Cardinality(Within(Creatures, v.friends, c)) - Cardinality(Within(G, v.friends, c)))
  BY <1>2, <1>7, <1>8, <1>9, ReferencesAre DEF Count
<1>11. /\ Count(Placed(v, c)) \in Nat /\ v.toRelease[c] \in Nat /\ Count(v.inVector[c]) \in Nat
       /\ Count(v.master[c] # Nobody) \in Nat
       /\ Count(v.master[c] # Nobody /\ \E m \in G : c \in v.summons[m]) \in Nat
  BY <1>0 DEF Count, State
<1> QED BY <1>3, <1>4, <1>5, <1>6, <1>10, <1>11

\* It leaves everybody else as it was, and no pointer to what is gone.
LEMMA DeletedSound ==
  ASSUME NEW v, Loose(v), NEW u, u = Deleted(v, Garbage(v))
  PROVE  Core(u) /\ Keeps(v, u, {}, {}) /\ Stays(v, u) /\ u.toRelease = v.toRelease /\ Calm(v, u)
<1> DEFINE G == Garbage(v)
<1>0. v \in State /\ G \in SUBSET Creatures
  BY GarbageClosed DEF Loose
<1>f. /\ u \in State
      /\ u.toRelease = v.toRelease /\ u.checked = v.checked /\ u.inVector = v.inVector
      /\ u.spawned = v.spawned /\ u.checkSpawnEvent = v.checkSpawnEvent
      /\ u.scheduled = v.scheduled /\ u.filled = v.filled
      /\ u.forgotten = {f \in v.forgotten : f[1] \notin G /\ f[2] \notin G}
      /\ \A c \in Creatures : /\ u.refs[c] = v.refs[c] - HeldBy(v, G, c)
                              /\ u.targets[c] = IF c \in G THEN {} ELSE v.targets[c]
                              /\ u.summons[c] = IF c \in G THEN {} ELSE v.summons[c]
                              /\ u.master[c] = IF c \in Orphans(v, G) THEN Nobody ELSE v.master[c]
                              /\ u.attacked[c] \in {v.attacked[c], Nobody}
                              /\ c \in G => u.attacked[c] = Nobody
                              /\ u.follow[c] = IF c \in G THEN Nobody ELSE v.follow[c]
                              /\ u.status[c] = IF c \in G THEN "free" ELSE v.status[c]
                              /\ u.alive[c] = (c \in G \/ v.alive[c])
                              /\ u.at[c] = IF c \in G THEN Home ELSE v.at[c]
  BY <1>0, DeletedIs
<1>j. Nobody \notin G
  BY <1>0, Hands
<1>g. \A c \in G : c \in Creatures /\ ~Live(v, c) /\ ~Placed(v, c) /\ v.refs[c] = HeldBy(v, G, c)
  BY <1>0, GarbageDead DEF Live
<1>h. \A c \in Creatures \ G : v.status[c] # "free" => HeldBy(v, G, c) < v.refs[c]
  BY <1>0, GarbageClosed DEF Closed
<1>o. \A c \in Creatures : c \in Orphans(v, G) <=> v.master[c] \in G
  BY <1>0 DEF Orphans, Loose, Lines
<1> HIDE DEF G
<1>p. \A c \in Creatures : Placed(u, c) <=> Placed(v, c)
  BY <1>f, <1>g DEF Placed
<1>n. \A c \in Creatures : v.refs[c] \in Int /\ HeldBy(v, G, c) \in Nat
  BY <1>0, HeldByType DEF State
<1>1. Exact(u)
  BY DeletedExact
<1>2. Lines(u)
  <2>1. \A p \in Players : u.master[p] = Nobody
    BY <1>f, Hands DEF Loose, Lines
  <2>2. ASSUME NEW x \in Creatures, NEW m \in Creatures PROVE u.master[x] = m <=> x \in u.summons[m]
    BY <1>f, <1>o, Hands DEF Loose, Lines
  <2>3. ASSUME NEW x \in Creatures, u.master[x] \in Monsters
        PROVE  u.master[u.master[x]] \notin Monsters
    BY <2>3, <1>f, Hands DEF Loose, Lines
  <2> QED BY <2>1, <2>2, <2>3 DEF Lines
<1>3. Blank(u)
  <2> SUFFICES ASSUME NEW c \in Creatures, u.status[c] = "free"
               PROVE  u.alive[c] /\ u.attacked[c] = Nobody /\ u.follow[c] = Nobody
                      /\ u.summons[c] = {}
    BY DEF Blank
  <2>1. CASE c \in G
    BY <2>1, <1>f
  <2>2. CASE c \notin G
    <3>1. v.status[c] = "free"
      BY <2>2, <1>f
    <3>2. v.alive[c] /\ v.attacked[c] = Nobody /\ v.follow[c] = Nobody /\ v.summons[c] = {}
      BY <3>1 DEF Loose, Blank
    <3> QED BY <2>2, <3>2, <1>f
  <2> QED BY <2>1, <2>2
<1>4. MastersLive(u)
  <2> SUFFICES ASSUME NEW x \in Creatures, Placed(u, x), u.master[x] # Nobody
               PROVE  Live(u, u.master[x])
    BY DEF MastersLive
  <2>1. u.master[x] = v.master[x] /\ Live(v, v.master[x]) /\ v.master[x] \in Creatures
    BY <1>0, <1>f, <1>p DEF Loose, MastersLive, State
  <2> QED BY <2>1, <1>f, <1>p DEF Live
<1>5. ASSUME NEW c \in Creatures PROVE u.status[c] = "free" <=> u.refs[c] = 0
  <2>1. CASE c \in G
    BY <2>1, <1>f, <1>g, <1>n
  <2>2. CASE c \notin G /\ v.status[c] # "free"
    BY <2>2, <1>f, <1>h, <1>n
  <2>3. CASE c \notin G /\ v.status[c] = "free"
    <3>1. v.refs[c] = 0
      BY <2>3 DEF Loose
    <3>2. u.refs[c] = 0 - HeldBy(v, G, c) /\ u.status[c] = "free"
      BY <2>3, <3>1, <1>f
    <3>3. u.refs[c] \in Nat
      <4>1. u.refs[c] = References(u, c)
        BY <1>1 DEF Exact
      <4>2. References(u, c) \in Nat
        BY <1>f, ReferencesAre, WithinCounts, Hands DEF Count, State
      <4> QED BY <4>1, <4>2
    <3> QED BY <3>2, <3>3, <1>n
  <2> QED BY <2>1, <2>2, <2>3
<1>w. \A c \in Creatures : Awake(u, c) => Placed(u, c)
  BY <1>f, <1>p DEF Loose, Awake
<1>6. Core(u)
  BY <1>f, <1>1, <1>2, <1>3, <1>4, <1>5, <1>w DEF Core, Loose
<1>7. KeepsLives(v, u)
  BY <1>f, <1>g, <1>p, Hands DEF KeepsLives, Live
<1>8. KeepsPointers(v, u)
  <2> SUFFICES ASSUME NEW x \in Creatures, Placed(u, x), NEW y \in Pointers(u, x)
               PROVE  y \in Pointers(v, x) /\ (Placed(v, y) => Placed(u, y))
    BY DEF KeepsPointers, Safe
  <2>1. y \in Creatures
    BY <1>f DEF Pointers, State
  <2>2. x \notin G
    BY <1>g, <1>p
  <2> QED BY <2>1, <2>2, <1>f, <1>p DEF Pointers
<1>m. \A x \in Creatures : Placed(v, x) => x \notin G /\ v.master[x] \notin G
  BY <1>g, <1>j, Hands DEF Loose, MastersLive
<1>9. KeepsMasters(v, u, {})
  BY <1>m, <1>f, <1>o, <1>p DEF KeepsMasters
<1>10. KeepsKnown(v, u, {}, {})
  <2> SUFFICES ASSUME NEW m \in Monsters, NEW p \in Players, Placed(u, m), Placed(u, p),
                      Knows(v, m, p)
               PROVE  Knows(u, m, p)
    BY DEF KeepsKnown
  <2>1. m \in Creatures /\ p \in Creatures /\ m \notin G /\ p \notin G
    BY <1>m, <1>p, Hands
  <2>2. u.master[m] = v.master[m]
    BY <2>1, <1>9 DEF KeepsMasters
  <2>3. <<m, p>> \in v.forgotten => <<m, p>> \in u.forgotten
    BY <2>1, <1>f
  <2> QED BY <2>1, <2>2, <2>3, <1>f DEF Knows, Awake
<1>11. KeepsSpawns(v, u)
  BY <1>0, <1>f, <1>p, Hands DEF KeepsSpawns, State
<1>12. KeepsMinded(v, u)
  BY <1>f, <1>m, <1>p DEF KeepsMinded, Minded, Awake
<1>13. Calm(v, u)
  BY <1>f DEF Calm, Pointers
<1> QED BY <1>f, <1>p, <1>6, <1>7, <1>8, <1>9, <1>10, <1>11, <1>12, <1>13 DEF Keeps, Stays

\* Deleting what has no reference left makes the counters and the addresses agree.
LEMMA SweptSound ==
  ASSUME NEW v, Loose(v), NEW u, u = Swept(v)
  PROVE  Core(u) /\ Keeps(v, u, {}, {}) /\ Stays(v, u) /\ u.toRelease = v.toRelease /\ Calm(v, u)
<1>1. CASE \A c \in Creatures : v.status[c] = "free" \/ v.refs[c] > 0
  <2>1. u = v
    BY <1>1 DEF Swept
  <2>2. Core(v)
    BY <1>1 DEF Core, Loose, State
  <2> QED BY <2>1, <2>2, KeepsSelf DEF Calm
<1>2. CASE ~ \A c \in Creatures : v.status[c] = "free" \/ v.refs[c] > 0
  BY <1>2, DeletedSound DEF Swept
<1> QED BY <1>1, <1>2

\* Deleting does not touch the spawn, and it changes a target list by emptying it.
LEMMA SweptIs ==
  ASSUME NEW v, Loose(v), NEW u, u = Swept(v)
  PROVE  /\ u.spawned = v.spawned /\ u.checkSpawnEvent = v.checkSpawnEvent
         /\ u.scheduled = v.scheduled
         /\ u.filled = v.filled /\ \A c \in Creatures : u.targets[c] \in {v.targets[c], {}}
<1>1. CASE u = v
  BY <1>1
<1>2. CASE u = Deleted(v, Garbage(v))
  <2>1. v \in State /\ Garbage(v) \in SUBSET Creatures
    BY GarbageClosed DEF Loose
  <2> QED BY <1>2, <2>1, DeletedIs
<1> QED BY <1>1, <1>2 DEF Swept

-----------------------------------------------------------------------------
(* Steps that change counters and lists *)

\* The references can be counted.
LEMMA ReferencesNat ==
  ASSUME NEW v \in State, NEW c \in Creatures
  PROVE  References(v, c) \in Nat
<1>1. /\ Cardinality(Within(Slots, v.spawned, c)) \in Nat
      /\ Cardinality(Within(Creatures, v.targets, c)) \in Nat
      /\ Cardinality(Within(Creatures, v.friends, c)) \in Nat
  BY WithinCounts, Hands
<1>2. v.toRelease[c] \in Nat
  BY DEF State
<1> QED BY <1>1, <1>2, ReferencesAre DEF Count

\* Whoever is held by somebody is in use.
LEMMA HeldIsUsed ==
  ASSUME NEW v, Loose(v), NEW c \in Creatures,
         \/ Live(v, c) \/ v.inVector[c] \/ v.master[c] # Nobody \/ \E s \in Slots : c \in v.spawned[s]
         \/ \E m \in Creatures : c \in v.targets[m] \/ c \in v.friends[m]
  PROVE  Used(v, c) /\ v.refs[c] > 0
<1>1. /\ Cardinality(Within(Slots, v.spawned, c)) \in Nat
      /\ Cardinality(Within(Creatures, v.targets, c)) \in Nat
      /\ Cardinality(Within(Creatures, v.friends, c)) \in Nat /\ v.toRelease[c] \in Nat
  BY WithinCounts, Hands DEF Loose, State
<1>2. ASSUME NEW D, IsFiniteSet(D), NEW f, Cardinality(Within(D, f, c)) = 0
      PROVE  \A m \in D : c \notin f[m]
  <2>1. Within(D, f, c) = {}
    BY <1>2, WithinCounts, FS_EmptySet
  <2> QED BY <2>1 DEF Within
<1>3. v.refs[c] = Count(Placed(v, c)) + v.toRelease[c] + Count(v.inVector[c])
    + Cardinality(Within(Slots, v.spawned, c)) + Count(v.master[c] # Nobody)
    + Cardinality(Within(Creatures, v.targets, c)) + Cardinality(Within(Creatures, v.friends, c))
  BY ReferencesAre DEF Loose, Exact
<1>4. v.refs[c] > 0
  <2>1. SUFFICES ASSUME ~ (v.refs[c] > 0) PROVE FALSE
    OBVIOUS
  <2>2. /\ Count(Placed(v, c)) = 0 /\ v.toRelease[c] = 0 /\ Count(v.inVector[c]) = 0
        /\ Cardinality(Within(Slots, v.spawned, c)) = 0 /\ Count(v.master[c] # Nobody) = 0
        /\ Cardinality(Within(Creatures, v.targets, c)) = 0
        /\ Cardinality(Within(Creatures, v.friends, c)) = 0
    <3>1. /\ Count(Placed(v, c)) \in Nat /\ Count(v.inVector[c]) \in Nat
          /\ Count(v.master[c] # Nobody) \in Nat
      BY DEF Count
    <3>2. ASSUME NEW a \in Nat, NEW b \in Nat, NEW d \in Nat, NEW e \in Nat, NEW f \in Nat,
                 NEW g \in Nat, NEW h \in Nat,
                 ~ (a + b + d + e + f + g + h > 0)
          PROVE  a = 0 /\ b = 0 /\ d = 0 /\ e = 0 /\ f = 0 /\ g = 0 /\ h = 0
      BY <3>2
    <3>3. ~ (Count(Placed(v, c)) + v.toRelease[c] + Count(v.inVector[c])
             + Cardinality(Within(Slots, v.spawned, c)) + Count(v.master[c] # Nobody)
             + Cardinality(Within(Creatures, v.targets, c)) + Cardinality(Within(Creatures, v.friends, c)) > 0)
      BY <1>3, <2>1
    <3> QED BY <1>1, <3>1, <3>2, <3>3
  <2>3. ~Placed(v, c) /\ ~v.inVector[c] /\ v.master[c] = Nobody /\ ~Live(v, c)
    BY <2>2 DEF Count, Live
  <2>4. \A s \in Slots : c \notin v.spawned[s]
    BY <1>2, <2>2, Hands
  <2>5. \A m \in Creatures : c \notin v.targets[m] /\ c \notin v.friends[m]
    BY <1>2, <2>2, Hands
  <2> QED BY <2>3, <2>4, <2>5
<1> QED BY <1>4 DEF Loose, Used

\* u differs from v in counters, lists and the check list only.
SameBut(v, u) ==
  /\ u.status = v.status /\ u.at = v.at /\ u.alive = v.alive /\ u.toRelease = v.toRelease
  /\ u.master = v.master /\ u.summons = v.summons /\ u.attacked = v.attacked /\ u.follow = v.follow
  /\ u.spawned = v.spawned /\ u.checkSpawnEvent = v.checkSpawnEvent /\ u.scheduled = v.scheduled
  /\ u.filled = v.filled

\* The same, with the types.
Quiet(v, u) == u \in State /\ SameBut(v, u)

\* Such a step makes no pointer, summon or dead creature.
LEMMA QuietCalm == \A v, u : Quiet(v, u) => Calm(v, u)
BY DEF Quiet, SameBut, Calm, Pointers

\* It keeps what it does not touch.
LEMMA QuietKeeps ==
  ASSUME NEW v, Loose(v), NEW u, Quiet(v, u), Exact(u), NEW X, KeepsKnown(v, u, X, {}),
         KeepsMinded(v, u),
         \A c \in Creatures : Awake(u, c) => Placed(u, c),
         \A c \in Creatures : v.status[c] = "free" => u.refs[c] <= v.refs[c]
  PROVE  Loose(u) /\ Keeps(v, u, X, {}) /\ Stays(v, u)
<1>1. u \in State /\ Lines(u) /\ Blank(u) /\ MastersLive(u)
  BY DEF Quiet, SameBut, Loose, Lines, Blank, MastersLive, Live, Placed
<1>2. ASSUME NEW c \in Creatures, u.status[c] = "free" PROVE u.refs[c] = 0
  <2>1. v.status[c] = "free" /\ v.refs[c] = 0 /\ u.refs[c] <= v.refs[c]
    BY <1>2 DEF Quiet, SameBut, Loose
  <2>2. u.refs[c] \in Nat
    BY <1>1, ReferencesNat DEF Exact
  <2> QED BY <2>1, <2>2
<1>3. Loose(u)
  BY <1>1, <1>2 DEF Loose
<1>4. \A c \in Creatures : (Live(u, c) <=> Live(v, c)) /\ (Placed(u, c) <=> Placed(v, c))
  BY DEF Quiet, SameBut, Live, Placed
<1>5. KeepsLives(v, u) /\ KeepsMasters(v, u, {}) /\ KeepsSpawns(v, u) /\ Stays(v, u)
  BY <1>4, Hands DEF Quiet, SameBut, KeepsLives, KeepsMasters, KeepsSpawns, Stays, Loose, State
<1>6. KeepsPointers(v, u)
  <2> SUFFICES ASSUME NEW x \in Creatures, Placed(u, x), NEW y \in Pointers(u, x)
               PROVE  y \in Pointers(v, x) /\ (Placed(v, y) => Placed(u, y))
    BY DEF KeepsPointers, Safe
  <2> QED BY <1>4 DEF Pointers, Quiet, SameBut, Placed
<1> QED BY <1>3, <1>5, <1>6 DEF Keeps

\* The lists of one creature change, and the counters with them.
Recounted(v, u, m) ==
  /\ \A d \in Creatures \ {m} : u.targets[d] = v.targets[d] /\ u.friends[d] = v.friends[d]
  /\ \A c \in Creatures : u.refs[c] = v.refs[c] + Count(c \in u.targets[m]) - Count(c \in v.targets[m])
                                                 + Count(c \in u.friends[m]) - Count(c \in v.friends[m])

\* A step that changes one creature's lists keeps all but what it forgets.
LEMMA ListsKeep ==
  ASSUME NEW v, Loose(v), NEW u, Quiet(v, u), u.checked = v.checked, u.inVector = v.inVector,
         NEW m \in Creatures, Recounted(v, u, m), NEW X, KeepsKnown(v, u, X, {}),
         \A c \in Creatures : v.status[c] = "free" => c \notin u.targets[m] /\ c \notin u.friends[m]
  PROVE  Loose(u) /\ Keeps(v, u, X, {}) /\ Stays(v, u)
<1>1. ASSUME NEW c \in Creatures PROVE u.refs[c] = References(u, c)
  <2>1. /\ Cardinality(Within(Creatures, u.targets, c)) + Count(c \in v.targets[m])
             = Cardinality(Within(Creatures, v.targets, c)) + Count(c \in u.targets[m])
        /\ Cardinality(Within(Creatures, u.friends, c)) + Count(c \in v.friends[m])
             = Cardinality(Within(Creatures, v.friends, c)) + Count(c \in u.friends[m])
    BY WithinOne, Hands DEF Recounted
  <2>2. /\ Cardinality(Within(Creatures, u.targets, c)) \in Nat
        /\ Cardinality(Within(Creatures, v.targets, c)) \in Nat
        /\ Cardinality(Within(Creatures, u.friends, c)) \in Nat
        /\ Cardinality(Within(Creatures, v.friends, c)) \in Nat
        /\ Cardinality(Within(Slots, v.spawned, c)) \in Nat /\ v.toRelease[c] \in Nat
    BY WithinCounts, Hands DEF Loose, State
  <2>3. v.refs[c] = References(v, c)
    BY DEF Loose, Exact
  <2>4. References(u, c) = Count(Placed(v, c)) + v.toRelease[c] + Count(v.inVector[c])
    + Cardinality(Within(Slots, v.spawned, c)) + Count(v.master[c] # Nobody)
    + Cardinality(Within(Creatures, u.targets, c)) + Cardinality(Within(Creatures, u.friends, c))
    BY ReferencesAre DEF Quiet, SameBut, Placed
  <2>5. u.refs[c] = v.refs[c] + Count(c \in u.targets[m]) - Count(c \in v.targets[m])
                              + Count(c \in u.friends[m]) - Count(c \in v.friends[m])
    BY DEF Recounted
  <2> QED BY <2>1, <2>2, <2>3, <2>4, <2>5, ReferencesAre DEF Count
<1>2. ASSUME NEW c \in Creatures, v.status[c] = "free" PROVE u.refs[c] <= v.refs[c]
  <2>1. v.refs[c] \in Int /\ c \notin u.targets[m] /\ c \notin u.friends[m]
    BY <1>2 DEF Loose, State
  <2> QED BY <2>1 DEF Recounted, Count
<1>3. KeepsMinded(v, u)
  BY DEF KeepsMinded, Minded, Awake, Quiet, SameBut
<1>4. \A c \in Creatures : Awake(u, c) => Placed(u, c)
  BY DEF Loose, Awake, Quiet, SameBut, Placed
<1> QED BY <1>1, <1>2, <1>3, <1>4, QuietKeeps DEF Exact

\* What is deleted in the end disturbs nothing.
LEMMA SweptKeeps ==
  ASSUME NEW v \in State, NEW u, Loose(u), NEW X, NEW Y, Keeps(v, u, X, Y), NEW t, t = Swept(u)
  PROVE  Core(t) /\ Keeps(v, t, X, Y) /\ Sound(u, t, {}, {}) /\ t.toRelease = u.toRelease
         /\ Calm(u, t) /\ (Stays(v, u) => Sound(v, t, X, Y))
<1>1. Core(t) /\ Keeps(u, t, {}, {}) /\ Stays(u, t) /\ t.toRelease = u.toRelease /\ Calm(u, t)
  BY SweptSound
<1>2. Keeps(v, t, X \cup {}, Y \cup {})
  BY <1>1, KeepsOn DEF Core, Loose
<1>3. X \cup {} = X /\ Y \cup {} = Y
  OBVIOUS
<1> QED BY <1>1, <1>2, <1>3 DEF Stays, Sound

-----------------------------------------------------------------------------
(* Handlers one after the other *)

\* Two sound handlers are one.
LEMMA SoundOn ==
  ASSUME NEW v, Core(v), NEW u, NEW t, NEW X, NEW Y, NEW X2, NEW Y2, Sound(v, u, X, Y),
         Sound(u, t, X2, Y2)
  PROVE  Sound(v, t, X \cup X2, Y \cup Y2)
BY KeepsOn DEF Sound, Core, Loose, Stays

\* Doing nothing is sound.
LEMMA SoundSelf == \A v : Core(v) => Sound(v, v, {}, {})
BY KeepsSelf DEF Sound

\* Two handlers one after the other, the second or the first of which keeps everything.
LEMMA SoundThen ==
  ASSUME NEW v, Core(v), NEW u, NEW t, NEW X, NEW Y
  PROVE  /\ Sound(v, u, X, Y) /\ Sound(u, t, {}, {}) => Sound(v, t, X, Y)
         /\ Sound(v, u, {}, {}) /\ Sound(u, t, X, Y) => Sound(v, t, X, Y)
         /\ Sound(v, u, X, Y) /\ Sound(u, t, X, Y) => Sound(v, t, X, Y)
<1>1. X \cup {} = X /\ Y \cup {} = Y /\ {} \cup X = X /\ {} \cup Y = Y /\ X \cup X = X
      /\ Y \cup Y = Y
  OBVIOUS
<1> QED BY <1>1, SoundOn

\* A handler that makes no new pointer, summon or dead creature.
Mild(v, u, X, Y) == Sound(v, u, X, Y) /\ Calm(v, u)

\* Doing nothing is calm.
LEMMA CalmSelf == \A v : Calm(v, v)
BY DEF Calm

\* Two calm handlers are one.
LEMMA CalmOn == \A v, u, t : Calm(v, u) /\ Calm(u, t) => Calm(v, t)
BY DEF Calm

\* Doing nothing is mild.
LEMMA MildSelf == \A v : Core(v) => Mild(v, v, {}, {})
BY SoundSelf, CalmSelf DEF Mild

\* The same as SoundThen, of mild handlers.
LEMMA MildThen ==
  ASSUME NEW v, Core(v), NEW u, NEW t, NEW X, NEW Y
  PROVE  /\ Mild(v, u, X, Y) /\ Mild(u, t, {}, {}) => Mild(v, t, X, Y)
         /\ Mild(v, u, {}, {}) /\ Mild(u, t, X, Y) => Mild(v, t, X, Y)
         /\ Mild(v, u, X, Y) /\ Mild(u, t, X, Y) => Mild(v, t, X, Y)
<1>1. Calm(v, u) /\ Calm(u, t) => Calm(v, t)
  BY CalmOn
<1> QED BY <1>1, SoundThen DEF Mild

\* Who may forget more keeps all the same what it kept.
LEMMA KeepsMore ==
  ASSUME NEW v, NEW u, NEW X, NEW Y, NEW X2, NEW Y2, X \subseteq X2, Y \subseteq Y2
  PROVE  /\ Keeps(v, u, X, Y) => Keeps(v, u, X2, Y2)
         /\ Sound(v, u, X, Y) => Sound(v, u, X2, Y2)
         /\ Mild(v, u, X, Y) => Mild(v, u, X2, Y2)
BY DEF Keeps, KeepsKnown, KeepsMasters, Sound, Mild

\* What is known in the end has been kept.
LEMMA KeepsLess ==
  ASSUME NEW v, NEW u, NEW X, NEW X2, NEW Y, Keeps(v, u, X, Y),
         \A m \in Monsters, p \in Players :
           <<m, p>> \in X \ X2 /\ Placed(u, m) /\ u.alive[m] /\ Placed(u, p) => Knows(u, m, p)
  PROVE  Keeps(v, u, X2, Y)
<1>1. KeepsKnown(v, u, X2, Y)
  BY DEF Keeps, KeepsKnown
<1> QED BY <1>1 DEF Keeps

\* The same of mild handlers.
LEMMA MildLess ==
  ASSUME NEW v, NEW u, NEW X, NEW X2, NEW Y, Mild(v, u, X, Y),
         \A m \in Monsters, p \in Players :
           <<m, p>> \in X \ X2 /\ Placed(u, m) /\ u.alive[m] /\ Placed(u, p) => Knows(u, m, p)
  PROVE  Mild(v, u, X2, Y)
<1>1. Keeps(v, u, X2, Y)
  BY KeepsLess DEF Mild, Sound
<1> QED BY <1>1 DEF Mild, Sound

\* More references to the same objects do no harm.
LEMMA CoreGrows ==
  ASSUME NEW v, Core(v), NEW u, Loose(u), u.status = v.status,
         \A c \in Creatures : u.refs[c] >= v.refs[c]
  PROVE  Core(u)
<1> SUFFICES ASSUME NEW c \in Creatures, u.refs[c] = 0 PROVE u.status[c] = "free"
  BY DEF Core
<1>1. v.refs[c] \in Nat /\ u.refs[c] >= v.refs[c]
  BY ReferencesNat DEF Core, Loose, Exact
<1>2. v.refs[c] = 0
  BY <1>1
<1> QED BY <1>2 DEF Core

\* Nobody but its monster asks for isIdle.
LEMMA IdleSound ==
  ASSUME NEW v, Core(v), NEW m \in Creatures, NEW b \in BOOLEAN, NEW u, u = [v EXCEPT !.idle[m] = b]
  PROVE  /\ Mild(v, u, {}, {}) /\ u.targets = v.targets /\ u.friends = v.friends
         /\ u.master = v.master
         /\ u.alive = v.alive /\ u.status = v.status
<1>0. Loose(v) /\ v \in State
  BY DEF Core, Loose
<1>1. Quiet(v, u)
  BY <1>0 DEF Quiet, SameBut, State
<1>2. /\ u.targets = v.targets /\ u.friends = v.friends /\ u.refs = v.refs /\ u.checked = v.checked
      /\ u.inVector = v.inVector /\ u.forgotten = v.forgotten
  BY <1>0 DEF State
<1>3. Exact(u)
  BY <1>1, <1>2 DEF Loose, Core, Exact, References, Quiet, SameBut, Placed
<1>4. KeepsKnown(v, u, {}, {}) /\ KeepsMinded(v, u) /\ \A c \in Creatures : Awake(u, c) => Placed(u, c)
  BY <1>0, <1>1, <1>2 DEF KeepsKnown, Knows, KeepsMinded, Minded, Awake, Quiet, SameBut, Placed,
     Loose
<1>5. \A c \in Creatures : u.refs[c] <= v.refs[c] /\ u.refs[c] >= v.refs[c]
  BY <1>0, <1>2 DEF State
<1>6. Loose(u) /\ Keeps(v, u, {}, {}) /\ Stays(v, u)
  BY <1>0, <1>1, <1>3, <1>4, <1>5, QuietKeeps
<1>7. Core(u)
  BY <1>1, <1>5, <1>6, CoreGrows DEF Quiet, SameBut
<1> QED BY <1>1, <1>2, <1>6, <1>7, QuietCalm DEF Mild, Sound, Quiet, SameBut

\* Game::addCreatureCheck, field by field.
LEMMA AddCreatureCheckIs ==
  ASSUME NEW v \in State, NEW c \in Creatures, NEW u, u = AddCreatureCheck(v, c)
  PROVE  /\ Quiet(v, u) /\ u.targets = v.targets /\ u.friends = v.friends
         /\ u.forgotten = v.forgotten
         /\ \A x \in Creatures : /\ u.checked[x] <=> x = c \/ v.checked[x]
                                 /\ u.inVector[x] <=> x = c \/ v.inVector[x]
                                 /\ u.refs[x] = IF x = c /\ ~v.inVector[c] THEN v.refs[x] + 1 ELSE v.refs[x]
<1>1. CASE v.inVector[c]
  <2>1. u = [v EXCEPT !.checked[c] = TRUE]
    BY <1>1 DEF AddCreatureCheck
  <2>2. Shaped(u)
    BY <2>1, StateIs DEF Shaped
  <2>3. /\ SameBut(v, u) /\ u.refs = v.refs /\ u.targets = v.targets /\ u.friends = v.friends
        /\ u.forgotten = v.forgotten /\ u.inVector = v.inVector
        /\ u.checked = [v.checked EXCEPT ![c] = TRUE]
        /\ u.idle = v.idle
    BY <2>1 DEF SameBut
  <2>4. Typed(u)
    BY <2>3, StateIs DEF Typed, SameBut
  <2>5. Quiet(v, u)
    BY <2>2, <2>3, <2>4, StateIs DEF Quiet
  <2>6. \A x \in Creatures : u.checked[x] <=> x = c \/ v.checked[x]
    BY <2>3, StateIs DEF Typed
  <2> QED BY <1>1, <2>3, <2>5, <2>6
<1>2. CASE ~v.inVector[c]
  <2>1. u = [v EXCEPT !.checked[c] = TRUE, !.inVector[c] = TRUE, !.refs[c] = @ + 1]
    BY <1>2 DEF AddCreatureCheck, IncrementReferenceCounter, State
  <2>2. Shaped(u)
    BY <2>1, StateIs DEF Shaped
  <2>3. /\ SameBut(v, u) /\ u.refs = [v.refs EXCEPT ![c] = @ + 1] /\ u.targets = v.targets
        /\ u.friends = v.friends
        /\ u.forgotten = v.forgotten /\ u.inVector = [v.inVector EXCEPT ![c] = TRUE]
        /\ u.checked = [v.checked EXCEPT ![c] = TRUE] /\ u.idle = v.idle
    BY <2>1 DEF SameBut
  <2>4. Typed(u)
    BY <2>3, StateIs DEF Typed, SameBut
  <2>5. Quiet(v, u)
    BY <2>2, <2>3, <2>4, StateIs DEF Quiet
  <2>6. \A x \in Creatures : /\ u.checked[x] <=> x = c \/ v.checked[x]
                            /\ u.inVector[x] <=> x = c \/ v.inVector[x]
    BY <2>3, StateIs DEF Typed
  <2>7. \A x \in Creatures : u.refs[x] = IF x = c THEN v.refs[x] + 1 ELSE v.refs[x]
    <3>1. v.refs \in [Creatures -> Int] /\ u.refs = [v.refs EXCEPT ![c] = @ + 1]
      BY <2>3, StateIs DEF Typed
    <3> QED BY <3>1
  <2>8. \A x \in Creatures : u.refs[x] = IF x = c /\ ~v.inVector[c] THEN v.refs[x] + 1 ELSE v.refs[x]
    BY <1>2, <2>7
  <2> QED BY <2>3, <2>5, <2>6, <2>8
<1> QED BY <1>1, <1>2

\* A creature in the world that is added to the check list is awake.
LEMMA AddCreatureCheckSound ==
  ASSUME NEW v, Core(v), NEW c \in Creatures, Placed(v, c), NEW u, u = AddCreatureCheck(v, c)
  PROVE  /\ Mild(v, u, {}, {}) /\ Awake(u, c) /\ u.targets = v.targets /\ u.master = v.master
         /\ u.alive = v.alive /\ u.status = v.status /\ u.attacked = v.attacked
         /\ u.follow = v.follow
<1>0. Loose(v) /\ v \in State
  BY DEF Core, Loose
<1>1. Quiet(v, u)
  BY <1>0, AddCreatureCheckIs
<1>2. /\ u.targets = v.targets /\ u.friends = v.friends /\ u.forgotten = v.forgotten
      /\ \A x \in Creatures : /\ u.checked[x] <=> x = c \/ v.checked[x]
                              /\ u.inVector[x] <=> x = c \/ v.inVector[x]
  BY <1>0, AddCreatureCheckIs
<1>r. \A x \in Creatures : u.refs[x] = IF x = c /\ ~v.inVector[c] THEN v.refs[x] + 1 ELSE v.refs[x]
  BY <1>0, AddCreatureCheckIs
<1>3. ASSUME NEW x \in Creatures PROVE u.refs[x] = References(u, x)
  <2>1. v.refs[x] = References(v, x)
    BY <1>0 DEF Loose, Exact
  <2>2. References(u, x) = Count(Placed(v, x)) + v.toRelease[x] + Count(u.inVector[x])
    + Cardinality(Within(Slots, v.spawned, x)) + Count(v.master[x] # Nobody)
    + Cardinality(Within(Creatures, v.targets, x)) + Cardinality(Within(Creatures, v.friends, x))
    BY <1>1, <1>2, ReferencesAre DEF Quiet, SameBut, Placed
  <2>3. /\ Cardinality(Within(Slots, v.spawned, x)) \in Nat
        /\ Cardinality(Within(Creatures, v.targets, x)) \in Nat
        /\ Cardinality(Within(Creatures, v.friends, x)) \in Nat /\ v.toRelease[x] \in Nat
        /\ Count(Placed(v, x)) \in Nat /\ Count(v.master[x] # Nobody) \in Nat
    BY <1>0, WithinCounts, Hands DEF State, Count
  <2>4. CASE x = c /\ ~v.inVector[c]
    <3>1. Count(u.inVector[x]) = 1 /\ Count(v.inVector[x]) = 0
      BY <2>4, <1>2 DEF Count
    <3>2. u.refs[x] = v.refs[x] + 1
      BY <2>4, <1>r
    <3> QED BY <2>1, <2>2, <2>3, <3>1, <3>2, ReferencesAre
  <2>5. CASE ~ (x = c /\ ~v.inVector[c])
    <3>1. Count(u.inVector[x]) = Count(v.inVector[x])
      BY <2>5, <1>2 DEF Count
    <3>2. u.refs[x] = v.refs[x]
      BY <2>5, <1>r
    <3> QED BY <2>1, <2>2, <3>1, <3>2, ReferencesAre
  <2> QED BY <2>4, <2>5
<1>4. KeepsKnown(v, u, {}, {}) /\ KeepsMinded(v, u) /\ \A x \in Creatures : Awake(u, x) => Placed(u, x)
  BY <1>0, <1>1, <1>2, Hands DEF KeepsKnown, Knows, KeepsMinded, Minded, Awake, Quiet, SameBut,
     Placed, Loose
<1>5. ASSUME NEW x \in Creatures
      PROVE  u.refs[x] >= v.refs[x] /\ (v.status[x] = "free" => u.refs[x] <= v.refs[x])
  <2>1. v.refs[x] \in Int /\ (v.status[x] = "free" => x # c)
    BY <1>0 DEF State, Placed
  <2> QED BY <2>1, <1>r
<1>6. Loose(u) /\ Keeps(v, u, {}, {}) /\ Stays(v, u)
  BY <1>0, <1>1, <1>3, <1>4, <1>5, QuietKeeps DEF Exact
<1>7. Core(u)
  BY <1>1, <1>5, <1>6, CoreGrows DEF Quiet, SameBut
<1> QED BY <1>1, <1>2, <1>6, <1>7, QuietCalm DEF Mild, Sound, Quiet, SameBut, Awake

-----------------------------------------------------------------------------
(* Friends and targets *)

\* Monster::addFriend, field by field.
LEMMA AddFriendIs ==
  ASSUME NEW v \in State, NEW m \in Creatures, NEW c \in Creatures, NEW u, u = AddFriend(v, m, c),
         c \notin v.friends[m]
  PROVE  /\ Quiet(v, u) /\ u.checked = v.checked /\ u.inVector = v.inVector /\ u.idle = v.idle
         /\ u.targets = v.targets /\ u.forgotten = v.forgotten
         /\ u.friends[m] = v.friends[m] \cup {c} /\ \A d \in Creatures \ {m} : u.friends[d] = v.friends[d]
         /\ \A x \in Creatures : u.refs[x] = IF x = c THEN v.refs[x] + 1 ELSE v.refs[x]
<1>1. u = [v EXCEPT !.friends[m] = @ \cup {c}, !.refs[c] = @ + 1]
  BY DEF AddFriend, IncrementReferenceCounter, State
<1>2. Shaped(u)
  BY <1>1, StateIs DEF Shaped
<1>3. /\ SameBut(v, u) /\ u.refs = [v.refs EXCEPT ![c] = @ + 1]
      /\ u.friends = [v.friends EXCEPT ![m] = @ \cup {c}] /\ u.checked = v.checked
      /\ u.inVector = v.inVector /\ u.idle = v.idle /\ u.targets = v.targets
      /\ u.forgotten = v.forgotten
  BY <1>1 DEF SameBut
<1>4. Typed(u)
  BY <1>3, StateIs DEF Typed, SameBut
<1>5. Quiet(v, u)
  BY <1>2, <1>3, <1>4, StateIs DEF Quiet
<1>6. u.friends[m] = v.friends[m] \cup {c} /\ \A d \in Creatures \ {m} : u.friends[d] = v.friends[d]
  BY <1>3, StateIs DEF Typed
<1>7. \A x \in Creatures : u.refs[x] = IF x = c THEN v.refs[x] + 1 ELSE v.refs[x]
  <2>1. v.refs \in [Creatures -> Int] /\ u.refs = [v.refs EXCEPT ![c] = @ + 1]
    BY <1>3, StateIs DEF Typed
  <2> QED BY <2>1
<1> QED BY <1>3, <1>5, <1>6, <1>7

\* Monster::addTarget, field by field.
LEMMA AddTargetIs ==
  ASSUME NEW v \in State, NEW m \in Creatures, NEW c \in Creatures, NEW u, u = AddTarget(v, m, c),
         c \notin v.targets[m]
  PROVE  /\ Quiet(v, u) /\ u.checked = v.checked /\ u.inVector = v.inVector /\ u.idle = v.idle
         /\ u.friends = v.friends /\ u.forgotten = v.forgotten \ {<<m, c>>}
         /\ u.targets[m] = v.targets[m] \cup {c} /\ \A d \in Creatures \ {m} : u.targets[d] = v.targets[d]
         /\ \A x \in Creatures : u.refs[x] = IF x = c THEN v.refs[x] + 1 ELSE v.refs[x]
<1>1. u = [v EXCEPT !.targets[m] = @ \cup {c}, !.forgotten = @ \ {<<m, c>>}, !.refs[c] = @ + 1]
  BY DEF AddTarget, IncrementReferenceCounter, State
<1>2. Shaped(u)
  BY <1>1, StateIs DEF Shaped
<1>3. /\ SameBut(v, u) /\ u.refs = [v.refs EXCEPT ![c] = @ + 1]
      /\ u.targets = [v.targets EXCEPT ![m] = @ \cup {c}] /\ u.forgotten = v.forgotten \ {<<m, c>>}
      /\ u.checked = v.checked /\ u.inVector = v.inVector /\ u.idle = v.idle
      /\ u.friends = v.friends
  BY <1>1 DEF SameBut
<1>4. Typed(u)
  BY <1>3, StateIs DEF Typed, SameBut
<1>5. Quiet(v, u)
  BY <1>2, <1>3, <1>4, StateIs DEF Quiet
<1>6. u.targets[m] = v.targets[m] \cup {c} /\ \A d \in Creatures \ {m} : u.targets[d] = v.targets[d]
  BY <1>3, StateIs DEF Typed
<1>7. \A x \in Creatures : u.refs[x] = IF x = c THEN v.refs[x] + 1 ELSE v.refs[x]
  <2>1. v.refs \in [Creatures -> Int] /\ u.refs = [v.refs EXCEPT ![c] = @ + 1]
    BY <1>3, StateIs DEF Typed
  <2> QED BY <2>1
<1> QED BY <1>3, <1>5, <1>6, <1>7

\* A friend is counted.
LEMMA AddFriendSound ==
  ASSUME NEW v, Core(v), NEW m \in Creatures, NEW c \in Creatures, Used(v, c), NEW u,
         u = AddFriend(v, m, c)
  PROVE  Mild(v, u, {}, {}) /\ u.targets = v.targets /\ u.master = v.master /\ u.alive = v.alive
         /\ u.status = v.status
<1>0. v \in State /\ Loose(v)
  BY DEF Core, Loose
<1>1. CASE c \in v.friends[m]
  <2>1. u = v
    BY <1>1 DEF AddFriend
  <2> QED BY <1>1, <2>1, MildSelf
<1>2. CASE c \notin v.friends[m]
  <2>1. /\ Quiet(v, u) /\ u.checked = v.checked /\ u.inVector = v.inVector /\ u.targets = v.targets
        /\ \A d \in Creatures \ {m} : u.friends[d] = v.friends[d]
    BY <1>0, <1>2, AddFriendIs
  <2>2. u.friends[m] = v.friends[m] \cup {c}
    BY <1>0, <1>2, AddFriendIs
  <2>3. \A x \in Creatures : u.refs[x] = IF x = c THEN v.refs[x] + 1 ELSE v.refs[x]
    BY <1>0, <1>2, AddFriendIs
  <2>4. Recounted(v, u, m)
    <3> SUFFICES ASSUME NEW x \in Creatures
                 PROVE  u.refs[x] = v.refs[x] + Count(x \in u.targets[m]) - Count(x \in v.targets[m])
                                              + Count(x \in u.friends[m]) - Count(x \in v.friends[m])
      BY <2>1 DEF Recounted
    <3>1. v.refs[x] \in Int
      BY <1>0 DEF State
    <3>2. CASE x = c
      BY <3>1, <3>2, <1>2, <2>1, <2>2, <2>3 DEF Count
    <3>3. CASE x # c
      <4>1. u.refs[x] = v.refs[x] /\ (x \in u.friends[m] <=> x \in v.friends[m])
        BY <3>3, <2>2, <2>3
      <4> QED BY <3>1, <4>1, <2>1 DEF Count
    <3> QED BY <3>2, <3>3
  <2>5. u.forgotten = v.forgotten
    BY <1>0, <1>2, AddFriendIs
  <2>6. KeepsKnown(v, u, {}, {})
    BY <2>1, <2>5 DEF KeepsKnown, Knows, Awake, Quiet, SameBut
  <2>7. \A x \in Creatures : v.status[x] = "free" => x \notin u.targets[m] /\ x \notin u.friends[m]
    <3> SUFFICES ASSUME NEW x \in Creatures, v.status[x] = "free"
                 PROVE  x \notin u.targets[m] /\ x \notin u.friends[m]
      OBVIOUS
    <3>1. x \notin v.targets[m] /\ x \notin v.friends[m] /\ x # c
      BY <1>0, HeldIsUsed DEF Used
    <3> QED BY <3>1, <2>1, <2>2
  <2>8. Loose(u) /\ Keeps(v, u, {}, {}) /\ Stays(v, u)
    BY <1>0, <2>1, <2>4, <2>6, <2>7, ListsKeep
  <2>9. \A x \in Creatures : u.refs[x] >= v.refs[x]
    <3> SUFFICES ASSUME NEW x \in Creatures PROVE u.refs[x] >= v.refs[x]
      OBVIOUS
    <3>1. v.refs[x] \in Int
      BY <1>0 DEF State
    <3> QED BY <3>1, <2>3
  <2>10. Core(u)
    BY <2>1, <2>8, <2>9, CoreGrows DEF Quiet, SameBut
  <2> QED BY <2>1, <2>2, <2>8, <2>10, QuietCalm DEF Mild, Sound, Quiet, SameBut
<1> QED BY <1>1, <1>2

\* A target is counted and known.
LEMMA AddTargetSound ==
  ASSUME NEW v, Core(v), NEW m \in Creatures, NEW c \in Creatures, Used(v, c), NEW u,
         u = AddTarget(v, m, c)
  PROVE  Mild(v, u, {<<m, c>>}, {}) /\ c \in u.targets[m] /\ u.master = v.master /\ u.alive = v.alive
<1>0. v \in State /\ Loose(v)
  BY DEF Core, Loose
<1>1. CASE c \in v.targets[m]
  <2>1. u = v
    BY <1>1 DEF AddTarget
  <2>2. Mild(v, v, {}, {})
    BY MildSelf
  <2>3. Mild(v, v, {<<m, c>>}, {})
    BY <2>2, KeepsMore
  <2> QED BY <1>1, <2>1, <2>3
<1>2. CASE c \notin v.targets[m]
  <2>1. /\ Quiet(v, u) /\ u.checked = v.checked /\ u.inVector = v.inVector /\ u.friends = v.friends
        /\ \A d \in Creatures \ {m} : u.targets[d] = v.targets[d]
    BY <1>0, <1>2, AddTargetIs
  <2>2. u.targets[m] = v.targets[m] \cup {c}
    BY <1>0, <1>2, AddTargetIs
  <2>3. \A x \in Creatures : u.refs[x] = IF x = c THEN v.refs[x] + 1 ELSE v.refs[x]
    BY <1>0, <1>2, AddTargetIs
  <2>4. Recounted(v, u, m)
    <3> SUFFICES ASSUME NEW x \in Creatures
                 PROVE  u.refs[x] = v.refs[x] + Count(x \in u.targets[m]) - Count(x \in v.targets[m])
                                              + Count(x \in u.friends[m]) - Count(x \in v.friends[m])
      BY <2>1 DEF Recounted
    <3>1. v.refs[x] \in Int
      BY <1>0 DEF State
    <3>2. CASE x = c
      BY <3>1, <3>2, <1>2, <2>1, <2>2, <2>3 DEF Count
    <3>3. CASE x # c
      <4>1. u.refs[x] = v.refs[x] /\ (x \in u.targets[m] <=> x \in v.targets[m])
        BY <3>3, <2>2, <2>3
      <4> QED BY <3>1, <4>1, <2>1 DEF Count
    <3> QED BY <3>2, <3>3
  <2>5. u.forgotten = v.forgotten \ {<<m, c>>}
    BY <1>0, <1>2, AddTargetIs
  <2>6. KeepsKnown(v, u, {<<m, c>>}, {})
    <3> SUFFICES ASSUME NEW d \in Monsters, NEW p \in Players, <<d, p>> # <<m, c>>, Knows(v, d, p)
                 PROVE  Knows(u, d, p)
      BY DEF KeepsKnown
    <3>1. p \in v.targets[d] => p \in u.targets[d]
      BY <2>1, <2>2, Hands
    <3>2. Awake(u, d) <=> Awake(v, d)
      BY <2>1 DEF Awake
    <3>3. u.master = v.master
      BY <2>1 DEF Quiet, SameBut
    <3> QED BY <3>1, <3>2, <3>3, <2>5 DEF Knows
  <2>7. \A x \in Creatures : v.status[x] = "free" => x \notin u.targets[m] /\ x \notin u.friends[m]
    <3> SUFFICES ASSUME NEW x \in Creatures, v.status[x] = "free"
                 PROVE  x \notin u.targets[m] /\ x \notin u.friends[m]
      OBVIOUS
    <3>1. x \notin v.targets[m] /\ x \notin v.friends[m] /\ x # c
      BY <1>0, HeldIsUsed DEF Used
    <3> QED BY <3>1, <2>1, <2>2
  <2>8. Loose(u) /\ Keeps(v, u, {<<m, c>>}, {}) /\ Stays(v, u)
    BY <1>0, <2>1, <2>4, <2>6, <2>7, ListsKeep
  <2>9. \A x \in Creatures : u.refs[x] >= v.refs[x]
    <3> SUFFICES ASSUME NEW x \in Creatures PROVE u.refs[x] >= v.refs[x]
      OBVIOUS
    <3>1. v.refs[x] \in Int
      BY <1>0 DEF State
    <3> QED BY <3>1, <2>3
  <2>10. Core(u)
    BY <2>1, <2>8, <2>9, CoreGrows DEF Quiet, SameBut
  <2> QED BY <2>1, <2>2, <2>8, <2>10, QuietCalm DEF Mild, Sound, Quiet, SameBut
<1> QED BY <1>1, <1>2

\* m has fewer friends and targets in t than in v, and the counters say so.
Dropped(v, t, m) ==
  /\ Quiet(v, t) /\ t.checked = v.checked /\ t.inVector = v.inVector /\ t.forgotten = v.forgotten
  /\ \A d \in Creatures \ {m} : t.targets[d] = v.targets[d] /\ t.friends[d] = v.friends[d]
  /\ t.targets[m] \subseteq v.targets[m] /\ t.friends[m] \subseteq v.friends[m]
  /\ \A c \in Creatures : t.refs[c] = v.refs[c] - Count(c \in v.targets[m] \ t.targets[m])
                                                  - Count(c \in v.friends[m] \ t.friends[m])

\* A list that got shorter, and what this deletes.
LEMMA DroppedSound ==
  ASSUME NEW v, Core(v), NEW m \in Creatures, NEW t, Dropped(v, t, m), NEW X,
         \A p \in Players : p \in v.targets[m] \ t.targets[m] => <<m, p>> \in X,
         NEW u, u = Swept(t)
  PROVE  Mild(v, u, X, {}) /\ u.targets[m] \subseteq t.targets[m]
<1>0. v \in State /\ Loose(v) /\ Quiet(v, t)
  BY DEF Core, Loose, Dropped
<1>1. Recounted(v, t, m)
  <2> SUFFICES ASSUME NEW c \in Creatures
               PROVE  t.refs[c] = v.refs[c] + Count(c \in t.targets[m]) - Count(c \in v.targets[m])
                                            + Count(c \in t.friends[m]) - Count(c \in v.friends[m])
    BY DEF Recounted, Dropped
  <2>1. v.refs[c] \in Int
    BY <1>0 DEF State
  <2>2. /\ Count(c \in v.targets[m] \ t.targets[m]) = Count(c \in v.targets[m]) - Count(c \in t.targets[m])
        /\ Count(c \in v.friends[m] \ t.friends[m]) = Count(c \in v.friends[m]) - Count(c \in t.friends[m])
    BY DEF Count, Dropped
  <2>3. /\ Count(c \in v.targets[m]) \in Int /\ Count(c \in t.targets[m]) \in Int
        /\ Count(c \in v.friends[m]) \in Int /\ Count(c \in t.friends[m]) \in Int
    BY DEF Count
  <2>4. t.refs[c] = v.refs[c] - Count(c \in v.targets[m] \ t.targets[m]) - Count(c \in v.friends[m] \ t.friends[m])
    BY DEF Dropped
  <2> QED BY <2>1, <2>2, <2>3, <2>4
<1>2. KeepsKnown(v, t, X, {})
  <2> SUFFICES ASSUME NEW d \in Monsters, NEW p \in Players, <<d, p>> \notin X, Knows(v, d, p)
               PROVE  Knows(t, d, p)
    BY DEF KeepsKnown
  <2>1. p \in v.targets[d] => p \in t.targets[d]
    BY Hands DEF Dropped
  <2>2. (Awake(t, d) <=> Awake(v, d)) /\ t.master = v.master /\ t.forgotten = v.forgotten
    BY <1>0 DEF Awake, Dropped, Quiet, SameBut
  <2> QED BY <2>1, <2>2 DEF Knows
<1>3. \A c \in Creatures : v.status[c] = "free" => c \notin t.targets[m] /\ c \notin t.friends[m]
  <2> SUFFICES ASSUME NEW c \in Creatures, v.status[c] = "free"
               PROVE  c \notin t.targets[m] /\ c \notin t.friends[m]
    OBVIOUS
  <2>1. c \notin v.targets[m] /\ c \notin v.friends[m]
    BY <1>0, HeldIsUsed DEF Used
  <2> QED BY <2>1 DEF Dropped
<1>4. Loose(t) /\ Keeps(v, t, X, {}) /\ Stays(v, t)
  BY <1>0, <1>1, <1>2, <1>3, ListsKeep DEF Dropped
<1>5. Sound(v, u, X, {}) /\ Calm(t, u)
  BY <1>0, <1>4, SweptKeeps
<1>6. Calm(v, u)
  BY <1>0, <1>5, QuietCalm DEF Calm
<1>7. u.targets[m] \in {t.targets[m], {}}
  BY <1>4, SweptIs
<1> QED BY <1>5, <1>6, <1>7 DEF Mild

\* removeFriend, before anything is deleted.
LessFriend(v, m, c) == [v EXCEPT !.friends[m] = @ \ {c}, !.refs[c] = @ - 1]

\* Monster::removeFriend shortens the friend list.
LEMMA RemoveFriendDrops ==
  ASSUME NEW v \in State, NEW m \in Creatures, NEW c \in Creatures, c \in v.friends[m], NEW u,
         u = LessFriend(v, m, c)
  PROVE  Dropped(v, u, m) /\ u.targets = v.targets /\ u.friends[m] = v.friends[m] \ {c}
<1>1. u = [v EXCEPT !.friends[m] = @ \ {c}, !.refs[c] = @ - 1]
  BY DEF LessFriend
<1>2. Shaped(u)
  BY <1>1, StateIs DEF Shaped
<1>3. /\ SameBut(v, u) /\ u.refs = [v.refs EXCEPT ![c] = @ - 1]
      /\ u.friends = [v.friends EXCEPT ![m] = @ \ {c}] /\ u.checked = v.checked
      /\ u.inVector = v.inVector
      /\ u.idle = v.idle /\ u.targets = v.targets /\ u.forgotten = v.forgotten
  BY <1>1 DEF SameBut
<1>4. Typed(u)
  BY <1>3, StateIs DEF Typed, SameBut
<1>5. Quiet(v, u)
  BY <1>2, <1>3, <1>4, StateIs DEF Quiet
<1>6. u.friends[m] = v.friends[m] \ {c} /\ \A d \in Creatures \ {m} : u.friends[d] = v.friends[d]
  BY <1>3, StateIs DEF Typed
<1>7. \A x \in Creatures : u.refs[x] = IF x = c THEN v.refs[x] - 1 ELSE v.refs[x]
  <2>1. v.refs \in [Creatures -> Int] /\ u.refs = [v.refs EXCEPT ![c] = @ - 1]
    BY <1>3, StateIs DEF Typed
  <2> QED BY <2>1
<1>8. ASSUME NEW x \in Creatures
      PROVE  u.refs[x] = v.refs[x] - Count(x \in v.targets[m] \ u.targets[m]) - Count(x \in v.friends[m] \ u.friends[m])
  <2>0. v.refs[x] \in Int /\ u.targets = v.targets
    BY <1>3, StateIs DEF Typed
  <2>1. (x \in v.friends[m] \ u.friends[m] <=> x = c) /\ x \notin v.targets[m] \ u.targets[m]
    BY <1>3, <1>6
  <2> QED BY <2>0, <2>1, <1>7 DEF Count
<1> QED BY <1>3, <1>5, <1>6, <1>8 DEF Dropped

\* Monster::removeFriend, with what it deletes.
LEMMA RemoveFriendSound ==
  ASSUME NEW v, Core(v), NEW m \in Creatures, NEW c \in Creatures, NEW u, u = RemoveFriend(v, m, c)
  PROVE  Mild(v, u, {}, {})
<1>0. v \in State /\ Sound(v, v, {}, {})
  BY SoundSelf DEF Core, Loose
<1>1. CASE c \notin v.friends[m]
  <2>1. u = v
    BY <1>1 DEF RemoveFriend
  <2>2. Sound(v, v, {}, {})
    BY <1>0, KeepsMore
  <2> QED BY <2>1, <2>2, CalmSelf DEF Mild
<1>2. CASE c \in v.friends[m]
  <2> DEFINE t == LessFriend(v, m, c)
  <2>1. u = Swept(t)
    BY <1>0, <1>2 DEF RemoveFriend, DecrementReferenceCounter, State, LessFriend
  <2>2. Dropped(v, t, m) /\ t.targets = v.targets /\ t.friends[m] = v.friends[m] \ {c}
    BY <1>0, <1>2, RemoveFriendDrops
  <2> HIDE DEF t
  <2>3. \A p \in Players : p \in v.targets[m] \ t.targets[m] => <<m, p>> \in {}
    BY <2>2
  <2> QED BY <2>1, <2>2, <2>3, DroppedSound
<1> QED BY <1>1, <1>2

\* removeTarget, before anything is deleted.
LessTarget(v, m, c) == [v EXCEPT !.targets[m] = @ \ {c}, !.refs[c] = @ - 1]

\* Monster::removeTarget shortens the target list.
LEMMA RemoveTargetDrops ==
  ASSUME NEW v \in State, NEW m \in Creatures, NEW c \in Creatures, c \in v.targets[m], NEW u,
         u = LessTarget(v, m, c)
  PROVE  Dropped(v, u, m) /\ u.friends = v.friends /\ u.targets[m] = v.targets[m] \ {c}
<1>1. u = [v EXCEPT !.targets[m] = @ \ {c}, !.refs[c] = @ - 1]
  BY DEF LessTarget
<1>2. Shaped(u)
  BY <1>1, StateIs DEF Shaped
<1>3. /\ SameBut(v, u) /\ u.refs = [v.refs EXCEPT ![c] = @ - 1]
      /\ u.targets = [v.targets EXCEPT ![m] = @ \ {c}] /\ u.checked = v.checked
      /\ u.inVector = v.inVector
      /\ u.idle = v.idle /\ u.friends = v.friends /\ u.forgotten = v.forgotten
  BY <1>1 DEF SameBut
<1>4. Typed(u)
  BY <1>3, StateIs DEF Typed, SameBut
<1>5. Quiet(v, u)
  BY <1>2, <1>3, <1>4, StateIs DEF Quiet
<1>6. u.targets[m] = v.targets[m] \ {c} /\ \A d \in Creatures \ {m} : u.targets[d] = v.targets[d]
  BY <1>3, StateIs DEF Typed
<1>7. \A x \in Creatures : u.refs[x] = IF x = c THEN v.refs[x] - 1 ELSE v.refs[x]
  <2>1. v.refs \in [Creatures -> Int] /\ u.refs = [v.refs EXCEPT ![c] = @ - 1]
    BY <1>3, StateIs DEF Typed
  <2> QED BY <2>1
<1>8. ASSUME NEW x \in Creatures
      PROVE  u.refs[x] = v.refs[x] - Count(x \in v.targets[m] \ u.targets[m]) - Count(x \in v.friends[m] \ u.friends[m])
  <2>0. v.refs[x] \in Int /\ u.friends = v.friends
    BY <1>3, StateIs DEF Typed
  <2>1. (x \in v.targets[m] \ u.targets[m] <=> x = c) /\ x \notin v.friends[m] \ u.friends[m]
    BY <1>3, <1>6
  <2> QED BY <2>0, <2>1, <1>7 DEF Count
<1> QED BY <1>3, <1>5, <1>6, <1>8 DEF Dropped

\* Monster::removeTarget forgets that target only.
LEMMA RemoveTargetSound ==
  ASSUME NEW v, Core(v), NEW m \in Creatures, NEW c \in Creatures, NEW u, u = RemoveTarget(v, m, c)
  PROVE  Mild(v, u, {<<m, c>>}, {})
<1>0. v \in State /\ Sound(v, v, {}, {})
  BY SoundSelf DEF Core, Loose
<1>1. CASE c \notin v.targets[m]
  <2>1. u = v
    BY <1>1 DEF RemoveTarget
  <2>2. Sound(v, v, {<<m, c>>}, {})
    BY <1>0, KeepsMore
  <2> QED BY <2>1, <2>2, CalmSelf DEF Mild
<1>2. CASE c \in v.targets[m]
  <2> DEFINE t == LessTarget(v, m, c)
  <2>1. u = Swept(t)
    BY <1>0, <1>2 DEF RemoveTarget, DecrementReferenceCounter, State, LessTarget
  <2>2. Dropped(v, t, m) /\ t.friends = v.friends /\ t.targets[m] = v.targets[m] \ {c}
    BY <1>0, <1>2, RemoveTargetDrops
  <2> HIDE DEF t
  <2>3. \A p \in Players : p \in v.targets[m] \ t.targets[m] => <<m, p>> \in {<<m, c>>}
    BY <2>2
  <2> QED BY <2>1, <2>2, <2>3, DroppedSound
<1> QED BY <1>1, <1>2

Emptied(v, m) ==
  [v EXCEPT !.targets[m] = {}, !.friends[m] = {},
            !.refs = [c \in Creatures |-> @[c] - Count(c \in v.targets[m]) - Count(c \in v.friends[m])]]

\* clearTargetList and clearFriendList empty both lists.
LEMMA ClearListsDrops ==
  ASSUME NEW v \in State, NEW m \in Creatures, NEW u, u = Emptied(v, m)
  PROVE  Dropped(v, u, m) /\ u.targets[m] = {}
<1> DEFINE r == [c \in Creatures |-> v.refs[c] - Count(c \in v.targets[m]) - Count(c \in v.friends[m])]
<1>0. r \in [Creatures -> Int]
  <2> SUFFICES ASSUME NEW c \in Creatures
               PROVE  v.refs[c] - Count(c \in v.targets[m]) - Count(c \in v.friends[m]) \in Int
    OBVIOUS
  <2> QED BY DEF State, Count
<1>d. \A c \in Creatures : r[c] = v.refs[c] - Count(c \in v.targets[m]) - Count(c \in v.friends[m])
  OBVIOUS
<1>e. u = [v EXCEPT !.targets[m] = {}, !.friends[m] = {}, !.refs = r]
  BY DEF Emptied
<1> HIDE DEF r
<1>1. u = [v EXCEPT !.targets[m] = {}, !.friends[m] = {}, !.refs = r]
  BY <1>e
<1>2. Shaped(u)
  BY <1>1, StateIs DEF Shaped
<1>3. /\ SameBut(v, u) /\ u.refs = r /\ u.targets = [v.targets EXCEPT ![m] = {}]
      /\ u.friends = [v.friends EXCEPT ![m] = {}] /\ u.checked = v.checked
      /\ u.inVector = v.inVector
      /\ u.idle = v.idle /\ u.forgotten = v.forgotten
  BY <1>1 DEF SameBut
<1>4. Typed(u)
  BY <1>0, <1>3, StateIs DEF Typed, SameBut
<1>5. Quiet(v, u)
  BY <1>2, <1>3, <1>4, StateIs DEF Quiet
<1>6. /\ u.targets[m] = {} /\ \A d \in Creatures \ {m} : u.targets[d] = v.targets[d]
      /\ u.friends[m] = {} /\ \A d \in Creatures \ {m} : u.friends[d] = v.friends[d]
  BY <1>3, StateIs DEF Typed
<1>8. ASSUME NEW x \in Creatures
      PROVE  u.refs[x] = v.refs[x] - Count(x \in v.targets[m] \ u.targets[m]) - Count(x \in v.friends[m] \ u.friends[m])
  <2>1. v.targets[m] \ u.targets[m] = v.targets[m] /\ v.friends[m] \ u.friends[m] = v.friends[m]
    BY <1>6
  <2> QED BY <2>1, <1>3, <1>d
<1> QED BY <1>3, <1>5, <1>6, <1>8 DEF Dropped

\* A list is cleaned.
LEMMA ClearListsSound ==
  ASSUME NEW v, Core(v), NEW m \in Creatures, NEW X,
         \A p \in Players : p \in v.targets[m] => <<m, p>> \in X,
         NEW u, u = ClearLists(v, m)
  PROVE  Mild(v, u, X, {}) /\ u.targets[m] = {}
<1>1. v \in State /\ u = Swept(Emptied(v, m))
  BY DEF Core, Loose, ClearLists, Emptied
<1>2. Dropped(v, Emptied(v, m), m) /\ Emptied(v, m).targets[m] = {}
  BY <1>1, ClearListsDrops
<1>3. Mild(v, u, X, {}) /\ u.targets[m] \subseteq Emptied(v, m).targets[m]
  BY <1>1, <1>2, DroppedSound
<1> QED BY <1>2, <1>3

\* updateTargetList drops friends, before anything is deleted.
FewerFriends(v, m, lost) ==
  [v EXCEPT !.friends[m] = @ \ lost, !.refs = [c \in Creatures |-> @[c] - Count(c \in lost)]]

\* The friends that got lost leave the list.
LEMMA FewerFriendsDrops ==
  ASSUME NEW v \in State, NEW m \in Creatures, NEW lost \in SUBSET v.friends[m], NEW u,
         u = FewerFriends(v, m, lost)
  PROVE  Dropped(v, u, m) /\ u.targets = v.targets
<1> DEFINE r == [c \in Creatures |-> v.refs[c] - Count(c \in lost)]
<1>0. r \in [Creatures -> Int]
  <2> SUFFICES ASSUME NEW c \in Creatures PROVE v.refs[c] - Count(c \in lost) \in Int
    OBVIOUS
  <2> QED BY DEF State, Count
<1>d. \A c \in Creatures : r[c] = v.refs[c] - Count(c \in lost)
  OBVIOUS
<1>e. u = [v EXCEPT !.friends[m] = @ \ lost, !.refs = r]
  BY DEF FewerFriends
<1> HIDE DEF r
<1>1. u = [v EXCEPT !.friends[m] = @ \ lost, !.refs = r]
  BY <1>e
<1>2. Shaped(u)
  BY <1>1, StateIs DEF Shaped
<1>3. /\ SameBut(v, u) /\ u.refs = r /\ u.friends = [v.friends EXCEPT ![m] = @ \ lost]
      /\ u.checked = v.checked /\ u.inVector = v.inVector /\ u.idle = v.idle
      /\ u.targets = v.targets
      /\ u.forgotten = v.forgotten
  BY <1>1 DEF SameBut
<1>4. Typed(u)
  BY <1>0, <1>3, StateIs DEF Typed, SameBut
<1>5. Quiet(v, u)
  BY <1>2, <1>3, <1>4, StateIs DEF Quiet
<1>6. u.friends[m] = v.friends[m] \ lost /\ \A d \in Creatures \ {m} : u.friends[d] = v.friends[d]
  BY <1>3, StateIs DEF Typed
<1>8. ASSUME NEW x \in Creatures
      PROVE  u.refs[x] = v.refs[x] - Count(x \in v.targets[m] \ u.targets[m]) - Count(x \in v.friends[m] \ u.friends[m])
  <2>1. (x \in v.friends[m] \ u.friends[m] <=> x \in lost) /\ x \notin v.targets[m] \ u.targets[m]
    BY <1>3, <1>6
  <2>2. v.refs[x] \in Int
    BY DEF State
  <2> QED BY <2>1, <2>2, <1>3, <1>d DEF Count
<1> QED BY <1>3, <1>5, <1>6, <1>8 DEF Dropped

\* The first loop of Monster::updateTargetList.
LEMMA WithoutLostFriendsSound ==
  ASSUME NEW v, Core(v), NEW m \in Creatures, NEW u, u = WithoutLostFriends(v, m)
  PROVE  Mild(v, u, {}, {})
<1> DEFINE lost == {c \in v.friends[m] : Lost(v, m, c)}
<1>1. v \in State /\ u = Swept(FewerFriends(v, m, lost)) /\ lost \in SUBSET v.friends[m]
  BY DEF Core, Loose, WithoutLostFriends, FewerFriends
<1> HIDE DEF lost
<1>2. Dropped(v, FewerFriends(v, m, lost), m) /\ FewerFriends(v, m, lost).targets = v.targets
  BY <1>1, FewerFriendsDrops
<1>3. \A p \in Players : p \in v.targets[m] \ FewerFriends(v, m, lost).targets[m] => <<m, p>> \in {}
  BY <1>2, Hands
<1> QED BY <1>1, <1>2, <1>3, DroppedSound

\* updateTargetList drops targets, before anything is deleted.
FewerTargets(v, m, lost) ==
  [v EXCEPT !.targets[m] = @ \ lost, !.refs = [c \in Creatures |-> @[c] - Count(c \in lost)]]

\* The targets that got lost leave the list.
LEMMA FewerTargetsDrops ==
  ASSUME NEW v \in State, NEW m \in Creatures, NEW lost \in SUBSET v.targets[m], NEW u,
         u = FewerTargets(v, m, lost)
  PROVE  Dropped(v, u, m) /\ u.friends = v.friends
<1> DEFINE r == [c \in Creatures |-> v.refs[c] - Count(c \in lost)]
<1>0. r \in [Creatures -> Int]
  <2> SUFFICES ASSUME NEW c \in Creatures PROVE v.refs[c] - Count(c \in lost) \in Int
    OBVIOUS
  <2> QED BY DEF State, Count
<1>d. \A c \in Creatures : r[c] = v.refs[c] - Count(c \in lost)
  OBVIOUS
<1>e. u = [v EXCEPT !.targets[m] = @ \ lost, !.refs = r]
  BY DEF FewerTargets
<1> HIDE DEF r
<1>1. u = [v EXCEPT !.targets[m] = @ \ lost, !.refs = r]
  BY <1>e
<1>2. Shaped(u)
  BY <1>1, StateIs DEF Shaped
<1>3. /\ SameBut(v, u) /\ u.refs = r /\ u.targets = [v.targets EXCEPT ![m] = @ \ lost]
      /\ u.checked = v.checked /\ u.inVector = v.inVector /\ u.idle = v.idle
      /\ u.friends = v.friends
      /\ u.forgotten = v.forgotten
  BY <1>1 DEF SameBut
<1>4. Typed(u)
  BY <1>0, <1>3, StateIs DEF Typed, SameBut
<1>5. Quiet(v, u)
  BY <1>2, <1>3, <1>4, StateIs DEF Quiet
<1>6. u.targets[m] = v.targets[m] \ lost /\ \A d \in Creatures \ {m} : u.targets[d] = v.targets[d]
  BY <1>3, StateIs DEF Typed
<1>8. ASSUME NEW x \in Creatures
      PROVE  u.refs[x] = v.refs[x] - Count(x \in v.targets[m] \ u.targets[m]) - Count(x \in v.friends[m] \ u.friends[m])
  <2>1. (x \in v.targets[m] \ u.targets[m] <=> x \in lost) /\ x \notin v.friends[m] \ u.friends[m]
    BY <1>3, <1>6
  <2>2. v.refs[x] \in Int
    BY DEF State
  <2> QED BY <2>1, <2>2, <1>3, <1>d DEF Count
<1> QED BY <1>3, <1>5, <1>6, <1>8 DEF Dropped

\* The second loop of Monster::updateTargetList forgets nobody else's targets.
LEMMA WithoutLostTargetsSound ==
  ASSUME NEW v, Core(v), NEW m \in Creatures, NEW u, u = WithoutLostTargets(v, m)
  PROVE  Mild(v, u, {m} \X Creatures, {})
<1> DEFINE lost == {c \in v.targets[m] : Lost(v, m, c)}
<1>1. v \in State /\ u = Swept(FewerTargets(v, m, lost)) /\ lost \in SUBSET v.targets[m]
  BY DEF Core, Loose, WithoutLostTargets, FewerTargets
<1> HIDE DEF lost
<1>2. Dropped(v, FewerTargets(v, m, lost), m) /\ FewerTargets(v, m, lost).friends = v.friends
  BY <1>1, FewerTargetsDrops
<1>3. \A p \in Players : p \in v.targets[m] \ FewerTargets(v, m, lost).targets[m] => <<m, p>> \in {m} \X Creatures
  BY <1>2, Hands
<1> QED BY <1>1, <1>2, <1>3, DroppedSound

-----------------------------------------------------------------------------
(* Falling asleep and waking up *)

\* A monster that need not know anybody may leave the check list.
LEMMA RemoveCreatureCheckSound ==
  ASSUME NEW v, Core(v), NEW m \in Monsters, v.alive[m],
         NEW X,
         \A p \in Players : (v.master[m] = Nobody /\ p \notin v.targets[m]) \/ <<m, p>> \in X,
         NEW u, u = RemoveCreatureCheck(v, m)
  PROVE  Mild(v, u, X, {})
<1>0. v \in State /\ Loose(v) /\ m \in Creatures
  BY Hands DEF Core, Loose
<1>1. u = [v EXCEPT !.checked[m] = @ /\ ~v.inVector[m]]
  BY DEF RemoveCreatureCheck
<1>2. Shaped(u)
  BY <1>0, <1>1, StateIs DEF Shaped
<1>3. /\ SameBut(v, u) /\ u.checked = [v.checked EXCEPT ![m] = @ /\ ~v.inVector[m]]
      /\ u.refs = v.refs /\ u.inVector = v.inVector /\ u.idle = v.idle /\ u.targets = v.targets
      /\ u.friends = v.friends /\ u.forgotten = v.forgotten
  BY <1>1 DEF SameBut
<1>4. v.checked \in [Creatures -> BOOLEAN] /\ v.inVector \in [Creatures -> BOOLEAN]
  BY <1>0, StateIs DEF Typed
<1>5. u.checked \in [Creatures -> BOOLEAN]
  BY <1>0, <1>3, <1>4
<1>6. Typed(u)
  BY <1>0, <1>3, <1>5, StateIs DEF Typed, SameBut
<1>7. Quiet(v, u)
  BY <1>2, <1>3, <1>6, StateIs DEF Quiet
<1>8. \A x \in Creatures : Awake(u, x) <=> x # m /\ Awake(v, x)
  <2>1. \A x \in Creatures \ {m} : u.checked[x] = v.checked[x]
    BY <1>3, <1>4
  <2>2. u.checked[m] = (v.checked[m] /\ ~v.inVector[m])
    BY <1>0, <1>3, <1>4
  <2> QED BY <2>1, <2>2, <1>3 DEF Awake
<1>9. Exact(u)
  BY <1>0, <1>3 DEF Loose, Exact, References, SameBut, Placed
<1>10. KeepsKnown(v, u, X, {})
  <2> SUFFICES ASSUME NEW d \in Monsters, NEW p \in Players, <<d, p>> \notin X, Knows(v, d, p)
               PROVE  Knows(u, d, p)
    BY DEF KeepsKnown
  <2>1. d # m => (Awake(u, d) <=> Awake(v, d))
    BY <1>8, Hands
  <2>2. u.master = v.master
    BY <1>3 DEF SameBut
  <2> QED BY <2>1, <2>2, <1>3 DEF Knows
<1>11. KeepsMinded(v, u)
  BY <1>0, <1>3, <1>8, Hands DEF KeepsMinded, Minded, SameBut
<1>12. \A x \in Creatures : Awake(u, x) => Placed(u, x)
  BY <1>0, <1>3, <1>8 DEF Loose, SameBut, Placed
<1>13. \A x \in Creatures : u.refs[x] <= v.refs[x] /\ u.refs[x] >= v.refs[x]
  BY <1>0, <1>3 DEF State
<1>14. Loose(u) /\ Keeps(v, u, X, {}) /\ Stays(v, u)
  BY <1>0, <1>7, <1>9, <1>10, <1>11, <1>12, <1>13, QuietKeeps
<1>15. Core(u)
  BY <1>3, <1>13, <1>14, CoreGrows DEF SameBut
<1> QED BY <1>7, <1>14, <1>15, QuietCalm DEF Mild, Sound

\* A monster falls asleep.
LEMMA AsleepSound ==
  ASSUME NEW v, Core(v), NEW m \in Monsters, Placed(v, m),
         NEW X,
         \A p \in Players : (v.master[m] = Nobody /\ p \notin v.targets[m]) \/ <<m, p>> \in X,
         NEW u, u = SetIdle(v, m, TRUE)
  PROVE  Mild(v, u, X, {})
<1>1. CASE v.status[m] = "removed" \/ ~v.alive[m]
  <2>1. u = v
    BY <1>1 DEF SetIdle
  <2>2. Mild(v, v, {}, {})
    BY MildSelf
  <2>3. Mild(v, v, X, {})
    BY <2>2, KeepsMore
  <2> QED BY <2>1, <2>3
<1>2. CASE ~ (v.status[m] = "removed" \/ ~v.alive[m])
  <2> DEFINE a == [v EXCEPT !.idle[m] = TRUE]
             b == ClearLists(a, m)
  <2>0. m \in Creatures
    BY Hands
  <2>1. u = RemoveCreatureCheck(b, m)
    BY <1>2 DEF SetIdle
  <2>2. /\ Mild(v, a, {}, {}) /\ a.targets = v.targets /\ a.master = v.master /\ a.alive = v.alive
        /\ a.status = v.status
    BY <2>0, IdleSound
  <2> HIDE DEF a
  <2>3. Core(a)
    BY <2>2 DEF Mild, Sound
  <2>4. Mild(a, b, X, {}) /\ b.targets[m] = {}
    <3>1. \A p \in Players : p \in a.targets[m] => <<m, p>> \in X
      BY <2>2
    <3> QED BY <2>0, <2>3, <3>1, ClearListsSound
  <2> HIDE DEF b
  <2>5. b.alive[m] /\ b.master[m] = v.master[m] /\ Core(b)
    <3>1. b.alive[m] /\ Core(b)
      BY <1>2, <2>0, <2>2, <2>4 DEF Mild, Calm, Sound
    <3>2. Placed(a, m) /\ Placed(b, m)
      BY <2>0, <2>2, <2>4 DEF Mild, Sound, Stays
    <3> QED BY <2>0, <2>2, <2>4, <3>1, <3>2 DEF Mild, Sound, Keeps, KeepsMasters
  <2>6. Mild(b, u, X, {})
    <3>1. \A p \in Players : (b.master[m] = Nobody /\ p \notin b.targets[m]) \/ <<m, p>> \in X
      BY <2>4, <2>5
    <3> QED BY <2>1, <2>5, <3>1, RemoveCreatureCheckSound
  <2>7. Mild(v, b, X, {})
    BY <2>2, <2>4, MildThen
  <2> QED BY <2>6, <2>7, MildThen
<1> QED BY <1>1, <1>2

\* A monster wakes up.
LEMMA WakeSound ==
  ASSUME NEW v, Core(v), NEW m \in Monsters, Placed(v, m), NEW u, u = SetIdle(v, m, FALSE)
  PROVE  /\ Mild(v, u, {}, {}) /\ (v.alive[m] => Awake(u, m)) /\ u.targets = v.targets
            /\ u.master = v.master
         /\ u.alive = v.alive /\ u.status = v.status
<1>1. CASE v.status[m] = "removed" \/ ~v.alive[m]
  <2>1. u = v /\ ~v.alive[m]
    BY <1>1 DEF SetIdle, Placed
  <2> QED BY <2>1, MildSelf
<1>2. CASE ~ (v.status[m] = "removed" \/ ~v.alive[m])
  <2> DEFINE a == [v EXCEPT !.idle[m] = FALSE]
  <2>0. m \in Creatures
    BY Hands
  <2>1. u = AddCreatureCheck(a, m)
    BY <1>2 DEF SetIdle
  <2>2. /\ Mild(v, a, {}, {}) /\ a.targets = v.targets /\ a.master = v.master /\ a.alive = v.alive
        /\ a.status = v.status
    BY <2>0, IdleSound
  <2> HIDE DEF a
  <2>3. Core(a) /\ Placed(a, m)
    BY <2>2 DEF Mild, Sound, Placed
  <2>4. /\ Mild(a, u, {}, {}) /\ Awake(u, m) /\ u.targets = a.targets /\ u.master = a.master
        /\ u.alive = a.alive /\ u.status = a.status
    BY <2>0, <2>1, <2>3, AddCreatureCheckSound
  <2>5. Mild(v, u, {}, {})
    BY <2>2, <2>4, MildThen
  <2> QED BY <2>2, <2>4, <2>5
<1> QED BY <1>1, <1>2

\* A monster with a master or a target is awake afterwards; what it knew it knows.
LEMMA UpdateIdleStatusSound ==
  ASSUME NEW v, Core(v), NEW m \in Monsters, Placed(v, m), NEW u, u = UpdateIdleStatus(v, m)
  PROVE  /\ Mild(v, u, {}, {})
         /\ v.master[m] # Nobody \/ v.targets[m] # {} =>
              /\ u.targets = v.targets /\ u.master = v.master /\ u.alive = v.alive
              /\ v.alive[m] => Awake(u, m)
<1>1. CASE v.master[m] # Nobody \/ v.targets[m] # {}
  <2>1. u = SetIdle(v, m, FALSE)
    <3>1. ~ (~IsSummon(v, m) /\ v.targets[m] = {})
      BY <1>1 DEF IsSummon
    <3>2. (~IsSummon(v, m) /\ v.targets[m] = {}) = FALSE
      BY <3>1
    <3> QED BY <3>2 DEF UpdateIdleStatus
  <2> QED BY <1>1, <2>1, WakeSound
<1>2. CASE ~ (v.master[m] # Nobody \/ v.targets[m] # {})
  <2>1. u = SetIdle(v, m, TRUE)
    <3>2. (~IsSummon(v, m) /\ v.targets[m] = {}) = TRUE
      BY <1>2 DEF IsSummon
    <3> QED BY <3>2 DEF UpdateIdleStatus
  <2>2. \A p \in Players : (v.master[m] = Nobody /\ p \notin v.targets[m]) \/ <<m, p>> \in {}
    BY <1>2
  <2>3. Mild(v, u, {}, {})
    BY <2>1, <2>2, AsleepSound
  <2> QED BY <1>2, <2>3
<1> QED BY <1>1, <1>2

\* A monster that finds a player knows it then.
LEMMA OnCreatureFoundSound ==
  ASSUME NEW v, Core(v), NEW m \in Monsters, NEW c \in Creatures, Placed(v, m), Used(v, c),
         NEW u, u = OnCreatureFound(v, m, c)
  PROVE  Mild(v, u, {}, {}) /\ (c \in Players /\ u.alive[m] => Knows(u, m, c))
<1> DEFINE a == FoundFriend(v, m, c)
           b == FoundOpponent(a, m, c)
<1>0. m \in Creatures /\ Nobody \notin Players
  BY Hands
<1>1. Mild(v, a, {}, {}) /\ a.master = v.master /\ a.status = v.status
  <2>1. CASE IsFriend(v, m, c)
    BY <1>0, <2>1, AddFriendSound DEF FoundFriend
  <2>2. CASE ~IsFriend(v, m, c)
    BY <2>2, MildSelf DEF FoundFriend
  <2> QED BY <2>1, <2>2
<1>u. u = UpdateIdleStatus(b, m)
  BY DEF OnCreatureFound
<1> HIDE DEF a
<1>2. Core(a) /\ Placed(a, m) /\ Used(a, c)
  BY <1>1 DEF Mild, Sound, Placed, Used
<1>3. Mild(a, b, {<<m, c>>}, {}) /\ b.master = a.master /\ (c \in Players => b.master[m] # Nobody \/ c \in b.targets[m])
  <2>1. CASE IsOpponent(a, m, c)
    BY <1>0, <1>2, <2>1, AddTargetSound DEF FoundOpponent
  <2>2. CASE ~IsOpponent(a, m, c)
    <3>1. b = a
      BY <2>2 DEF FoundOpponent
    <3>2. Mild(a, a, {}, {})
      BY <1>2, MildSelf
    <3>3. Mild(a, a, {<<m, c>>}, {})
      BY <3>2, KeepsMore
    <3>4. c \in Players => a.master[m] # Nobody
      BY <1>0, <2>2 DEF IsOpponent
    <3> QED BY <3>1, <3>3, <3>4
  <2> QED BY <2>1, <2>2
<1> HIDE DEF b
<1>4. Core(b) /\ Placed(b, m)
  BY <1>0, <1>2, <1>3 DEF Mild, Sound, Stays
<1>5. /\ Mild(b, u, {}, {})
      /\ b.master[m] # Nobody \/ b.targets[m] # {} =>
              /\ u.targets = b.targets /\ u.master = b.master /\ u.alive = b.alive
              /\ b.alive[m] => Awake(u, m)
  BY <1>u, <1>4, UpdateIdleStatusSound
<1>6. ASSUME c \in Players, u.alive[m] PROVE Knows(u, m, c)
  BY <1>3, <1>5, <1>6 DEF Knows
<1>7. Mild(v, u, {<<m, c>>}, {})
  <2>1. Mild(v, b, {<<m, c>>}, {})
    BY <1>1, <1>3, MildThen
  <2> QED BY <2>1, <1>5, MildThen
<1>8. Mild(v, u, {}, {})
  <2>1. \A d \in Monsters, p \in Players :
          <<d, p>> \in {<<m, c>>} \ {} /\ Placed(u, d) /\ u.alive[d] /\ Placed(u, p) => Knows(u, d, p)
    BY <1>6
  <2> QED BY <1>7, <2>1, MildLess
<1> QED BY <1>6, <1>8

\* Monster::onCreatureLeave forgets the one that leaves.
LEMMA OnCreatureLeaveSound ==
  ASSUME NEW v, Core(v), NEW m \in Monsters, NEW c \in Creatures, Placed(v, m), NEW u,
         u = OnCreatureLeave(v, m, c)
  PROVE  Mild(v, u, {<<m, c>>}, {})
<1> DEFINE a == LeftFriend(v, m, c)
           b == RemoveTarget(a, m, c)
<1>0. m \in Creatures
  BY Hands
<1>1. Mild(v, a, {}, {})
  <2>1. CASE IsFriend(v, m, c)
    BY <1>0, <2>1, RemoveFriendSound DEF LeftFriend
  <2>2. CASE ~IsFriend(v, m, c)
    BY <2>2, MildSelf DEF LeftFriend
  <2> QED BY <2>1, <2>2
<1>u. u = LeftOpponent(a, m, c)
  BY DEF OnCreatureLeave
<1> HIDE DEF a
<1>2. Core(a) /\ Placed(a, m)
  BY <1>0, <1>1 DEF Mild, Sound, Stays
<1>3. CASE IsOpponent(a, m, c)
  <2>1. u = IdleWithoutTargets(b, m)
    BY <1>3, <1>u DEF LeftOpponent
  <2>2. Mild(a, b, {<<m, c>>}, {})
    BY <1>0, <1>2, RemoveTargetSound
  <2> HIDE DEF b
  <2>3. Core(b) /\ Placed(b, m)
    BY <1>0, <1>2, <2>2 DEF Mild, Sound, Stays
  <2>4. Mild(b, u, {}, {})
    BY <2>1, <2>3, UpdateIdleStatusSound, MildSelf DEF IdleWithoutTargets
  <2>5. Mild(v, b, {<<m, c>>}, {})
    BY <1>1, <2>2, MildThen
  <2> QED BY <2>4, <2>5, MildThen
<1>4. CASE ~IsOpponent(a, m, c)
  <2>1. u = a
    BY <1>4, <1>u DEF LeftOpponent
  <2>2. Mild(v, a, {<<m, c>>}, {})
    BY <1>1, KeepsMore
  <2> QED BY <2>1, <2>2
<1> QED BY <1>3, <1>4

\* m knows the players in the world that it sees.
Sees(v, m) ==
  \A p \in Players : Placed(v, m) /\ v.alive[m] /\ Placed(v, p) /\ InView(v.at[m], v.at[p]) => Knows(v, m, p)

\* Seeing is mutual.
LEMMA InViewSame == \A a, b \in Places : InView(a, b) <=> InView(b, a)
BY CreaturesAssumption DEF InView

-----------------------------------------------------------------------------
(* Folds *)

(***************************************************************************)
(* Folds.  The induction theorems of the library are about an arbitrary    *)
(* predicate; here a smallest counterexample takes their place.            *)
(***************************************************************************)

\* A property of subsets of a finite set that fails somewhere fails at a smallest subset.
LEMMA SmallestSubset ==
  ASSUME NEW S, IsFiniteSet(S), NEW B, ~ (SUBSET S \subseteq B)
  PROVE  \E T \in SUBSET S : T \notin B /\ \A U \in SUBSET T : U = T \/ U \in B
<1> DEFINE R == {T \in SUBSET S : T \notin B}
<1>1. IsWellFoundedOn(StrictSubsetOrdering(S), FiniteSubsetsOf(S))
  BY FS_StrictSubsetOrderingWellFounded
<1>2. FiniteSubsetsOf(S) = SUBSET S
  BY FS_FiniteSubsetsOfFinite
<1>3. R # {} /\ R \subseteq FiniteSubsetsOf(S)
  BY <1>2
<1>4. \E x \in R : \A y \in R : ~ (<<y, x>> \in StrictSubsetOrdering(S))
  BY <1>1, <1>3, WFMin
<1> QED BY <1>4 DEF StrictSubsetOrdering

\* The next value of a fold: it takes an element out of s, which had its turn last.
After(F, v, s, g) ==
  IF s = {} THEN v ELSE LET x == CHOOSE x \in s : TRUE IN F[<<g[s \ {x}], x>>]

\* g is the fold of F over every subset of S.
Follows(g, S, F, v) == g = [s \in SUBSET S |-> After(F, v, s, g)]

\* There is a function on the subsets of S that follows F one element after the other.
LEMMA TurnsExist ==
  ASSUME NEW S, IsFiniteSet(S), NEW F, NEW v
  PROVE  \E g : Follows(g, S, F, v)
<1> DEFINE It(U, g) == g = [s \in SUBSET U |-> After(F, v, s, g)]
           G == {T \in SUBSET S : \E g : It(T, g)}
<1>1. \A s, g, h : (\A t \in SUBSET s : t = s \/ g[t] = h[t]) => After(F, v, s, g) = After(F, v, s, h)
  <2> TAKE s, g, h
  <2> HAVE \A t \in SUBSET s : t = s \/ g[t] = h[t]
  <2>1. CASE s = {}
    BY <2>1 DEF After
  <2>2. CASE s # {}
    <3> DEFINE x == CHOOSE x \in s : TRUE
    <3>1. x \in s
      BY <2>2
    <3>2. g[s \ {x}] = h[s \ {x}]
      BY <3>1
    <3> QED BY <2>2, <3>2 DEF After
  <2> QED BY <2>1, <2>2
<1>2. ASSUME NEW T \in SUBSET S, NEW g, NEW h, It(T, g), It(T, h) PROVE g = h
  <2> DEFINE B == {t \in SUBSET T : g[t] = h[t]}
  <2>1. IsFiniteSet(T)
    BY FS_Subset
  <2>2. SUFFICES ASSUME ~ (SUBSET T \subseteq B) PROVE FALSE
    BY <1>2
  <2>3. PICK t \in SUBSET T : t \notin B /\ \A r \in SUBSET t : r = t \/ r \in B
    <3> HIDE DEF B
    <3> QED BY <2>1, <2>2, SmallestSubset
  <2>4. After(F, v, t, g) = After(F, v, t, h)
    BY <2>3, <1>1
  <2> QED BY <2>3, <2>4, <1>2
<1>3. ASSUME NEW T \in SUBSET S, NEW g, It(T, g), NEW r \in SUBSET T
      PROVE  It(r, [s \in SUBSET r |-> g[s]])
  <2> DEFINE h == [s \in SUBSET r |-> g[s]]
  <2>1. ASSUME NEW s \in SUBSET r PROVE h[s] = After(F, v, s, h)
    <3>1. g[s] = After(F, v, s, g)
      BY <1>3
    <3>2. After(F, v, s, g) = After(F, v, s, h)
      BY <1>1
    <3> QED BY <3>1, <3>2
  <2> QED BY <2>1
<1>4. \A T \in SUBSET S : T \in G
  <2>1. SUFFICES ASSUME ~ (SUBSET S \subseteq G) PROVE FALSE
    OBVIOUS
  <2>2. PICK T \in SUBSET S : T \notin G /\ \A r \in SUBSET T : r = T \/ r \in G
    <3> HIDE DEF G
    <3> QED BY <2>1, SmallestSubset
  <2> DEFINE sub(r) == CHOOSE g : It(r, g)
             k == [r \in SUBSET T |-> IF r = T THEN {} ELSE sub(r)[r]]
             h == [r \in SUBSET T |-> After(F, v, r, k)]
  <2>3. ASSUME NEW r \in SUBSET T, r # T PROVE It(r, sub(r))
    BY <2>2, <2>3
  <2>4. ASSUME NEW r \in SUBSET T, r # T PROVE k[r] = After(F, v, r, k)
    <3>1. sub(r)[r] = After(F, v, r, sub(r))
      BY <2>3, <2>4
    <3>2. ASSUME NEW q \in SUBSET r, q # r PROVE sub(r)[q] = k[q]
      <4>0. It(r, sub(r)) /\ q \in SUBSET T /\ q # T
        BY <2>3, <2>4, <3>2
      <4>1. It(q, [s \in SUBSET q |-> sub(r)[s]])
        <5> HIDE DEF sub, It
        <5> QED BY <4>0, <1>3
      <4>2. It(q, sub(q))
        BY <2>3, <4>0
      <4>3. sub(q) = [s \in SUBSET q |-> sub(r)[s]]
        <5> HIDE DEF sub, It
        <5> QED BY <4>1, <4>2, <1>2
      <4>4. k[q] = sub(q)[q]
        BY <4>0
      <4>5. sub(q)[q] = sub(r)[q]
        <5> HIDE DEF sub, It
        <5> QED BY <4>3
      <4> QED BY <4>4, <4>5
    <3>3. After(F, v, r, sub(r)) = After(F, v, r, k)
      BY <1>1, <3>2
    <3> QED BY <3>1, <3>3, <2>4
  <2>5. ASSUME NEW r \in SUBSET T PROVE h[r] = After(F, v, r, h)
    <3>1. \A q \in SUBSET r : q = r \/ k[q] = h[q]
      BY <2>4
    <3>2. After(F, v, r, k) = After(F, v, r, h)
      BY <3>1, <1>1
    <3> QED BY <3>2
  <2>6. It(T, h)
    BY <2>5
  <2> QED BY <2>6, <2>2
<1> QED BY <1>4 DEF Follows

(***************************************************************************)
(* If every turn keeps an invariant J, which may depend on who had a turn  *)
(* already, then J holds in the end: g is the fold, and F one turn.        *)
(***************************************************************************)
Turns(S, F, v, J) ==
  /\ v \in J[{}]
  /\ \A D \in SUBSET S : \A c \in S \ D : \A u \in J[D] : F[<<u, c>>] \in J[D \cup {c}]

\* That is so at every subset of S, by its smallest counterexample.
LEMMA TurnsKeep ==
  ASSUME NEW S, IsFiniteSet(S), NEW F, NEW v, NEW J, Turns(S, F, v, J),
         NEW g, Follows(g, S, F, v)
  PROVE  \A T \in SUBSET S : g[T] \in J[T]
<1> DEFINE B == {t \in SUBSET S : g[t] \in J[t]}
<1>1. SUFFICES ASSUME ~ (SUBSET S \subseteq B) PROVE FALSE
  OBVIOUS
<1>2. PICK T \in SUBSET S : T \notin B /\ \A r \in SUBSET T : r = T \/ r \in B
  <2> HIDE DEF B
  <2> QED BY <1>1, SmallestSubset
<1>3. g[T] = After(F, v, T, g)
  BY DEF Follows
<1>4. CASE T = {}
  BY <1>2, <1>3, <1>4 DEF After, Turns
<1>5. CASE T # {}
  <2> DEFINE x == CHOOSE x \in T : TRUE
  <2>1. x \in T
    BY <1>5
  <2>2. g[T] = F[<<g[T \ {x}], x>>]
    BY <1>3, <1>5 DEF After
  <2> HIDE DEF x
  <2>3. g[T \ {x}] \in J[T \ {x}]
    BY <1>2, <2>1
  <2>4. F[<<g[T \ {x}], x>>] \in J[(T \ {x}) \cup {x}]
    BY <2>1, <2>3 DEF Turns
  <2>5. (T \ {x}) \cup {x} = T
    BY <2>1
  <2> QED BY <2>2, <2>4, <2>5, <1>2
<1> QED BY <1>4, <1>5

\* m finds the creatures of S.
AllFound(v, m, S) == InTurn(LAMBDA x, c : OnCreatureFound(x, m, c), v, S)

\* A monster finds the creatures of S: what every onCreatureFound keeps, all of them keep.
LEMMA FoundTurns ==
  ASSUME NEW v, NEW m, NEW S, IsFiniteSet(S), NEW J, v \in J[{}],
         \A D \in SUBSET S : \A i \in S \ D : \A u \in J[D] : OnCreatureFound(u, m, i) \in J[D \cup {i}]
  PROVE  AllFound(v, m, S) \in J[S]
<1> DEFINE U == UNION {J[D] : D \in SUBSET S}
           F == [z \in U \X S |-> OnCreatureFound(z[1], m, z[2])]
           P(s, h) == IF s = {} THEN v
                      ELSE LET i == CHOOSE i \in s : TRUE IN OnCreatureFound(h[s \ {i}], m, i)
           h == CHOOSE h : h = [s \in SUBSET S |-> P(s, h)]
<1>1. PICK g : Follows(g, S, F, v)
  <2> HIDE DEF F
  <2> QED BY TurnsExist
<1>2. Turns(S, F, v, J)
  <2> SUFFICES ASSUME NEW D \in SUBSET S, NEW i \in S \ D, NEW u \in J[D]
               PROVE  F[<<u, i>>] \in J[D \cup {i}]
    BY DEF Turns
  <2>1. <<u, i>> \in U \X S
    OBVIOUS
  <2>2. F[<<u, i>>] = OnCreatureFound(u, m, i)
    BY <2>1
  <2> QED BY <2>2
<1>3. \A T \in SUBSET S : g[T] \in J[T]
  <2> HIDE DEF F, P, U, h
  <2> QED BY <1>1, <1>2, TurnsKeep
<1>4. ASSUME NEW s \in SUBSET S PROVE After(F, v, s, g) = P(s, g)
  <2> DEFINE i == CHOOSE i \in s : TRUE
  <2>1. CASE s = {}
    BY <2>1 DEF After
  <2>2. CASE s # {}
    <3>1. i \in s
      BY <2>2
    <3>2. After(F, v, s, g) = F[<<g[s \ {i}], i>>]
      BY <2>2 DEF After
    <3>3. P(s, g) = OnCreatureFound(g[s \ {i}], m, i)
      BY <2>2
    <3> HIDE DEF i, P
    <3>4. <<g[s \ {i}], i>> \in U \X S
      BY <1>3, <3>1
    <3> HIDE DEF U
    <3>5. F[<<g[s \ {i}], i>>] = OnCreatureFound(g[s \ {i}], m, i)
      BY <3>4
    <3> QED BY <3>2, <3>3, <3>5
  <2> QED BY <2>1, <2>2
<1>5. g = [s \in SUBSET S |-> P(s, g)]
  <2> HIDE DEF P
  <2> QED BY <1>1, <1>4 DEF Follows
<1>6. h = [s \in SUBSET S |-> P(s, h)]
  <2> HIDE DEF P
  <2> QED BY <1>5
<1>7. h = g
  <2> DEFINE B == {t \in SUBSET S : g[t] = h[t]}
  <2> HIDE DEF h
  <2>1. SUFFICES ASSUME ~ (SUBSET S \subseteq B) PROVE FALSE
    <3> HIDE DEF P
    <3> QED BY <1>5, <1>6
  <2>2. PICK T \in SUBSET S : T \notin B /\ \A r \in SUBSET T : r = T \/ r \in B
    <3> HIDE DEF B
    <3> QED BY <2>1, SmallestSubset
  <2>3. P(T, g) = P(T, h)
    BY <2>2
  <2> HIDE DEF P
  <2> QED BY <2>2, <2>3, <1>5, <1>6
<1>8. AllFound(v, m, S) = h[S]
  BY DEF AllFound, InTurn, FoldSet, MapThenFoldSet, h
<1> QED BY <1>3, <1>7, <1>8

\* Those of S see c appear.
AllAppear(v, c, S) == InTurn(LAMBDA x, s : OnCreatureAppear(x, s, c), v, S)

\* The same of the spectators that see c appear.
LEMMA AppearTurns ==
  ASSUME NEW v, NEW c, NEW S, IsFiniteSet(S), NEW J, v \in J[{}],
         \A D \in SUBSET S : \A i \in S \ D : \A u \in J[D] : OnCreatureAppear(u, i, c) \in J[D \cup {i}]
  PROVE  AllAppear(v, c, S) \in J[S]
<1> DEFINE U == UNION {J[D] : D \in SUBSET S}
           F == [z \in U \X S |-> OnCreatureAppear(z[1], z[2], c)]
           P(s, h) == IF s = {} THEN v
                      ELSE LET i == CHOOSE i \in s : TRUE IN OnCreatureAppear(h[s \ {i}], i, c)
           h == CHOOSE h : h = [s \in SUBSET S |-> P(s, h)]
<1>1. PICK g : Follows(g, S, F, v)
  <2> HIDE DEF F
  <2> QED BY TurnsExist
<1>2. Turns(S, F, v, J)
  <2> SUFFICES ASSUME NEW D \in SUBSET S, NEW i \in S \ D, NEW u \in J[D]
               PROVE  F[<<u, i>>] \in J[D \cup {i}]
    BY DEF Turns
  <2>1. <<u, i>> \in U \X S
    OBVIOUS
  <2>2. F[<<u, i>>] = OnCreatureAppear(u, i, c)
    BY <2>1
  <2> QED BY <2>2
<1>3. \A T \in SUBSET S : g[T] \in J[T]
  <2> HIDE DEF F, P, U, h
  <2> QED BY <1>1, <1>2, TurnsKeep
<1>4. ASSUME NEW s \in SUBSET S PROVE After(F, v, s, g) = P(s, g)
  <2> DEFINE i == CHOOSE i \in s : TRUE
  <2>1. CASE s = {}
    BY <2>1 DEF After
  <2>2. CASE s # {}
    <3>1. i \in s
      BY <2>2
    <3>2. After(F, v, s, g) = F[<<g[s \ {i}], i>>]
      BY <2>2 DEF After
    <3>3. P(s, g) = OnCreatureAppear(g[s \ {i}], i, c)
      BY <2>2
    <3> HIDE DEF i, P
    <3>4. <<g[s \ {i}], i>> \in U \X S
      BY <1>3, <3>1
    <3> HIDE DEF U
    <3>5. F[<<g[s \ {i}], i>>] = OnCreatureAppear(g[s \ {i}], i, c)
      BY <3>4
    <3> QED BY <3>2, <3>3, <3>5
  <2> QED BY <2>1, <2>2
<1>5. g = [s \in SUBSET S |-> P(s, g)]
  <2> HIDE DEF P
  <2> QED BY <1>1, <1>4 DEF Follows
<1>6. h = [s \in SUBSET S |-> P(s, h)]
  <2> HIDE DEF P
  <2> QED BY <1>5
<1>7. h = g
  <2> DEFINE B == {t \in SUBSET S : g[t] = h[t]}
  <2> HIDE DEF h
  <2>1. SUFFICES ASSUME ~ (SUBSET S \subseteq B) PROVE FALSE
    <3> HIDE DEF P
    <3> QED BY <1>5, <1>6
  <2>2. PICK T \in SUBSET S : T \notin B /\ \A r \in SUBSET T : r = T \/ r \in B
    <3> HIDE DEF B
    <3> QED BY <2>1, SmallestSubset
  <2>3. P(T, g) = P(T, h)
    BY <2>2
  <2> HIDE DEF P
  <2> QED BY <2>2, <2>3, <1>5, <1>6
<1>8. AllAppear(v, c, S) = h[S]
  BY DEF AllAppear, InTurn, FoldSet, MapThenFoldSet, h
<1> QED BY <1>3, <1>7, <1>8

\* Those of S see c leave.
AllRemoval(v, c, S) == InTurn(LAMBDA u, s : OnRemoveCreature(u, s, c), v, S)

\* The same of the spectators that see c leave.
LEMMA RemovalTurns ==
  ASSUME NEW v, NEW c, NEW S, IsFiniteSet(S), NEW J, v \in J[{}],
         \A D \in SUBSET S : \A i \in S \ D : \A u \in J[D] : OnRemoveCreature(u, i, c) \in J[D \cup {i}]
  PROVE  AllRemoval(v, c, S) \in J[S]
<1> DEFINE U == UNION {J[D] : D \in SUBSET S}
           F == [z \in U \X S |-> OnRemoveCreature(z[1], z[2], c)]
           P(s, h) == IF s = {} THEN v
                      ELSE LET i == CHOOSE i \in s : TRUE IN OnRemoveCreature(h[s \ {i}], i, c)
           h == CHOOSE h : h = [s \in SUBSET S |-> P(s, h)]
<1>1. PICK g : Follows(g, S, F, v)
  <2> HIDE DEF F
  <2> QED BY TurnsExist
<1>2. Turns(S, F, v, J)
  <2> SUFFICES ASSUME NEW D \in SUBSET S, NEW i \in S \ D, NEW u \in J[D]
               PROVE  F[<<u, i>>] \in J[D \cup {i}]
    BY DEF Turns
  <2>1. <<u, i>> \in U \X S
    OBVIOUS
  <2>2. F[<<u, i>>] = OnRemoveCreature(u, i, c)
    BY <2>1
  <2> QED BY <2>2
<1>3. \A T \in SUBSET S : g[T] \in J[T]
  <2> HIDE DEF F, P, U, h
  <2> QED BY <1>1, <1>2, TurnsKeep
<1>4. ASSUME NEW s \in SUBSET S PROVE After(F, v, s, g) = P(s, g)
  <2> DEFINE i == CHOOSE i \in s : TRUE
  <2>1. CASE s = {}
    BY <2>1 DEF After
  <2>2. CASE s # {}
    <3>1. i \in s
      BY <2>2
    <3>2. After(F, v, s, g) = F[<<g[s \ {i}], i>>]
      BY <2>2 DEF After
    <3>3. P(s, g) = OnRemoveCreature(g[s \ {i}], i, c)
      BY <2>2
    <3> HIDE DEF i, P
    <3>4. <<g[s \ {i}], i>> \in U \X S
      BY <1>3, <3>1
    <3> HIDE DEF U
    <3>5. F[<<g[s \ {i}], i>>] = OnRemoveCreature(g[s \ {i}], i, c)
      BY <3>4
    <3> QED BY <3>2, <3>3, <3>5
  <2> QED BY <2>1, <2>2
<1>5. g = [s \in SUBSET S |-> P(s, g)]
  <2> HIDE DEF P
  <2> QED BY <1>1, <1>4 DEF Follows
<1>6. h = [s \in SUBSET S |-> P(s, h)]
  <2> HIDE DEF P
  <2> QED BY <1>5
<1>7. h = g
  <2> DEFINE B == {t \in SUBSET S : g[t] = h[t]}
  <2> HIDE DEF h
  <2>1. SUFFICES ASSUME ~ (SUBSET S \subseteq B) PROVE FALSE
    <3> HIDE DEF P
    <3> QED BY <1>5, <1>6
  <2>2. PICK T \in SUBSET S : T \notin B /\ \A r \in SUBSET T : r = T \/ r \in B
    <3> HIDE DEF B
    <3> QED BY <2>1, SmallestSubset
  <2>3. P(T, g) = P(T, h)
    BY <2>2
  <2> HIDE DEF P
  <2> QED BY <2>2, <2>3, <1>5, <1>6
<1>8. AllRemoval(v, c, S) = h[S]
  BY DEF AllRemoval, InTurn, FoldSet, MapThenFoldSet, h
<1> QED BY <1>3, <1>7, <1>8

\* Those of S are removed.
AllAlone(v, before, S) == InTurn(LAMBDA x, s : RemoveAlone(x, s, before), v, S)

\* The same of the summons that are removed.
LEMMA AloneTurns ==
  ASSUME NEW v, NEW before, NEW S, IsFiniteSet(S), NEW J, v \in J[{}],
         \A D \in SUBSET S : \A i \in S \ D : \A u \in J[D] : RemoveAlone(u, i, before) \in J[D \cup {i}]
  PROVE  AllAlone(v, before, S) \in J[S]
<1> DEFINE U == UNION {J[D] : D \in SUBSET S}
           F == [z \in U \X S |-> RemoveAlone(z[1], z[2], before)]
           P(s, h) == IF s = {} THEN v
                      ELSE LET i == CHOOSE i \in s : TRUE IN RemoveAlone(h[s \ {i}], i, before)
           h == CHOOSE h : h = [s \in SUBSET S |-> P(s, h)]
<1>1. PICK g : Follows(g, S, F, v)
  <2> HIDE DEF F
  <2> QED BY TurnsExist
<1>2. Turns(S, F, v, J)
  <2> SUFFICES ASSUME NEW D \in SUBSET S, NEW i \in S \ D, NEW u \in J[D]
               PROVE  F[<<u, i>>] \in J[D \cup {i}]
    BY DEF Turns
  <2>1. <<u, i>> \in U \X S
    OBVIOUS
  <2>2. F[<<u, i>>] = RemoveAlone(u, i, before)
    BY <2>1
  <2> QED BY <2>2
<1>3. \A T \in SUBSET S : g[T] \in J[T]
  <2> HIDE DEF F, P, U, h
  <2> QED BY <1>1, <1>2, TurnsKeep
<1>4. ASSUME NEW s \in SUBSET S PROVE After(F, v, s, g) = P(s, g)
  <2> DEFINE i == CHOOSE i \in s : TRUE
  <2>1. CASE s = {}
    BY <2>1 DEF After
  <2>2. CASE s # {}
    <3>1. i \in s
      BY <2>2
    <3>2. After(F, v, s, g) = F[<<g[s \ {i}], i>>]
      BY <2>2 DEF After
    <3>3. P(s, g) = RemoveAlone(g[s \ {i}], i, before)
      BY <2>2
    <3> HIDE DEF i, P
    <3>4. <<g[s \ {i}], i>> \in U \X S
      BY <1>3, <3>1
    <3> HIDE DEF U
    <3>5. F[<<g[s \ {i}], i>>] = RemoveAlone(g[s \ {i}], i, before)
      BY <3>4
    <3> QED BY <3>2, <3>3, <3>5
  <2> QED BY <2>1, <2>2
<1>5. g = [s \in SUBSET S |-> P(s, g)]
  <2> HIDE DEF P
  <2> QED BY <1>1, <1>4 DEF Follows
<1>6. h = [s \in SUBSET S |-> P(s, h)]
  <2> HIDE DEF P
  <2> QED BY <1>5
<1>7. h = g
  <2> DEFINE B == {t \in SUBSET S : g[t] = h[t]}
  <2> HIDE DEF h
  <2>1. SUFFICES ASSUME ~ (SUBSET S \subseteq B) PROVE FALSE
    <3> HIDE DEF P
    <3> QED BY <1>5, <1>6
  <2>2. PICK T \in SUBSET S : T \notin B /\ \A r \in SUBSET T : r = T \/ r \in B
    <3> HIDE DEF B
    <3> QED BY <2>1, SmallestSubset
  <2>3. P(T, g) = P(T, h)
    BY <2>2
  <2> HIDE DEF P
  <2> QED BY <2>2, <2>3, <1>5, <1>6
<1>8. AllAlone(v, before, S) = h[S]
  BY DEF AllAlone, InTurn, FoldSet, MapThenFoldSet, h
<1> QED BY <1>3, <1>7, <1>8

\* Those of S are removed with their summons.
AllSummons(v, before, S) == InTurn(LAMBDA x, s : RemoveSummon(x, s, before), v, S)

\* The same of the summons that are removed with theirs.
LEMMA SummonTurns ==
  ASSUME NEW v, NEW before, NEW S, IsFiniteSet(S), NEW J, v \in J[{}],
         \A D \in SUBSET S : \A i \in S \ D : \A u \in J[D] : RemoveSummon(u, i, before) \in J[D \cup {i}]
  PROVE  AllSummons(v, before, S) \in J[S]
<1> DEFINE U == UNION {J[D] : D \in SUBSET S}
           F == [z \in U \X S |-> RemoveSummon(z[1], z[2], before)]
           P(s, h) == IF s = {} THEN v
                      ELSE LET i == CHOOSE i \in s : TRUE IN RemoveSummon(h[s \ {i}], i, before)
           h == CHOOSE h : h = [s \in SUBSET S |-> P(s, h)]
<1>1. PICK g : Follows(g, S, F, v)
  <2> HIDE DEF F
  <2> QED BY TurnsExist
<1>2. Turns(S, F, v, J)
  <2> SUFFICES ASSUME NEW D \in SUBSET S, NEW i \in S \ D, NEW u \in J[D]
               PROVE  F[<<u, i>>] \in J[D \cup {i}]
    BY DEF Turns
  <2>1. <<u, i>> \in U \X S
    OBVIOUS
  <2>2. F[<<u, i>>] = RemoveSummon(u, i, before)
    BY <2>1
  <2> QED BY <2>2
<1>3. \A T \in SUBSET S : g[T] \in J[T]
  <2> HIDE DEF F, P, U, h
  <2> QED BY <1>1, <1>2, TurnsKeep
<1>4. ASSUME NEW s \in SUBSET S PROVE After(F, v, s, g) = P(s, g)
  <2> DEFINE i == CHOOSE i \in s : TRUE
  <2>1. CASE s = {}
    BY <2>1 DEF After
  <2>2. CASE s # {}
    <3>1. i \in s
      BY <2>2
    <3>2. After(F, v, s, g) = F[<<g[s \ {i}], i>>]
      BY <2>2 DEF After
    <3>3. P(s, g) = RemoveSummon(g[s \ {i}], i, before)
      BY <2>2
    <3> HIDE DEF i, P
    <3>4. <<g[s \ {i}], i>> \in U \X S
      BY <1>3, <3>1
    <3> HIDE DEF U
    <3>5. F[<<g[s \ {i}], i>>] = RemoveSummon(g[s \ {i}], i, before)
      BY <3>4
    <3> QED BY <3>2, <3>3, <3>5
  <2> QED BY <2>1, <2>2
<1>5. g = [s \in SUBSET S |-> P(s, g)]
  <2> HIDE DEF P
  <2> QED BY <1>1, <1>4 DEF Follows
<1>6. h = [s \in SUBSET S |-> P(s, h)]
  <2> HIDE DEF P
  <2> QED BY <1>5
<1>7. h = g
  <2> DEFINE B == {t \in SUBSET S : g[t] = h[t]}
  <2> HIDE DEF h
  <2>1. SUFFICES ASSUME ~ (SUBSET S \subseteq B) PROVE FALSE
    <3> HIDE DEF P
    <3> QED BY <1>5, <1>6
  <2>2. PICK T \in SUBSET S : T \notin B /\ \A r \in SUBSET T : r = T \/ r \in B
    <3> HIDE DEF B
    <3> QED BY <2>1, SmallestSubset
  <2>3. P(T, g) = P(T, h)
    BY <2>2
  <2> HIDE DEF P
  <2> QED BY <2>2, <2>3, <1>5, <1>6
<1>8. AllSummons(v, before, S) = h[S]
  BY DEF AllSummons, InTurn, FoldSet, MapThenFoldSet, h
<1> QED BY <1>3, <1>7, <1>8

\* Those of S are too far from their master.
AllFar(v, before, S) == InTurn(LAMBDA u, x : RemoveCreature(u, x, before), v, S)

\* The same of the summons that are too far away.
LEMMA FarTurns ==
  ASSUME NEW v, NEW before, NEW S, IsFiniteSet(S), NEW J, v \in J[{}],
         \A D \in SUBSET S : \A i \in S \ D : \A u \in J[D] : RemoveCreature(u, i, before) \in J[D \cup {i}]
  PROVE  AllFar(v, before, S) \in J[S]
<1> DEFINE U == UNION {J[D] : D \in SUBSET S}
           F == [z \in U \X S |-> RemoveCreature(z[1], z[2], before)]
           P(s, h) == IF s = {} THEN v
                      ELSE LET i == CHOOSE i \in s : TRUE IN RemoveCreature(h[s \ {i}], i, before)
           h == CHOOSE h : h = [s \in SUBSET S |-> P(s, h)]
<1>1. PICK g : Follows(g, S, F, v)
  <2> HIDE DEF F
  <2> QED BY TurnsExist
<1>2. Turns(S, F, v, J)
  <2> SUFFICES ASSUME NEW D \in SUBSET S, NEW i \in S \ D, NEW u \in J[D]
               PROVE  F[<<u, i>>] \in J[D \cup {i}]
    BY DEF Turns
  <2>1. <<u, i>> \in U \X S
    OBVIOUS
  <2>2. F[<<u, i>>] = RemoveCreature(u, i, before)
    BY <2>1
  <2> QED BY <2>2
<1>3. \A T \in SUBSET S : g[T] \in J[T]
  <2> HIDE DEF F, P, U, h
  <2> QED BY <1>1, <1>2, TurnsKeep
<1>4. ASSUME NEW s \in SUBSET S PROVE After(F, v, s, g) = P(s, g)
  <2> DEFINE i == CHOOSE i \in s : TRUE
  <2>1. CASE s = {}
    BY <2>1 DEF After
  <2>2. CASE s # {}
    <3>1. i \in s
      BY <2>2
    <3>2. After(F, v, s, g) = F[<<g[s \ {i}], i>>]
      BY <2>2 DEF After
    <3>3. P(s, g) = RemoveCreature(g[s \ {i}], i, before)
      BY <2>2
    <3> HIDE DEF i, P
    <3>4. <<g[s \ {i}], i>> \in U \X S
      BY <1>3, <3>1
    <3> HIDE DEF U
    <3>5. F[<<g[s \ {i}], i>>] = RemoveCreature(g[s \ {i}], i, before)
      BY <3>4
    <3> QED BY <3>2, <3>3, <3>5
  <2> QED BY <2>1, <2>2
<1>5. g = [s \in SUBSET S |-> P(s, g)]
  <2> HIDE DEF P
  <2> QED BY <1>1, <1>4 DEF Follows
<1>6. h = [s \in SUBSET S |-> P(s, h)]
  <2> HIDE DEF P
  <2> QED BY <1>5
<1>7. h = g
  <2> DEFINE B == {t \in SUBSET S : g[t] = h[t]}
  <2> HIDE DEF h
  <2>1. SUFFICES ASSUME ~ (SUBSET S \subseteq B) PROVE FALSE
    <3> HIDE DEF P
    <3> QED BY <1>5, <1>6
  <2>2. PICK T \in SUBSET S : T \notin B /\ \A r \in SUBSET T : r = T \/ r \in B
    <3> HIDE DEF B
    <3> QED BY <2>1, SmallestSubset
  <2>3. P(T, g) = P(T, h)
    BY <2>2
  <2> HIDE DEF P
  <2> QED BY <2>2, <2>3, <1>5, <1>6
<1>8. AllFar(v, before, S) = h[S]
  BY DEF AllFar, InTurn, FoldSet, MapThenFoldSet, h
<1> QED BY <1>3, <1>7, <1>8

\* Those of S see c move.
AllMove(v, c, old, far, before, S) == InTurn(LAMBDA u, s : OnCreatureMove(u, s, c, old, far, before), v, S)

\* The same of the spectators that see c move.
LEMMA MoveTurns ==
  ASSUME NEW v, NEW c, NEW old, NEW far, NEW before, NEW S, IsFiniteSet(S), NEW J, v \in J[{}],
         \A D \in SUBSET S : \A i \in S \ D : \A u \in J[D] : OnCreatureMove(u, i, c, old, far, before) \in J[D \cup {i}]
  PROVE  AllMove(v, c, old, far, before, S) \in J[S]
<1> DEFINE U == UNION {J[D] : D \in SUBSET S}
           F == [z \in U \X S |-> OnCreatureMove(z[1], z[2], c, old, far, before)]
           P(s, h) == IF s = {} THEN v
                      ELSE LET i == CHOOSE i \in s : TRUE IN OnCreatureMove(h[s \ {i}], i, c, old, far, before)
           h == CHOOSE h : h = [s \in SUBSET S |-> P(s, h)]
<1>1. PICK g : Follows(g, S, F, v)
  <2> HIDE DEF F
  <2> QED BY TurnsExist
<1>2. Turns(S, F, v, J)
  <2> SUFFICES ASSUME NEW D \in SUBSET S, NEW i \in S \ D, NEW u \in J[D]
               PROVE  F[<<u, i>>] \in J[D \cup {i}]
    BY DEF Turns
  <2>1. <<u, i>> \in U \X S
    OBVIOUS
  <2>2. F[<<u, i>>] = OnCreatureMove(u, i, c, old, far, before)
    BY <2>1
  <2> QED BY <2>2
<1>3. \A T \in SUBSET S : g[T] \in J[T]
  <2> HIDE DEF F, P, U, h
  <2> QED BY <1>1, <1>2, TurnsKeep
<1>4. ASSUME NEW s \in SUBSET S PROVE After(F, v, s, g) = P(s, g)
  <2> DEFINE i == CHOOSE i \in s : TRUE
  <2>1. CASE s = {}
    BY <2>1 DEF After
  <2>2. CASE s # {}
    <3>1. i \in s
      BY <2>2
    <3>2. After(F, v, s, g) = F[<<g[s \ {i}], i>>]
      BY <2>2 DEF After
    <3>3. P(s, g) = OnCreatureMove(g[s \ {i}], i, c, old, far, before)
      BY <2>2
    <3> HIDE DEF i, P
    <3>4. <<g[s \ {i}], i>> \in U \X S
      BY <1>3, <3>1
    <3> HIDE DEF U
    <3>5. F[<<g[s \ {i}], i>>] = OnCreatureMove(g[s \ {i}], i, c, old, far, before)
      BY <3>4
    <3> QED BY <3>2, <3>3, <3>5
  <2> QED BY <2>1, <2>2
<1>5. g = [s \in SUBSET S |-> P(s, g)]
  <2> HIDE DEF P
  <2> QED BY <1>1, <1>4 DEF Follows
<1>6. h = [s \in SUBSET S |-> P(s, h)]
  <2> HIDE DEF P
  <2> QED BY <1>5
<1>7. h = g
  <2> DEFINE B == {t \in SUBSET S : g[t] = h[t]}
  <2> HIDE DEF h
  <2>1. SUFFICES ASSUME ~ (SUBSET S \subseteq B) PROVE FALSE
    <3> HIDE DEF P
    <3> QED BY <1>5, <1>6
  <2>2. PICK T \in SUBSET S : T \notin B /\ \A r \in SUBSET T : r = T \/ r \in B
    <3> HIDE DEF B
    <3> QED BY <2>1, SmallestSubset
  <2>3. P(T, g) = P(T, h)
    BY <2>2
  <2> HIDE DEF P
  <2> QED BY <2>2, <2>3, <1>5, <1>6
<1>8. AllMove(v, c, old, far, before, S) = h[S]
  BY DEF AllMove, InTurn, FoldSet, MapThenFoldSet, h
<1> QED BY <1>3, <1>7, <1>8

\* Those of S die.
AllHurt(v, S) == InTurn(ChangeHealth, v, S)

\* The same of the summons that die with their master.
LEMMA HealthTurns ==
  ASSUME NEW v, NEW S, IsFiniteSet(S), NEW J, v \in J[{}],
         \A D \in SUBSET S : \A i \in S \ D : \A u \in J[D] : ChangeHealth(u, i) \in J[D \cup {i}]
  PROVE  AllHurt(v, S) \in J[S]
<1> DEFINE U == UNION {J[D] : D \in SUBSET S}
           F == [z \in U \X S |-> ChangeHealth(z[1], z[2])]
           P(s, h) == IF s = {} THEN v
                      ELSE LET i == CHOOSE i \in s : TRUE IN ChangeHealth(h[s \ {i}], i)
           h == CHOOSE h : h = [s \in SUBSET S |-> P(s, h)]
<1>1. PICK g : Follows(g, S, F, v)
  <2> HIDE DEF F
  <2> QED BY TurnsExist
<1>2. Turns(S, F, v, J)
  <2> SUFFICES ASSUME NEW D \in SUBSET S, NEW i \in S \ D, NEW u \in J[D]
               PROVE  F[<<u, i>>] \in J[D \cup {i}]
    BY DEF Turns
  <2>1. <<u, i>> \in U \X S
    OBVIOUS
  <2>2. F[<<u, i>>] = ChangeHealth(u, i)
    BY <2>1
  <2> QED BY <2>2
<1>3. \A T \in SUBSET S : g[T] \in J[T]
  <2> HIDE DEF F, P, U, h
  <2> QED BY <1>1, <1>2, TurnsKeep
<1>4. ASSUME NEW s \in SUBSET S PROVE After(F, v, s, g) = P(s, g)
  <2> DEFINE i == CHOOSE i \in s : TRUE
  <2>1. CASE s = {}
    BY <2>1 DEF After
  <2>2. CASE s # {}
    <3>1. i \in s
      BY <2>2
    <3>2. After(F, v, s, g) = F[<<g[s \ {i}], i>>]
      BY <2>2 DEF After
    <3>3. P(s, g) = ChangeHealth(g[s \ {i}], i)
      BY <2>2
    <3> HIDE DEF i, P
    <3>4. <<g[s \ {i}], i>> \in U \X S
      BY <1>3, <3>1
    <3> HIDE DEF U
    <3>5. F[<<g[s \ {i}], i>>] = ChangeHealth(g[s \ {i}], i)
      BY <3>4
    <3> QED BY <3>2, <3>3, <3>5
  <2> QED BY <2>1, <2>2
<1>5. g = [s \in SUBSET S |-> P(s, g)]
  <2> HIDE DEF P
  <2> QED BY <1>1, <1>4 DEF Follows
<1>6. h = [s \in SUBSET S |-> P(s, h)]
  <2> HIDE DEF P
  <2> QED BY <1>5
<1>7. h = g
  <2> DEFINE B == {t \in SUBSET S : g[t] = h[t]}
  <2> HIDE DEF h
  <2>1. SUFFICES ASSUME ~ (SUBSET S \subseteq B) PROVE FALSE
    <3> HIDE DEF P
    <3> QED BY <1>5, <1>6
  <2>2. PICK T \in SUBSET S : T \notin B /\ \A r \in SUBSET T : r = T \/ r \in B
    <3> HIDE DEF B
    <3> QED BY <2>1, SmallestSubset
  <2>3. P(T, g) = P(T, h)
    BY <2>2
  <2> HIDE DEF P
  <2> QED BY <2>2, <2>3, <1>5, <1>6
<1>8. AllHurt(v, S) = h[S]
  BY DEF AllHurt, InTurn, FoldSet, MapThenFoldSet, h
<1> QED BY <1>3, <1>7, <1>8

\* TellRemoval is three folds.
LEMMA RemovalOrderIs ==
  \A v, S, c, before : TellRemoval(v, S, before, c) =
    AllRemoval(AllRemoval(AllRemoval(v, c, S \cap before), c, {c}), c, S \ before)
BY DEF TellRemoval, AllRemoval, InOrder

\* An invariant of the turns of Game::removeCreature, whatever the order of the hash set.
LEMMA RemovalOrder ==
  ASSUME NEW v, NEW c, NEW S, IsFiniteSet(S), NEW before, c \notin S, NEW J, v \in J[{}],
         \A D \in SUBSET (S \cup {c}) : \A i \in (S \cup {c}) \ D : \A u \in J[D] :
           OnRemoveCreature(u, i, c) \in J[D \cup {i}]
  PROVE  TellRemoval(v, S, before, c) \in J[S \cup {c}]
<1> DEFINE A == S \cap before
           B == S \ before
           L == [D \in SUBSET {c} |-> J[A \cup D]]
           M == [D \in SUBSET B |-> J[A \cup {c} \cup D]]
           a == AllRemoval(v, c, A)
           b == AllRemoval(a, c, {c})
           e == AllRemoval(b, c, B)
<1>0. IsFiniteSet(A) /\ IsFiniteSet(B) /\ IsFiniteSet({c})
  BY FS_Subset, FS_Singleton
<1>1. a \in J[A]
  <2>1. \A D \in SUBSET A : \A i \in A \ D : \A u \in J[D] : OnRemoveCreature(u, i, c) \in J[D \cup {i}]
    OBVIOUS
  <2> HIDE DEF A
  <2> QED BY <1>0, <2>1, RemovalTurns
<1> HIDE DEF a
<1>2. b \in L[{c}]
  <2>1. ASSUME NEW D \in SUBSET {c}, NEW i \in {c} \ D, NEW u \in L[D]
        PROVE  OnRemoveCreature(u, i, c) \in L[D \cup {i}]
    <3>1. A \cup D \in SUBSET (S \cup {c}) /\ i \in (S \cup {c}) \ (A \cup D) /\ u \in J[A \cup D]
      OBVIOUS
    <3> DEFINE E == A \cup D
    <3>2. E \cup {i} = A \cup (D \cup {i})
      OBVIOUS
    <3> HIDE DEF E
    <3>3. OnRemoveCreature(u, i, c) \in J[E \cup {i}]
      BY <3>1 DEF E
    <3> QED BY <3>2, <3>3
  <2>2. a \in L[{}]
    <3>1. A \cup {} = A
      OBVIOUS
    <3> QED BY <1>1, <3>1
  <2> HIDE DEF L
  <2> QED BY <1>0, <2>1, <2>2, RemovalTurns
<1> HIDE DEF b
<1>3. e \in M[B]
  <2>1. ASSUME NEW D \in SUBSET B, NEW i \in B \ D, NEW u \in M[D]
        PROVE  OnRemoveCreature(u, i, c) \in M[D \cup {i}]
    <3>1. A \cup {c} \cup D \in SUBSET (S \cup {c}) /\ i \in (S \cup {c}) \ (A \cup {c} \cup D)
          /\ u \in J[A \cup {c} \cup D]
      OBVIOUS
    <3> DEFINE E == A \cup {c} \cup D
    <3>2. E \cup {i} = A \cup {c} \cup (D \cup {i})
      OBVIOUS
    <3> HIDE DEF E
    <3>3. OnRemoveCreature(u, i, c) \in J[E \cup {i}]
      BY <3>1 DEF E
    <3> QED BY <3>2, <3>3
  <2>2. b \in M[{}]
    <3>1. A \cup {c} \cup {} = A \cup {c}
      OBVIOUS
    <3> QED BY <1>2, <3>1
  <2> HIDE DEF M, B
  <2> QED BY <1>0, <2>1, <2>2, RemovalTurns
<1>4. A \cup {c} \cup B = S \cup {c}
  OBVIOUS
<1>5. TellRemoval(v, S, before, c) = e
  BY RemovalOrderIs DEF a, b
<1> QED BY <1>3, <1>4, <1>5

\* TellMove is three folds.
LEMMA MoveOrderIs ==
  \A v, S, c, old, far, before : TellMove(v, S, before, c, old, far) =
    AllMove(AllMove(AllMove(v, c, old, far, before, S \cap before), c, old, far, before, {c}), c, old, far, before, S \ before)
BY DEF TellMove, AllMove, InOrder

\* The same of Map::moveCreature.
LEMMA MoveOrder ==
  ASSUME NEW v, NEW c, NEW old, NEW far, NEW before, NEW S, IsFiniteSet(S), c \notin S, NEW J,
         v \in J[{}],
         \A D \in SUBSET (S \cup {c}) : \A i \in (S \cup {c}) \ D : \A u \in J[D] :
           OnCreatureMove(u, i, c, old, far, before) \in J[D \cup {i}]
  PROVE  TellMove(v, S, before, c, old, far) \in J[S \cup {c}]
<1> DEFINE A == S \cap before
           B == S \ before
           L == [D \in SUBSET {c} |-> J[A \cup D]]
           M == [D \in SUBSET B |-> J[A \cup {c} \cup D]]
           a == AllMove(v, c, old, far, before, A)
           b == AllMove(a, c, old, far, before, {c})
           e == AllMove(b, c, old, far, before, B)
<1>0. IsFiniteSet(A) /\ IsFiniteSet(B) /\ IsFiniteSet({c})
  BY FS_Subset, FS_Singleton
<1>1. a \in J[A]
  <2>1. \A D \in SUBSET A : \A i \in A \ D : \A u \in J[D] : OnCreatureMove(u, i, c, old, far, before) \in J[D \cup {i}]
    OBVIOUS
  <2> HIDE DEF A
  <2> QED BY <1>0, <2>1, MoveTurns
<1> HIDE DEF a
<1>2. b \in L[{c}]
  <2>1. ASSUME NEW D \in SUBSET {c}, NEW i \in {c} \ D, NEW u \in L[D]
        PROVE  OnCreatureMove(u, i, c, old, far, before) \in L[D \cup {i}]
    <3>1. A \cup D \in SUBSET (S \cup {c}) /\ i \in (S \cup {c}) \ (A \cup D) /\ u \in J[A \cup D]
      OBVIOUS
    <3> DEFINE E == A \cup D
    <3>2. E \cup {i} = A \cup (D \cup {i})
      OBVIOUS
    <3> HIDE DEF E
    <3>3. OnCreatureMove(u, i, c, old, far, before) \in J[E \cup {i}]
      BY <3>1 DEF E
    <3> QED BY <3>2, <3>3
  <2>2. a \in L[{}]
    <3>1. A \cup {} = A
      OBVIOUS
    <3> QED BY <1>1, <3>1
  <2> HIDE DEF L
  <2> QED BY <1>0, <2>1, <2>2, MoveTurns
<1> HIDE DEF b
<1>3. e \in M[B]
  <2>1. ASSUME NEW D \in SUBSET B, NEW i \in B \ D, NEW u \in M[D]
        PROVE  OnCreatureMove(u, i, c, old, far, before) \in M[D \cup {i}]
    <3>1. A \cup {c} \cup D \in SUBSET (S \cup {c}) /\ i \in (S \cup {c}) \ (A \cup {c} \cup D)
          /\ u \in J[A \cup {c} \cup D]
      OBVIOUS
    <3> DEFINE E == A \cup {c} \cup D
    <3>2. E \cup {i} = A \cup {c} \cup (D \cup {i})
      OBVIOUS
    <3> HIDE DEF E
    <3>3. OnCreatureMove(u, i, c, old, far, before) \in J[E \cup {i}]
      BY <3>1 DEF E
    <3> QED BY <3>2, <3>3
  <2>2. b \in M[{}]
    <3>1. A \cup {c} \cup {} = A \cup {c}
      OBVIOUS
    <3> QED BY <1>2, <3>1
  <2> HIDE DEF M, B
  <2> QED BY <1>0, <2>1, <2>2, MoveTurns
<1>4. A \cup {c} \cup B = S \cup {c}
  OBVIOUS
<1>5. TellMove(v, S, before, c, old, far) = e
  BY MoveOrderIs DEF a, b
<1> QED BY <1>3, <1>4, <1>5

-----------------------------------------------------------------------------
(* Looking around *)

\* Who sees a place.
LEMMA SpectatorsIs ==
  \A v, place : /\ Spectators(v, place) \subseteq Creatures /\ IsFiniteSet(Spectators(v, place))
                /\ \A c \in Creatures : c \in Spectators(v, place) <=> Placed(v, c) /\ InView(v.at[c], place)
<1>1. \A v, place : Spectators(v, place) \subseteq Creatures
  BY DEF Spectators
<1> QED BY <1>1, Hands, FS_Subset DEF Spectators

\* After a sound handler, who is in the world is where it was.
LEMMA SoundPlaces ==
  ASSUME NEW v, NEW u, NEW X, NEW Y, Sound(v, u, X, Y), NEW c \in Creatures
  PROVE  /\ Placed(u, c) <=> Placed(v, c)
         /\ Placed(v, c) => u.at[c] = v.at[c]
BY DEF Sound, Keeps, KeepsLives, Stays, Live

\* What m knew before a handler that keeps it, it knows afterwards.
LEMMA StillKnows ==
  ASSUME NEW v, NEW u, NEW X, Sound(v, u, X, {}), NEW m \in Monsters, NEW p \in Players,
         Placed(v, m), Placed(v, p),
         <<m, p>> \notin X, v.alive[m] => Knows(v, m, p)
  PROVE  u.alive[m] => Knows(u, m, p)
<1>1. m \in Creatures /\ p \in Creatures
  BY Hands
<1>2. Placed(u, m) /\ Placed(u, p)
  BY <1>1 DEF Sound, Stays
<1>3. u.alive[m] => v.alive[m]
  BY <1>2 DEF Sound, Keeps, KeepsLives
<1> QED BY <1>2, <1>3 DEF Sound, Keeps, KeepsKnown

\* The same of handlers that keep everything.
LEMMA AllKnown ==
  ASSUME NEW v, NEW u, Sound(v, u, {}, {}), NEW m \in Monsters, NEW p \in Players, Placed(v, m),
         Placed(v, p),
         v.alive[m] => Knows(v, m, p)
  PROVE  u.alive[m] => Knows(u, m, p)
<1> DEFINE X == {}
<1>1. <<m, p>> \notin X /\ Sound(v, u, X, {})
  OBVIOUS
<1> HIDE DEF X
<1> QED BY <1>1, StillKnows

\* A monster that has found the players of S knows them.
LEMMA AllFoundSound ==
  ASSUME NEW v, Core(v), NEW m \in Monsters, Placed(v, m),
         NEW S \in SUBSET Creatures, \A c \in S : Placed(v, c), NEW u, u = AllFound(v, m, S)
  PROVE  Mild(v, u, {}, {}) /\ \A p \in S \cap Players : u.alive[m] => Knows(u, m, p)
<1> DEFINE J == [D \in SUBSET S |->
                   {t \in State : Mild(v, t, {}, {}) /\ \A p \in D \cap Players : t.alive[m] => Knows(t, m, p)}]
<1>0. m \in Creatures /\ v \in State /\ Mild(v, v, {}, {}) /\ IsFiniteSet(S)
  BY Hands, MildSelf, FS_Subset DEF Core, Loose
<1>1. v \in J[{}]
  BY <1>0
<1>2. ASSUME NEW D \in SUBSET S, NEW i \in S \ D, NEW t \in J[D]
      PROVE  OnCreatureFound(t, m, i) \in J[D \cup {i}]
  <2> DEFINE z == OnCreatureFound(t, m, i)
  <2>1. Mild(v, t, {}, {}) /\ Core(t) /\ Placed(t, m) /\ Placed(t, i) /\ Used(t, i)
        /\ i \in Creatures
    BY <1>0 DEF Mild, Sound, Stays, Used, Placed
  <2>2. Mild(t, z, {}, {}) /\ (i \in Players /\ z.alive[m] => Knows(z, m, i))
    BY <2>1, OnCreatureFoundSound
  <2> HIDE DEF z
  <2>3. Mild(v, z, {}, {}) /\ z \in State
    BY <2>1, <2>2, MildThen DEF Mild, Sound, Core, Loose
  <2>4. ASSUME NEW p \in D \cap Players PROVE z.alive[m] => Knows(z, m, p)
    <3>1. Placed(t, p) /\ (t.alive[m] => Knows(t, m, p))
      BY <2>1, Hands DEF Mild, Sound, Stays
    <3>2. Sound(t, z, {}, {}) /\ p \in Players
      BY <2>2 DEF Mild
    <3> QED BY <2>1, <3>1, <3>2, AllKnown
  <2> QED BY <2>2, <2>3, <2>4 DEF z
<1>3. u \in J[S]
  <2> HIDE DEF J
  <2> QED BY <1>0, <1>1, <1>2, FoundTurns
<1> QED BY <1>3

\* A monster that has looked around knows the players it sees.
LEMMA FindSpectatorsSound ==
  ASSUME NEW v, Core(v), NEW m \in Monsters, Placed(v, m), NEW u, u = FindSpectators(v, m)
  PROVE  Mild(v, u, {}, {}) /\ Sees(u, m)
<1> DEFINE S == Spectators(v, v.at[m]) \ {m}
<1>1. u = AllFound(v, m, S)
  BY DEF FindSpectators, AllFound, InTurn, FoldSet, MapThenFoldSet
<1>2. S \in SUBSET Creatures /\ \A c \in S : Placed(v, c)
  BY SpectatorsIs
<1>3. Mild(v, u, {}, {}) /\ \A p \in S \cap Players : u.alive[m] => Knows(u, m, p)
  <2> HIDE DEF S
  <2> QED BY <1>1, <1>2, AllFoundSound
<1>4. ASSUME NEW p \in Players, Placed(u, p), InView(u.at[m], u.at[p]) PROVE p \in S
  <2>1. p \in Creatures /\ m \in Creatures /\ p # m
    BY Hands
  <2>2. Placed(v, p) /\ u.at[m] = v.at[m] /\ u.at[p] = v.at[p]
    BY <1>3, <1>4, <2>1, SoundPlaces DEF Mild
  <2>3. v.at[m] \in Places /\ v.at[p] \in Places
    BY <2>1 DEF Core, Loose, State
  <2> QED BY <1>4, <2>1, <2>2, <2>3, InViewSame, SpectatorsIs
<1> QED BY <1>3, <1>4 DEF Sees

\* The same of updateTargetList, though it forgets the lost before.
LEMMA UpdateTargetListSound ==
  ASSUME NEW v, Core(v), NEW m \in Monsters, Placed(v, m), NEW u, u = UpdateTargetList(v, m)
  PROVE  Mild(v, u, {m} \X Creatures, {}) /\ Sees(u, m)
<1> DEFINE a == WithoutLostFriends(v, m)
           b == WithoutLostTargets(a, m)
<1>0. m \in Creatures
  BY Hands
<1>1. Mild(v, a, {}, {})
  BY <1>0, WithoutLostFriendsSound
<1>u. u = FindSpectators(b, m)
  BY DEF UpdateTargetList
<1> HIDE DEF a
<1>2. Mild(a, b, {m} \X Creatures, {})
  BY <1>0, <1>1, WithoutLostTargetsSound DEF Mild, Sound
<1> HIDE DEF b
<1>3. Mild(v, b, {m} \X Creatures, {})
  BY <1>1, <1>2, MildThen
<1>4. Core(b) /\ Placed(b, m)
  BY <1>0, <1>3 DEF Mild, Sound, Stays
<1>5. Mild(b, u, {}, {}) /\ Sees(u, m)
  BY <1>u, <1>4, FindSpectatorsSound
<1> QED BY <1>3, <1>5, MildThen

\* What keeps everything keeps what a monster sees.
LEMMA StillSees ==
  ASSUME NEW v, Core(v), NEW u, NEW X, Sound(v, u, X, {}), NEW m \in Monsters, Sees(v, m),
         \A p \in Players : <<m, p>> \notin X
  PROVE  Sees(u, m)
<1> SUFFICES ASSUME NEW p \in Players, Placed(u, m), u.alive[m], Placed(u, p),
                    InView(u.at[m], u.at[p])
             PROVE  Knows(u, m, p)
  BY DEF Sees
<1>0. m \in Creatures /\ p \in Creatures
  BY Hands
<1>1. Placed(v, m) /\ Placed(v, p) /\ v.at[m] = u.at[m] /\ v.at[p] = u.at[p]
  BY <1>0, SoundPlaces
<1>2. v.alive[m] => Knows(v, m, p)
  BY <1>1 DEF Sees
<1> QED BY <1>1, <1>2, StillKnows

\* Monster::updateTargetList and updateIdleStatus.
LEMMA LookSound ==
  ASSUME NEW v, Core(v), NEW m \in Monsters, Placed(v, m), NEW u,
         u = UpdateIdleStatus(UpdateTargetList(v, m), m)
  PROVE  Mild(v, u, {m} \X Creatures, {}) /\ Sees(u, m)
<1> DEFINE a == UpdateTargetList(v, m)
<1>1. Mild(v, a, {m} \X Creatures, {}) /\ Sees(a, m)
  BY UpdateTargetListSound
<1> HIDE DEF a
<1>2. Core(a) /\ Placed(a, m)
  BY <1>1, Hands DEF Mild, Sound, Stays
<1>3. Mild(a, u, {}, {})
  BY <1>2, UpdateIdleStatusSound DEF a
<1>4. Sees(u, m)
  BY <1>1, <1>2, <1>3, StillSees DEF Mild
<1> QED BY <1>1, <1>3, <1>4, MildThen

-----------------------------------------------------------------------------
(* Attacking and following *)

\* u differs from v in the pointers that are not counted only.
Repointed(v, u) ==
  /\ u \in State /\ u.status = v.status /\ u.at = v.at /\ u.alive = v.alive /\ u.refs = v.refs
  /\ u.toRelease = v.toRelease /\ u.checked = v.checked /\ u.inVector = v.inVector
  /\ u.master = v.master
  /\ u.summons = v.summons /\ u.idle = v.idle /\ u.targets = v.targets /\ u.friends = v.friends
  /\ u.spawned = v.spawned /\ u.checkSpawnEvent = v.checkSpawnEvent /\ u.scheduled = v.scheduled
  /\ u.forgotten = v.forgotten /\ u.filled = v.filled

\* Two such steps are one.
LEMMA RepointedOn == \A v, u, t : Repointed(v, u) /\ Repointed(u, t) => Repointed(v, t)
BY DEF Repointed

\* Doing nothing is such a step.
LEMMA RepointedSelf == \A v \in State : Repointed(v, v)
BY DEF Repointed

\* New pointers are safe as long as they are to somebody in view.
LEMMA RepointedSound ==
  ASSUME NEW v, Core(v), NEW u, Repointed(v, u),
         \A x \in Creatures : \A y \in Pointers(u, x) : y \in Pointers(v, x) \/ (Used(v, x) /\ Safe(v, x, y))
  PROVE  Sound(v, u, {}, {})
<1>0. Loose(v) /\ v \in State /\ u \in State
  BY DEF Core, Loose, Repointed
<1>1. Exact(u) /\ Lines(u) /\ MastersLive(u)
  BY <1>0 DEF Loose, Exact, References, Lines, MastersLive, Live, Placed, Repointed
<1>2. Blank(u)
  <2> SUFFICES ASSUME NEW c \in Creatures, u.status[c] = "free"
               PROVE  u.alive[c] /\ u.attacked[c] = Nobody /\ u.follow[c] = Nobody
                      /\ u.summons[c] = {}
    BY DEF Blank
  <2>1. v.alive[c] /\ v.attacked[c] = Nobody /\ v.follow[c] = Nobody /\ v.summons[c] = {}
        /\ ~Used(v, c)
    BY <1>0 DEF Loose, Blank, Repointed, Used
  <2>2. Pointers(u, c) = {}
    BY <2>1 DEF Pointers
  <2> QED BY <2>1, <2>2 DEF Repointed, Pointers
<1>3. Core(u)
  BY <1>0, <1>1, <1>2 DEF Core, Loose, Repointed, Awake, Placed
<1>4. \A c \in Creatures : (Live(u, c) <=> Live(v, c)) /\ (Placed(u, c) <=> Placed(v, c))
  BY DEF Repointed, Live, Placed
<1>5. KeepsLives(v, u) /\ KeepsKnown(v, u, {}, {}) /\ KeepsMasters(v, u, {}) /\ KeepsSpawns(v, u)
      /\ KeepsMinded(v, u)
      /\ Stays(v, u)
  BY <1>0, <1>4, Hands DEF Repointed, KeepsLives, KeepsKnown, Knows, KeepsMasters, KeepsSpawns,
     KeepsMinded, Minded,
     Awake, Stays, State
<1>6. KeepsPointers(v, u)
  <2> SUFFICES ASSUME NEW x \in Creatures, Placed(u, x), NEW y \in Pointers(u, x)
               PROVE  \/ Safe(u, x, y)
                      \/ y \in Pointers(v, x) /\ (Safe(v, x, y) => Placed(u, y))
    BY DEF KeepsPointers
  <2> QED BY DEF Safe, Repointed, Placed
<1> QED BY <1>3, <1>5, <1>6 DEF Sound, Keeps

\* Creature::setAttackedCreature, with those that attack what their master attacks.
LEMMA SetAttackedCreatureIs ==
  ASSUME NEW v \in State, NEW x \in Creatures, NEW c \in Creatures \cup {Nobody}, NEW u,
         u = SetAttackedCreature(v, x, c)
  PROVE  /\ Repointed(v, u) /\ u.follow = v.follow
         /\ \A y \in Creatures : u.attacked[y] = IF y \notin AttackingWith(v, x, c) THEN v.attacked[y]
                                                 ELSE IF CanAttack(v, y, c) THEN c ELSE Nobody
<1> DEFINE a == [y \in Creatures |-> IF y \notin AttackingWith(v, x, c) THEN v.attacked[y]
                                     ELSE IF CanAttack(v, y, c) THEN c ELSE Nobody]
<1>0. a \in [Creatures -> Creatures \cup {Nobody}]
  BY DEF State
<1>d. \A y \in Creatures : a[y] = IF y \notin AttackingWith(v, x, c) THEN v.attacked[y]
                                  ELSE IF CanAttack(v, y, c) THEN c ELSE Nobody
  OBVIOUS
<1>e. u = [v EXCEPT !.attacked = a]
  BY DEF SetAttackedCreature
<1> HIDE DEF a
<1>1. Shaped(u)
  BY <1>e, StateIs DEF Shaped
<1>2. /\ u.status = v.status /\ u.at = v.at /\ u.alive = v.alive /\ u.refs = v.refs
      /\ u.toRelease = v.toRelease /\ u.checked = v.checked /\ u.inVector = v.inVector
      /\ u.master = v.master
      /\ u.summons = v.summons /\ u.idle = v.idle /\ u.targets = v.targets /\ u.friends = v.friends
      /\ u.spawned = v.spawned /\ u.checkSpawnEvent = v.checkSpawnEvent /\ u.scheduled = v.scheduled
      /\ u.forgotten = v.forgotten /\ u.filled = v.filled /\ u.attacked = a /\ u.follow = v.follow
  BY <1>e
<1>3. Typed(u)
  BY <1>0, <1>2, StateIs DEF Typed
<1>4. Repointed(v, u)
  BY <1>1, <1>2, <1>3, StateIs DEF Repointed
<1> QED BY <1>2, <1>4, <1>d

\* Creature::setFollowCreature.
LEMMA SetFollowCreatureIs ==
  ASSUME NEW v \in State, NEW x \in Creatures, NEW c \in Creatures \cup {Nobody}, NEW u,
         u = SetFollowCreature(v, x, c)
  PROVE  /\ Repointed(v, u) /\ u.attacked = v.attacked
         /\ u.follow[x] = IF c # Nobody /\ ~InView(v.at[x], v.at[c]) THEN Nobody ELSE c
         /\ \A y \in Creatures \ {x} : u.follow[y] = v.follow[y]
<1> DEFINE d == IF c # Nobody /\ ~InView(v.at[x], v.at[c]) THEN Nobody ELSE c
<1>0. d \in Creatures \cup {Nobody}
  OBVIOUS
<1>e. u = [v EXCEPT !.follow[x] = d]
  BY DEF SetFollowCreature
<1>d. d = IF c # Nobody /\ ~InView(v.at[x], v.at[c]) THEN Nobody ELSE c
  OBVIOUS
<1> HIDE DEF d
<1>1. Shaped(u)
  BY <1>e, StateIs DEF Shaped
<1>2. /\ u.status = v.status /\ u.at = v.at /\ u.alive = v.alive /\ u.refs = v.refs
      /\ u.toRelease = v.toRelease /\ u.checked = v.checked /\ u.inVector = v.inVector
      /\ u.master = v.master
      /\ u.summons = v.summons /\ u.idle = v.idle /\ u.targets = v.targets /\ u.friends = v.friends
      /\ u.spawned = v.spawned /\ u.checkSpawnEvent = v.checkSpawnEvent /\ u.scheduled = v.scheduled
      /\ u.forgotten = v.forgotten /\ u.filled = v.filled /\ u.attacked = v.attacked
      /\ u.follow = [v.follow EXCEPT ![x] = d]
  BY <1>e
<1>3. Typed(u)
  BY <1>0, <1>2, StateIs DEF Typed
<1>4. Repointed(v, u)
  BY <1>1, <1>2, <1>3, StateIs DEF Repointed
<1>5. u.follow[x] = d /\ \A y \in Creatures \ {x} : u.follow[y] = v.follow[y]
  BY <1>2, StateIs DEF Typed
<1> QED BY <1>2, <1>4, <1>5, <1>d

\* Whoever turns to c is in use.
LEMMA AttackingUsed ==
  ASSUME NEW v, Loose(v), NEW x \in Creatures, Used(v, x), NEW c, NEW y \in AttackingWith(v, x, c)
  PROVE  y \in Creatures /\ Used(v, y)
<1>0. v \in State /\ Lines(v) /\ Nobody \notin Creatures
  BY Hands DEF Loose
<1>1. ASSUME NEW xs \in SUBSET Creatures, NEW z \in Commanded(v, xs, c)
      PROVE  z \in Creatures /\ Used(v, z)
  <2>1. PICK m \in xs : z \in v.summons[m]
    BY DEF Commanded
  <2>2. z \in Creatures /\ v.master[z] = m /\ m # Nobody
    BY <1>0, <2>1 DEF Lines, State
  <2> QED BY <2>2, HeldIsUsed
<1>2. \A z \in Commanded(v, {x}, c) : z \in Creatures /\ Used(v, z)
  BY <1>1
<1>3. Commanded(v, {x}, c) \in SUBSET Creatures
  BY <1>2
<1>4. \A z \in Commanded(v, Commanded(v, {x}, c), c) : z \in Creatures /\ Used(v, z)
  BY <1>1, <1>3
<1> QED BY <1>2, <1>4 DEF AttackingWith

\* Nobody attacks what it does not see.
LEMMA SetAttackedCreatureSound ==
  ASSUME NEW v, Core(v), NEW x \in Creatures, Used(v, x), NEW c \in Creatures \cup {Nobody},
         c # Nobody => Placed(v, c), NEW u, u = SetAttackedCreature(v, x, c)
  PROVE  /\ Sound(v, u, {}, {}) /\ Repointed(v, u) /\ u.follow = v.follow
         /\ c = Nobody => Mild(v, u, {}, {}) /\ u.attacked[x] = Nobody
<1>0. v \in State /\ Loose(v)
  BY DEF Core, Loose
<1>1. /\ Repointed(v, u) /\ u.follow = v.follow
      /\ \A y \in Creatures : u.attacked[y] = IF y \notin AttackingWith(v, x, c) THEN v.attacked[y]
                                              ELSE IF CanAttack(v, y, c) THEN c ELSE Nobody
  BY <1>0, SetAttackedCreatureIs
<1>2. ASSUME NEW y \in Creatures
      PROVE  u.attacked[y] \in {v.attacked[y], Nobody}
             \/ (Used(v, y) /\ c # Nobody /\ Safe(v, y, u.attacked[y]))
  <2>1. CASE y \in AttackingWith(v, x, c) /\ CanAttack(v, y, c) /\ c # Nobody
    <3>1. u.attacked[y] = c /\ Used(v, y)
      BY <1>0, <1>1, <2>1, AttackingUsed
    <3> QED BY <2>1, <3>1 DEF CanAttack, Safe
  <2>2. CASE ~ (y \in AttackingWith(v, x, c) /\ CanAttack(v, y, c) /\ c # Nobody)
    <3>1. u.attacked[y] = v.attacked[y] \/ u.attacked[y] = Nobody
      BY <1>1, <2>2
    <3> QED BY <3>1
  <2> QED BY <2>1, <2>2
<1>3. ASSUME NEW y \in Creatures, NEW z \in Pointers(u, y)
      PROVE  z \in Pointers(v, y) \/ (Used(v, y) /\ Safe(v, y, z))
  <2>1. z # Nobody /\ (z = u.attacked[y] \/ z = v.follow[y])
    BY <1>1, <1>3 DEF Pointers
  <2>2. CASE z = v.follow[y]
    BY <2>1, <2>2 DEF Pointers
  <2>3. CASE z = u.attacked[y]
    <3>1. z = v.attacked[y] \/ (Used(v, y) /\ Safe(v, y, z))
      BY <2>1, <2>3, <1>2
    <3> QED BY <2>1, <3>1 DEF Pointers
  <2> QED BY <2>1, <2>2, <2>3
<1>4. Sound(v, u, {}, {})
  BY <1>1, <1>3, RepointedSound
<1>5. ASSUME c = Nobody PROVE Mild(v, u, {}, {}) /\ u.attacked[x] = Nobody
  <2>1. \A y \in Creatures : u.attacked[y] \in {v.attacked[y], Nobody}
    BY <1>2, <1>5
  <2>2. Calm(v, u)
    BY <1>1, <2>1 DEF Calm, Pointers, Repointed
  <2>3. x \in AttackingWith(v, x, c)
    BY DEF AttackingWith
  <2> QED BY <1>1, <1>4, <1>5, <2>2, <2>3 DEF Mild
<1> QED BY <1>1, <1>4, <1>5

\* Nobody follows what it does not see.
LEMMA SetFollowCreatureSound ==
  ASSUME NEW v, Core(v), NEW x \in Creatures, Used(v, x), NEW c \in Creatures \cup {Nobody},
         c # Nobody => Placed(v, c), NEW u, u = SetFollowCreature(v, x, c)
  PROVE  /\ Sound(v, u, {}, {}) /\ Repointed(v, u) /\ u.attacked = v.attacked
         /\ c = Nobody => Mild(v, u, {}, {}) /\ u.follow[x] = Nobody
<1>0. v \in State /\ Loose(v)
  BY DEF Core, Loose
<1>1. /\ Repointed(v, u) /\ u.attacked = v.attacked
      /\ u.follow[x] = IF c # Nobody /\ ~InView(v.at[x], v.at[c]) THEN Nobody ELSE c
      /\ \A y \in Creatures \ {x} : u.follow[y] = v.follow[y]
  BY <1>0, SetFollowCreatureIs
<1>2. ASSUME NEW y \in Creatures
      PROVE  u.follow[y] \in {v.follow[y], Nobody}
             \/ (Used(v, y) /\ c # Nobody /\ Safe(v, y, u.follow[y]))
  <2>1. CASE y = x /\ c # Nobody /\ InView(v.at[x], v.at[c])
    <3>1. u.follow[y] = c
      BY <1>1, <2>1
    <3> QED BY <2>1, <3>1 DEF Safe
  <2>2. CASE ~ (y = x /\ c # Nobody /\ InView(v.at[x], v.at[c]))
    <3>1. u.follow[y] = v.follow[y] \/ u.follow[y] = Nobody
      BY <1>1, <2>2
    <3> QED BY <3>1
  <2> QED BY <2>1, <2>2
<1>3. ASSUME NEW y \in Creatures, NEW z \in Pointers(u, y)
      PROVE  z \in Pointers(v, y) \/ (Used(v, y) /\ Safe(v, y, z))
  <2>1. z # Nobody /\ (z = u.follow[y] \/ z = v.attacked[y])
    BY <1>1, <1>3 DEF Pointers
  <2>2. CASE z = v.attacked[y]
    BY <2>1, <2>2 DEF Pointers
  <2>3. CASE z = u.follow[y]
    <3>1. z = v.follow[y] \/ (Used(v, y) /\ Safe(v, y, z))
      BY <2>1, <2>3, <1>2
    <3> QED BY <2>1, <3>1 DEF Pointers
  <2> QED BY <2>1, <2>2, <2>3
<1>4. Sound(v, u, {}, {})
  BY <1>1, <1>3, RepointedSound
<1>5. ASSUME c = Nobody PROVE Mild(v, u, {}, {}) /\ u.follow[x] = Nobody
  <2>1. \A y \in Creatures : u.follow[y] \in {v.follow[y], Nobody}
    BY <1>2, <1>5
  <2>2. Calm(v, u)
    BY <1>1, <2>1 DEF Calm, Pointers, Repointed
  <2> QED BY <1>1, <1>4, <1>5, <2>2 DEF Mild
<1> QED BY <1>1, <1>4, <1>5

\* Who hears that c disappears has no pointer to c any more.
LEMMA OnCreatureDisappearSound ==
  ASSUME NEW v, Core(v), NEW x \in Creatures, Used(v, x), NEW c \in Creatures, NEW u,
         u = OnCreatureDisappear(v, x, c)
  PROVE  Mild(v, u, {}, {}) /\ Repointed(v, u) /\ c \notin Pointers(u, x)
         /\ u.follow[x] \in {v.follow[x], Nobody}
<1> DEFINE a == SetAttackedCreature(v, x, Nobody)
           b == IF x \in Players THEN SetFollowCreature(a, x, Nobody) ELSE a
           d == IF v.attacked[x] # c THEN v ELSE b
<1>0. v \in State /\ c # Nobody
  BY Hands DEF Core, Loose
<1>1. Mild(v, a, {}, {}) /\ Repointed(v, a) /\ a.attacked[x] = Nobody /\ a.follow = v.follow
  BY SetAttackedCreatureSound
<1>u. u = IF d.follow[x] = c THEN SetFollowCreature(d, x, Nobody) ELSE d
  BY DEF OnCreatureDisappear
<1> HIDE DEF a
<1>2. Mild(v, b, {}, {}) /\ Repointed(v, b) /\ b.attacked[x] = Nobody
      /\ b.follow[x] \in {v.follow[x], Nobody}
  <2>1. CASE x \in Players
    <3>1. b = SetFollowCreature(a, x, Nobody)
      BY <2>1
    <3> HIDE DEF b
    <3>2. Core(a) /\ Used(a, x)
      BY <1>1 DEF Mild, Sound, Repointed, Used
    <3>3. Mild(a, b, {}, {}) /\ Repointed(a, b) /\ b.attacked = a.attacked /\ b.follow[x] = Nobody
      BY <3>1, <3>2, SetFollowCreatureSound
    <3> QED BY <1>1, <3>3, MildThen, RepointedOn
  <2>2. CASE x \notin Players
    BY <1>1, <2>2
  <2> QED BY <2>1, <2>2
<1> HIDE DEF b
<1>3. Mild(v, d, {}, {}) /\ Repointed(v, d) /\ d.attacked[x] # c
      /\ d.follow[x] \in {v.follow[x], Nobody}
  BY <1>0, <1>2, MildSelf, RepointedSelf
<1> HIDE DEF d
<1>4. CASE d.follow[x] = c
  <2>1. Core(d) /\ Used(d, x)
    BY <1>3 DEF Mild, Sound, Repointed, Used
  <2>2. Mild(d, u, {}, {}) /\ Repointed(d, u) /\ u.attacked = d.attacked /\ u.follow[x] = Nobody
    BY <1>u, <1>4, <2>1, SetFollowCreatureSound
  <2>3. Mild(v, u, {}, {}) /\ Repointed(v, u)
    BY <1>3, <2>2, MildThen, RepointedOn
  <2> QED BY <1>0, <1>3, <2>2, <2>3 DEF Pointers
<1>5. CASE d.follow[x] # c
  <2>1. u = d
    BY <1>u, <1>5
  <2> QED BY <1>3, <1>5, <2>1 DEF Pointers
<1> QED BY <1>4, <1>5

\* Monster::selectTarget takes what is in view only.
LEMMA SelectTargetSound ==
  ASSUME NEW v, Core(v), NEW m \in Creatures, Used(v, m), NEW c, NEW u, u = SelectTarget(v, m, c)
  PROVE  Sound(v, u, {}, {}) /\ Repointed(v, u)
<1>0. v \in State
  BY DEF Core, Loose
<1>1. CASE Placed(v, c) /\ InView(v.at[m], v.at[c]) /\ c \in v.targets[m]
  <2> DEFINE a == SetAttackedCreature(v, m, c)
  <2>0. c \in Creatures \cup {Nobody} /\ (c # Nobody => Placed(v, c))
    BY <1>0, <1>1 DEF State
  <2>1. u = SetFollowCreature(a, m, c)
    BY <1>1 DEF SelectTarget
  <2>2. Sound(v, a, {}, {}) /\ Repointed(v, a)
    BY <2>0, SetAttackedCreatureSound
  <2> HIDE DEF a
  <2>3. Core(a) /\ Used(a, m) /\ (c # Nobody => Placed(a, c))
    BY <2>0, <2>2 DEF Sound, Repointed, Used, Placed
  <2>4. Sound(a, u, {}, {}) /\ Repointed(a, u)
    BY <2>0, <2>1, <2>3, SetFollowCreatureSound
  <2> QED BY <2>2, <2>4, SoundThen, RepointedOn
<1>2. CASE ~ (Placed(v, c) /\ InView(v.at[m], v.at[c]) /\ c \in v.targets[m])
  BY <1>0, <1>2, SoundSelf, RepointedSelf DEF SelectTarget
<1> QED BY <1>1, <1>2

\* What c's move took out of sight is let go.
LEMMA LetGoSound ==
  ASSUME NEW v, Core(v), NEW s \in Creatures, Used(v, s), NEW x \in Creatures \cup {Nobody}, NEW c,
         NEW u, u = LetGo(v, s, x, c)
  PROVE  /\ Mild(v, u, {}, {}) /\ Repointed(v, u) /\ u.follow[s] \in {v.follow[s], Nobody}
         /\ x # Nobody /\ c \in {s, x} /\ x \in Pointers(u, s) => InView(v.at[s], v.at[x])
<1>0. v \in State
  BY DEF Core, Loose
<1>1. CASE x # Nobody /\ c \in {s, x} /\ ~InView(v.at[s], v.at[x])
  <2>1. u = OnCreatureDisappear(v, s, x) /\ x \in Creatures
    BY <1>1 DEF LetGo
  <2> QED BY <2>1, OnCreatureDisappearSound
<1>2. CASE ~ (x # Nobody /\ c \in {s, x} /\ ~InView(v.at[s], v.at[x]))
  <2>1. u = v
    BY <1>2 DEF LetGo
  <2> QED BY <1>0, <1>2, <2>1, MildSelf, RepointedSelf
<1> QED BY <1>1, <1>2

\* When c has moved, s points to nobody that this took out of its view.
LEMMA LetGoBothSound ==
  ASSUME NEW v, Core(v), NEW s \in Creatures, Used(v, s), NEW c, NEW u,
         u = LetGoAttacked(LetGoFollowed(v, s, c), s, c)
  PROVE  /\ Mild(v, u, {}, {}) /\ Repointed(v, u)
         /\ \A y \in Pointers(u, s) : c \in {s, y} => InView(u.at[s], u.at[y])
<1> DEFINE a == LetGoFollowed(v, s, c)
<1>0. v \in State
  BY DEF Core, Loose
<1>1. /\ Mild(v, a, {}, {}) /\ Repointed(v, a) /\ a.follow[s] \in {v.follow[s], Nobody}
      /\ v.follow[s] # Nobody /\ c \in {s, v.follow[s]} /\ v.follow[s] \in Pointers(a, s)
           => InView(v.at[s], v.at[v.follow[s]])
  <2>1. v.follow[s] \in Creatures \cup {Nobody}
    BY <1>0 DEF State
  <2> QED BY <2>1, LetGoSound DEF LetGoFollowed
<1>u. u = LetGo(a, s, a.attacked[s], c)
  BY DEF LetGoAttacked
<1> HIDE DEF a
<1>2. Core(a) /\ Used(a, s) /\ a.attacked[s] \in Creatures \cup {Nobody}
  BY <1>1 DEF Mild, Sound, Repointed, Used, State
<1>3. /\ Mild(a, u, {}, {}) /\ Repointed(a, u)
      /\ a.attacked[s] # Nobody /\ c \in {s, a.attacked[s]} /\ a.attacked[s] \in Pointers(u, s)
           => InView(a.at[s], a.at[a.attacked[s]])
  BY <1>u, <1>2, LetGoSound
<1>4. ASSUME NEW y \in Pointers(u, s), c \in {s, y} PROVE InView(u.at[s], u.at[y])
  <2>1. y \in Pointers(a, s) /\ y # Nobody
    <3>0. Calm(a, u)
      BY <1>3 DEF Mild
    <3>1. Pointers(u, s) \subseteq Pointers(a, s)
      BY <3>0 DEF Calm
    <3>2. y # Nobody
      BY <1>4 DEF Pointers
    <3> QED BY <1>4, <3>1, <3>2
  <2>2. u.at = a.at /\ a.at = v.at
    BY <1>1, <1>3 DEF Repointed
  <2>3. CASE y = a.attacked[s]
    BY <1>3, <1>4, <2>1, <2>2, <2>3
  <2>4. CASE y = a.follow[s]
    <3>1. y = v.follow[s]
      BY <1>1, <2>1, <2>4
    <3> QED BY <1>1, <1>4, <2>1, <2>2, <3>1
  <2> QED BY <2>1, <2>3, <2>4 DEF Pointers
<1>5. Mild(v, u, {}, {}) /\ Repointed(v, u)
  BY <1>1, <1>3, MildThen, RepointedOn
<1> QED BY <1>4, <1>5

-----------------------------------------------------------------------------
(* Masters and summons *)

\* u differs from v in who commands whom, and in counters, only.
Regrouped(v, u) ==
  /\ u \in State /\ u.status = v.status /\ u.at = v.at /\ u.alive = v.alive
  /\ u.toRelease = v.toRelease
  /\ u.checked = v.checked /\ u.inVector = v.inVector /\ u.attacked = v.attacked
  /\ u.follow = v.follow
  /\ u.idle = v.idle /\ u.targets = v.targets /\ u.friends = v.friends
  /\ u.spawned = v.spawned /\ u.checkSpawnEvent = v.checkSpawnEvent /\ u.scheduled = v.scheduled
  /\ u.forgotten = v.forgotten /\ u.filled = v.filled

\* Another master for some; nobody else notices.
LEMMA RegroupedKeeps ==
  ASSUME NEW v, Core(v), NEW u, Regrouped(v, u), Exact(u), Lines(u), NEW Y,
         \A x \in Creatures \ Y : u.master[x] = v.master[x],
         \A x \in Creatures : /\ v.status[x] = "free" => u.summons[x] = {} /\ u.refs[x] = 0
                              /\ Placed(v, x) /\ u.master[x] # Nobody => Live(v, u.master[x])
  PROVE  Loose(u) /\ Keeps(v, u, {}, Y) /\ Stays(v, u)
<1>0. Loose(v) /\ v \in State /\ u \in State
  BY DEF Core, Loose, Regrouped
<1>1. Blank(u) /\ MastersLive(u)
  BY <1>0 DEF Loose, Blank, MastersLive, Live, Placed, Regrouped
<1>2. Loose(u)
  BY <1>0, <1>1 DEF Loose, Regrouped, Awake, Placed
<1>3. \A c \in Creatures : (Live(u, c) <=> Live(v, c)) /\ (Placed(u, c) <=> Placed(v, c))
  BY DEF Regrouped, Live, Placed
<1>4. KeepsLives(v, u) /\ KeepsMasters(v, u, Y) /\ KeepsSpawns(v, u) /\ KeepsMinded(v, u)
      /\ Stays(v, u)
  BY <1>0, <1>3, Hands DEF Regrouped, KeepsLives, KeepsMasters, KeepsSpawns, KeepsMinded, Minded,
     Awake, Stays, State
<1>5. KeepsKnown(v, u, {}, Y)
  BY Hands DEF KeepsKnown, Knows, Awake, Regrouped
<1>6. KeepsPointers(v, u)
  <2> SUFFICES ASSUME NEW x \in Creatures, Placed(u, x), NEW y \in Pointers(u, x)
               PROVE  y \in Pointers(v, x) /\ (Placed(v, y) => Placed(u, y))
    BY DEF KeepsPointers, Safe
  <2> QED BY DEF Pointers, Regrouped, Placed
<1> QED BY <1>2, <1>4, <1>5, <1>6 DEF Keeps

\* The counters are right when those of the regrouped are.
LEMMA RegroupedExact ==
  ASSUME NEW v, Core(v), NEW u, Regrouped(v, u),
         \A x \in Creatures : u.refs[x] = v.refs[x] + Count(u.master[x] # Nobody) - Count(v.master[x] # Nobody)
  PROVE  Exact(u)
<1> SUFFICES ASSUME NEW x \in Creatures PROVE u.refs[x] = References(u, x)
  BY DEF Exact
<1>1. v.refs[x] = References(v, x)
  BY DEF Core, Loose, Exact
<1>2. References(u, x) = Count(Placed(v, x)) + v.toRelease[x] + Count(v.inVector[x])
    + Cardinality(Within(Slots, v.spawned, x)) + Count(u.master[x] # Nobody)
    + Cardinality(Within(Creatures, v.targets, x)) + Cardinality(Within(Creatures, v.friends, x))
  BY ReferencesAre DEF Regrouped, Placed
<1>3. /\ Cardinality(Within(Slots, v.spawned, x)) \in Nat
      /\ Cardinality(Within(Creatures, v.targets, x)) \in Nat
      /\ Cardinality(Within(Creatures, v.friends, x)) \in Nat /\ v.toRelease[x] \in Nat
      /\ Count(Placed(v, x)) \in Nat /\ Count(u.master[x] # Nobody) \in Nat
      /\ Count(v.master[x] # Nobody) \in Nat
      /\ Count(v.inVector[x]) \in Nat
  BY WithinCounts, Hands DEF Core, Loose, State, Count
<1>4. u.refs[x] = v.refs[x] + Count(u.master[x] # Nobody) - Count(v.master[x] # Nobody)
  OBVIOUS
<1> QED BY <1>1, <1>2, <1>3, <1>4, ReferencesAre

\* c gets the master m.
HandedTo(v, u, c, m) ==
  /\ Regrouped(v, u)
  /\ u.master[c] = m /\ \A x \in Creatures \ {c} : u.master[x] = v.master[x]
  /\ \A x \in Creatures : u.summons[x] = IF x = m THEN v.summons[x] \cup {c} ELSE v.summons[x] \ {c}
  /\ \A x \in Creatures : u.refs[x] = v.refs[x] + Count(u.master[x] # Nobody) - Count(v.master[x] # Nobody)

\* Who may become c's master.
CanHand(v, c, m) ==
  m # Nobody => /\ Placed(v, m) /\ m # c /\ m # v.master[c]
                /\ m \in Monsters => v.master[m] = Nobody /\ v.summons[c] = {}

\* The references, the lines of masters and what others rely on survive a change of master.
LEMMA HandedToKeeps ==
  ASSUME NEW v, Core(v), NEW c \in Monsters, Used(v, c), NEW m \in Creatures \cup {Nobody},
         CanHand(v, c, m),
         NEW u, HandedTo(v, u, c, m)
  PROVE  Loose(u) /\ Keeps(v, u, {}, {c}) /\ Stays(v, u) /\ (m # Nobody => KeepsKnown(v, u, {}, {}))
<1>0. v \in State /\ Loose(v) /\ Lines(v) /\ Regrouped(v, u) /\ c \in Creatures
      /\ Nobody \notin Creatures
      /\ c \notin Players
  BY Hands DEF Core, Loose, HandedTo
<1>1. Exact(u)
  BY RegroupedExact DEF HandedTo
<1>2. Lines(u)
  <2>1. \A p \in Players : u.master[p] = Nobody
    BY <1>0, Hands DEF Lines, HandedTo
  <2>2. ASSUME NEW x \in Creatures, NEW y \in Creatures PROVE u.master[x] = y <=> x \in u.summons[y]
    <3>1. v.master[x] = y <=> x \in v.summons[y]
      BY <1>0 DEF Lines
    <3>2. u.summons[y] = IF y = m THEN v.summons[y] \cup {c} ELSE v.summons[y] \ {c}
      BY DEF HandedTo
    <3>3. CASE x = c
      BY <3>2, <3>3 DEF HandedTo
    <3>4. CASE x # c
      BY <3>1, <3>2, <3>4 DEF HandedTo
    <3> QED BY <3>3, <3>4
  <2>3. ASSUME NEW x \in Creatures, u.master[x] \in Monsters
        PROVE  u.master[u.master[x]] \notin Monsters
    <3> DEFINE y == u.master[x]
    <3>0. y \in Creatures /\ (y # c => u.master[y] = v.master[y]) /\ Nobody \notin Monsters
      BY <2>3, Hands DEF HandedTo
    <3>1. CASE x = c
      <4>1. y = m /\ m # Nobody
        BY <2>3, <3>0, <3>1 DEF HandedTo
      <4> QED BY <2>3, <3>0, <4>1 DEF CanHand
    <3>2. CASE x # c /\ y # c
      BY <1>0, <2>3, <3>0, <3>2 DEF Lines, HandedTo
    <3>3. CASE x # c /\ y = c
      <4>1. x \in v.summons[c] /\ u.master[y] = m
        BY <1>0, <3>3 DEF Lines, HandedTo
      <4> QED BY <3>0, <4>1 DEF CanHand
    <3> QED BY <3>1, <3>2, <3>3
  <2> QED BY <2>1, <2>2, <2>3 DEF Lines
<1>3. ASSUME NEW x \in Creatures, v.status[x] = "free" PROVE u.summons[x] = {} /\ u.refs[x] = 0
  <2>1. v.summons[x] = {} /\ v.refs[x] = 0 /\ x # m /\ x # c
    BY <1>0, <1>3 DEF Loose, Blank, CanHand, Placed, Used
  <2>2. u.summons[x] = {} /\ u.master[x] = v.master[x]
    BY <2>1 DEF HandedTo
  <2>3. u.refs[x] = 0 + Count(u.master[x] # Nobody) - Count(v.master[x] # Nobody)
    BY <2>1 DEF HandedTo
  <2> QED BY <2>2, <2>3 DEF Count
<1>4. ASSUME NEW x \in Creatures, Placed(v, x), u.master[x] # Nobody PROVE Live(v, u.master[x])
  BY <1>0, <1>4 DEF Loose, MastersLive, HandedTo, CanHand, Live
<1>5. Loose(u) /\ Keeps(v, u, {}, {c}) /\ Stays(v, u)
  BY <1>0, <1>1, <1>2, <1>3, <1>4, RegroupedKeeps DEF HandedTo
<1>6. ASSUME m # Nobody PROVE KeepsKnown(v, u, {}, {})
  <2> SUFFICES ASSUME NEW d \in Monsters, NEW p \in Players, Knows(v, d, p) PROVE Knows(u, d, p)
    BY DEF KeepsKnown
  <2>1. u.master[d] = Nobody => v.master[d] = Nobody
    BY <1>6, Hands DEF HandedTo
  <2> QED BY <1>0, <2>1 DEF Knows, Awake, Regrouped
<1> QED BY <1>5, <1>6

Regroup(v, ma, su, re) == [v EXCEPT !.master = ma, !.summons = su, !.refs = re]

\* Such a step, field by field.
LEMMA RegroupIs ==
  ASSUME NEW v \in State, NEW ma \in [Creatures -> Creatures \cup {Nobody}],
         NEW su \in [Creatures -> SUBSET Creatures], NEW re \in [Creatures -> Int],
         NEW u, u = Regroup(v, ma, su, re)
  PROVE  Regrouped(v, u) /\ u.master = ma /\ u.summons = su /\ u.refs = re
<1>1. Shaped(u)
  BY StateIs DEF Shaped, Regroup
<1>2. /\ u.master = ma /\ u.summons = su /\ u.refs = re
      /\ u.status = v.status /\ u.at = v.at /\ u.alive = v.alive /\ u.toRelease = v.toRelease
      /\ u.checked = v.checked /\ u.inVector = v.inVector /\ u.attacked = v.attacked
      /\ u.follow = v.follow
      /\ u.idle = v.idle /\ u.targets = v.targets /\ u.friends = v.friends
      /\ u.spawned = v.spawned /\ u.checkSpawnEvent = v.checkSpawnEvent /\ u.scheduled = v.scheduled
      /\ u.forgotten = v.forgotten /\ u.filled = v.filled
  BY StateIs DEF Shaped, Fields, Regroup
<1>3. Typed(u)
  BY <1>2, StateIs DEF Typed
<1> QED BY <1>1, <1>2, <1>3, StateIs DEF Regrouped

\* SetMaster before the old master's reference is dropped for good.
Handed(v, c, m) ==
  LET old == v.master[c]
      re == [x \in Creatures |-> IF x = c THEN v.refs[x] + Count(m # Nobody) - Count(old # Nobody) ELSE v.refs[x]]
      su == [x \in Creatures |-> IF x = m THEN v.summons[x] \cup {c} ELSE v.summons[x] \ {c}]
  IN  Regroup(v, [v.master EXCEPT ![c] = m], su, re)

\* A change of master, field by field.
LEMMA HandedIs ==
  ASSUME NEW v \in State, NEW c \in Creatures, NEW m \in Creatures \cup {Nobody}, NEW u,
         u = Handed(v, c, m)
  PROVE  HandedTo(v, u, c, m)
<1> DEFINE re == [x \in Creatures |->
                    IF x = c THEN v.refs[x] + Count(m # Nobody) - Count(v.master[c] # Nobody) ELSE v.refs[x]]
           su == [x \in Creatures |-> IF x = m THEN v.summons[x] \cup {c} ELSE v.summons[x] \ {c}]
           ma == [v.master EXCEPT ![c] = m]
<1>1. ma \in [Creatures -> Creatures \cup {Nobody}]
      /\ v.master \in [Creatures -> Creatures \cup {Nobody}]
  BY StateIs DEF Typed
<1>2. su \in [Creatures -> SUBSET Creatures]
  BY StateIs DEF Typed
<1>3. re \in [Creatures -> Int] /\ v.refs \in [Creatures -> Int]
  BY StateIs DEF Typed, Count
<1>4. u = Regroup(v, ma, su, re)
  BY DEF Handed
<1>5. ma[c] = m /\ \A x \in Creatures \ {c} : ma[x] = v.master[x]
  BY <1>1
<1>6. \A x \in Creatures : su[x] = IF x = m THEN v.summons[x] \cup {c} ELSE v.summons[x] \ {c}
  OBVIOUS
<1>7. \A x \in Creatures : re[x] = v.refs[x] + Count(ma[x] # Nobody) - Count(v.master[x] # Nobody)
  BY <1>3, <1>5 DEF Count
<1> HIDE DEF re, su, ma
<1>8. Regrouped(v, u) /\ u.master = ma /\ u.summons = su /\ u.refs = re
  BY <1>1, <1>2, <1>3, <1>4, RegroupIs
<1> QED BY <1>5, <1>6, <1>7, <1>8 DEF HandedTo

\* Creature::setMaster, of which the old master's reference may be the last.
LEMMA SetMasterIs ==
  ASSUME NEW v, Core(v), NEW c \in Monsters, Used(v, c), NEW m \in Creatures \cup {Nobody},
         CanHand(v, c, m),
         NEW u, u = SetMaster(v, c, m)
  PROVE  u = IF v.master[c] = Nobody THEN Handed(v, c, m) ELSE Swept(Handed(v, c, m))
<1> DEFINE old == v.master[c]
           re == [x \in Creatures |->
                    IF x = c THEN v.refs[x] + Count(m # Nobody) - Count(old # Nobody) ELSE v.refs[x]]
           su == [x \in Creatures |-> IF x = m THEN v.summons[x] \cup {c} ELSE v.summons[x] \ {c}]
           ma == [v.master EXCEPT ![c] = m]
<1>0. v \in State /\ Lines(v) /\ c \in Creatures /\ Nobody \notin Creatures
  BY Hands DEF Core, Loose
<1>t. /\ v.refs \in [Creatures -> Int] /\ v.summons \in [Creatures -> SUBSET Creatures]
      /\ v.master \in [Creatures -> Creatures \cup {Nobody}] /\ Shaped(v)
  BY <1>0, StateIs DEF Typed
<1>h. Handed(v, c, m) = [v EXCEPT !.master = ma, !.summons = su, !.refs = re]
  BY DEF Handed, Regroup
<1>1. /\ \A x \in Creatures : c \in v.summons[x] <=> x = old
      /\ old # Nobody => old \in Creatures
  BY <1>0, <1>t DEF Lines
<1>2. m # Nobody => m # old
  BY DEF CanHand
<1>3. CASE m = Nobody /\ old = Nobody
  <2>1. u = [v EXCEPT !.master[c] = m]
    BY <1>3 DEF SetMaster
  <2>2. su = v.summons
    <3>1. \A x \in Creatures : su[x] = v.summons[x]
      BY <1>0, <1>1, <1>3
    <3> QED BY <3>1, <1>t
  <2>3. re = v.refs
    BY <1>3, <1>t DEF Count
  <2> HIDE DEF su, re
  <2>4. u = [v EXCEPT !.master = ma, !.summons = su, !.refs = re]
    BY <1>t, <2>1, <2>2, <2>3 DEF Shaped, Fields
  <2> QED BY <1>3, <1>h, <2>4
<1>4. CASE m # Nobody /\ old = Nobody
  <2>1. u = [v EXCEPT !.summons[m] = @ \cup {c}, !.refs[c] = @ + 1, !.master[c] = m]
    BY <1>4, <1>t DEF SetMaster, IncrementReferenceCounter, Shaped, Fields
  <2>2. su = [v.summons EXCEPT ![m] = @ \cup {c}]
    <3>1. \A x \in Creatures : su[x] = IF x = m THEN v.summons[m] \cup {c} ELSE v.summons[x]
      BY <1>0, <1>1, <1>4
    <3> QED BY <3>1, <1>4, <1>t
  <2>3. re = [v.refs EXCEPT ![c] = @ + 1]
    BY <1>0, <1>4, <1>t DEF Count
  <2> HIDE DEF su, re
  <2>4. u = [v EXCEPT !.master = ma, !.summons = su, !.refs = re]
    BY <1>t, <2>1, <2>2, <2>3 DEF Shaped, Fields
  <2> QED BY <1>4, <1>h, <2>4
<1>5. CASE m = Nobody /\ old # Nobody
  <2>1. u = Swept([v EXCEPT !.master[c] = m, !.summons[old] = @ \ {c}, !.refs[c] = @ - 1])
    BY <1>1, <1>5, <1>t DEF SetMaster, DecrementReferenceCounter, Shaped, Fields
  <2>2. su = [v.summons EXCEPT ![old] = @ \ {c}]
    BY <1>0, <1>1, <1>5, <1>t
  <2>3. re = [v.refs EXCEPT ![c] = @ - 1]
    BY <1>0, <1>5, <1>t DEF Count
  <2> HIDE DEF su, re
  <2>4. [v EXCEPT !.master[c] = m, !.summons[old] = @ \ {c}, !.refs[c] = @ - 1]
        = [v EXCEPT !.master = ma, !.summons = su, !.refs = re]
    BY <1>t, <2>2, <2>3 DEF Shaped, Fields
  <2> QED BY <1>5, <1>h, <2>1, <2>4
<1>6. CASE m # Nobody /\ old # Nobody
  <2> DEFINE raw == [v EXCEPT !.summons = [[v.summons EXCEPT ![m] = @ \cup {c}] EXCEPT ![old] = @ \ {c}],
                              !.refs = [[v.refs EXCEPT ![c] = @ + 1] EXCEPT ![c] = @ - 1], !.master[c] = m]
  <2>1. u = Swept(raw)
    BY <1>1, <1>2, <1>6, <1>t DEF SetMaster, IncrementReferenceCounter, DecrementReferenceCounter,
       Shaped, Fields
  <2>2. su = [[v.summons EXCEPT ![m] = @ \cup {c}] EXCEPT ![old] = @ \ {c}]
    <3> DEFINE b == [v.summons EXCEPT ![m] = @ \cup {c}]
    <3>1. \A x \in Creatures : su[x] = IF x = m THEN v.summons[m] \cup {c}
                                        ELSE IF x = old THEN v.summons[old] \ {c} ELSE v.summons[x]
      BY <1>0, <1>1, <1>2, <1>6
    <3>2. b \in [Creatures -> SUBSET Creatures] /\ \A x \in Creatures : b[x] = IF x = m THEN v.summons[m] \cup {c} ELSE v.summons[x]
      BY <1>0, <1>6, <1>t
    <3> HIDE DEF b
    <3>3. [b EXCEPT ![old] = @ \ {c}] = su
      <4> DEFINE e == [b EXCEPT ![old] = @ \ {c}]
      <4>1. e \in [Creatures -> SUBSET Creatures] /\ old \in Creatures /\ old # m
        BY <1>1, <1>2, <1>6, <3>2
      <4>2. \A x \in Creatures : e[x] = IF x = old THEN b[old] \ {c} ELSE b[x]
        BY <3>2
      <4> HIDE DEF e
      <4>3. \A x \in Creatures : e[x] = su[x]
        BY <4>1, <4>2, <3>1, <3>2
      <4> QED BY <4>1, <4>3 DEF e
    <3> QED BY <3>3 DEF b
  <2>3. re = [[v.refs EXCEPT ![c] = @ + 1] EXCEPT ![c] = @ - 1]
    BY <1>0, <1>6, <1>t DEF Count
  <2> HIDE DEF su, re
  <2>4. raw = [v EXCEPT !.master = ma, !.summons = su, !.refs = re]
    <3>1. raw = [v EXCEPT !.summons = su, !.refs = re, !.master[c] = m]
      BY <2>2, <2>3
    <3> HIDE DEF raw
    <3> QED BY <1>t, <3>1 DEF Shaped, Fields
  <2> QED BY <1>6, <1>h, <2>1, <2>4
<1> QED BY <1>3, <1>4, <1>5, <1>6

\* c gets the master m, or none.
LEMMA SetMasterSound ==
  ASSUME NEW v, Core(v), NEW c \in Monsters, Used(v, c), NEW m \in Creatures \cup {Nobody},
         CanHand(v, c, m),
         NEW u, u = SetMaster(v, c, m)
  PROVE  /\ Sound(v, u, {}, {c}) /\ (Placed(v, c) => u.master[c] = m)
         /\ m # Nobody => KeepsKnown(v, u, {}, {})
         /\ m = Nobody => Calm(v, u)
<1> DEFINE h == Handed(v, c, m)
<1>0. v \in State /\ Loose(v) /\ c \in Creatures
  BY Hands DEF Core, Loose
<1>1. u = IF v.master[c] = Nobody THEN h ELSE Swept(h)
  BY SetMasterIs
<1>2. HandedTo(v, h, c, m)
  BY <1>0, HandedIs
<1> HIDE DEF h
<1>3. Loose(h) /\ Keeps(v, h, {}, {c}) /\ Stays(v, h) /\ (m # Nobody => KeepsKnown(v, h, {}, {}))
  BY <1>2, HandedToKeeps
<1>4. h.master[c] = m /\ Regrouped(v, h) /\ h.status = v.status
  BY <1>2 DEF HandedTo, Regrouped
<1>5. m = Nobody => Calm(v, h)
  <2> SUFFICES ASSUME m = Nobody, NEW x \in Creatures
               PROVE  /\ v.alive[x] => h.alive[x]
                      /\ Pointers(h, x) \subseteq Pointers(v, x)
                      /\ h.summons[x] \subseteq v.summons[x]
    BY DEF Calm
  <2>1. h.alive = v.alive /\ h.attacked = v.attacked /\ h.follow = v.follow
    BY <1>4 DEF Regrouped
  <2>2. x # m
    BY Hands
  <2>3. h.summons[x] = v.summons[x] \ {c}
    BY <1>2, <2>2 DEF HandedTo
  <2> QED BY <2>1, <2>3 DEF Pointers
<1>6. CASE v.master[c] = Nobody
  <2>1. u = h
    BY <1>1, <1>6
  <2>2. \A x \in Creatures : h.refs[x] >= v.refs[x]
    <3> SUFFICES ASSUME NEW x \in Creatures PROVE h.refs[x] >= v.refs[x]
      OBVIOUS
    <3>1. h.refs[x] = v.refs[x] + Count(h.master[x] # Nobody) - Count(v.master[x] # Nobody)
      BY <1>2 DEF HandedTo
    <3>2. x # c => h.master[x] = v.master[x]
      BY <1>2 DEF HandedTo
    <3>3. v.refs[x] \in Int
      BY <1>0, StateIs DEF Typed
    <3> QED BY <1>6, <3>1, <3>2, <3>3 DEF Count
  <2>3. Core(h)
    BY <1>3, <1>4, <2>2, CoreGrows
  <2> QED BY <1>3, <1>4, <1>5, <2>1, <2>3 DEF Sound
<1>7. CASE v.master[c] # Nobody
  <2>1. u = Swept(h)
    BY <1>1, <1>7
  <2>2. Sound(v, u, {}, {c}) /\ Sound(h, u, {}, {}) /\ Calm(h, u)
    BY <1>0, <1>3, <2>1, SweptKeeps
  <2>3. Placed(v, c) => u.master[c] = m
    <3> SUFFICES ASSUME Placed(v, c) PROVE u.master[c] = m
      OBVIOUS
    <3>1. Placed(u, c)
      BY <1>0, <2>2 DEF Sound, Stays
    <3> QED BY <1>0, <1>4, <2>2, <3>1 DEF Sound, Keeps, KeepsMasters
  <2>4. ASSUME m # Nobody PROVE KeepsKnown(v, u, {}, {})
    <3> SUFFICES ASSUME NEW d \in Monsters, NEW p \in Players, Placed(u, d), u.alive[d],
                        Placed(u, p), Knows(v, d, p)
                 PROVE  Knows(u, d, p)
      BY DEF KeepsKnown
    <3>1. Placed(h, d) /\ h.alive[d] /\ Placed(h, p)
      BY <2>2, Hands DEF Sound, Keeps, KeepsLives
    <3>2. Knows(h, d, p)
      BY <1>3, <2>4, <3>1 DEF KeepsKnown
    <3> QED BY <2>2, <3>2 DEF Sound, Keeps, KeepsKnown
  <2>5. m = Nobody => Calm(v, u)
    BY <1>5, <2>2, CalmOn
  <2> QED BY <2>2, <2>3, <2>4, <2>5
<1> QED BY <1>6, <1>7

\* The spawn is woken for a monster of its.
LEMMA StartSpawnCheckSound ==
  ASSUME NEW v, Core(v), NEW m, NEW u, u = StartSpawnCheck(v, m)
  PROVE  /\ Mild(v, u, {}, {}) /\ u.targets = v.targets /\ u.master = v.master
         /\ u.attacked = v.attacked
         /\ u.follow = v.follow /\ u.status = v.status /\ u.alive = v.alive
         /\ \A s \in Slots : m \in v.spawned[s] => u.checkSpawnEvent
<1>0. v \in State /\ Loose(v)
  BY DEF Core, Loose
<1>1. CASE \E s \in Slots : m \in v.spawned[s]
  <2>1. u = [v EXCEPT !.checkSpawnEvent = TRUE]
    BY <1>1 DEF StartSpawnCheck
  <2>2. Shaped(u)
    BY <1>0, <2>1, StateIs DEF Shaped
  <2>3. /\ u.checkSpawnEvent = TRUE
        /\ u.status = v.status /\ u.at = v.at /\ u.alive = v.alive /\ u.refs = v.refs
        /\ u.toRelease = v.toRelease
        /\ u.checked = v.checked /\ u.inVector = v.inVector /\ u.master = v.master
        /\ u.summons = v.summons
        /\ u.attacked = v.attacked /\ u.follow = v.follow /\ u.idle = v.idle
        /\ u.targets = v.targets
        /\ u.friends = v.friends /\ u.spawned = v.spawned /\ u.scheduled = v.scheduled
        /\ u.forgotten = v.forgotten /\ u.filled = v.filled
    BY <1>0, <2>1, StateIs DEF Shaped, Fields
  <2>4. u \in State
    <3>1. Typed(u)
      BY <1>0, <2>3, StateIs DEF Typed
    <3> QED BY <2>2, <3>1, StateIs
  <2>5. \A c \in Creatures : (Live(u, c) <=> Live(v, c)) /\ (Placed(u, c) <=> Placed(v, c))
                             /\ Pointers(u, c) = Pointers(v, c) /\ (Awake(u, c) <=> Awake(v, c))
    BY <2>3 DEF Live, Placed, Pointers, Awake
  <2>6. Exact(u) /\ Lines(u) /\ Blank(u) /\ MastersLive(u)
    <3>1. \A c \in Creatures : References(u, c) = References(v, c)
      BY <2>3 DEF References, Placed
    <3>2. Exact(u)
      BY <1>0, <2>3, <3>1 DEF Loose, Exact
    <3>3. Lines(u)
      BY <1>0, <2>3 DEF Loose, Lines
    <3>4. Blank(u)
      BY <1>0, <2>3 DEF Loose, Blank
    <3>5. MastersLive(u)
      <4> SUFFICES ASSUME NEW x \in Creatures, Placed(u, x), u.master[x] # Nobody
                   PROVE  Live(u, u.master[x])
        BY DEF MastersLive
      <4>1. Placed(v, x) /\ v.master[x] # Nobody /\ v.master[x] \in Creatures
        BY <1>0, <2>3, <2>5 DEF State
      <4> QED BY <1>0, <2>3, <2>5, <4>1 DEF Loose, MastersLive
    <3> QED BY <3>2, <3>3, <3>4, <3>5
  <2>7. Core(u)
    BY <1>0, <2>3, <2>4, <2>5, <2>6 DEF Core, Loose
  <2>8. KeepsLives(v, u) /\ KeepsPointers(v, u) /\ KeepsKnown(v, u, {}, {})
        /\ KeepsMasters(v, u, {})
        /\ KeepsMinded(v, u) /\ Stays(v, u) /\ Calm(v, u)
    <3>1. KeepsLives(v, u) /\ KeepsMasters(v, u, {}) /\ Stays(v, u) /\ Calm(v, u)
      BY <2>3, <2>5, Hands DEF KeepsLives, KeepsMasters, Stays, Calm
    <3>2. KeepsKnown(v, u, {}, {})
      BY <2>3, <2>5, Hands DEF KeepsKnown, Knows
    <3>3. KeepsMinded(v, u)
      BY <2>3, <2>5 DEF KeepsMinded, Minded
    <3>4. KeepsPointers(v, u)
      BY <2>3, <2>5 DEF KeepsPointers, Safe, Placed
    <3> QED BY <3>1, <3>2, <3>3, <3>4
  <2>9. KeepsSpawns(v, u)
    BY <2>3 DEF KeepsSpawns
  <2> QED BY <2>3, <2>7, <2>8, <2>9 DEF Mild, Sound, Keeps
<1>2. CASE ~ \E s \in Slots : m \in v.spawned[s]
  <2>1. u = v
    BY <1>2 DEF StartSpawnCheck
  <2> QED BY <1>2, <2>1, MildSelf
<1> QED BY <1>1, <1>2

-----------------------------------------------------------------------------
(* Death *)

Struck(v, c) == [v EXCEPT !.alive[c] = FALSE]

\* c is alive again.
Healed(v, c) == [v EXCEPT !.alive[c] = TRUE]

\* A monster that is alive is awake.
Alert(v, c) == Placed(v, c) /\ c \in Monsters /\ v.alive[c] => Awake(v, c)

\* c dies, or is healed; a monster that dies is awake.
LEMMA AliveSound ==
  ASSUME NEW v, Core(v), NEW c \in Creatures, Used(v, c), Alert(v, c),
         NEW u, u = Struck(v, c) \/ (c \in Players /\ u = Healed(v, c))
  PROVE  /\ Sound(v, u, {}, {}) /\ u.status = v.status /\ u.master = v.master
         /\ u.summons = v.summons
         /\ u.attacked = v.attacked /\ u.follow = v.follow
         /\ (u.alive[c] => c \in Players) /\ (u = Struck(v, c) => ~u.alive[c])
         /\ \A x \in Creatures \ {c} : u.alive[x] <=> v.alive[x]
<1>0. v \in State /\ Loose(v)
  BY DEF Core, Loose
<1>1. Shaped(u)
  BY <1>0, StateIs DEF Shaped, Struck, Healed
<1>2. /\ u = Struck(v, c) => u.alive = [v.alive EXCEPT ![c] = FALSE]
      /\ u = Healed(v, c) => u.alive = [v.alive EXCEPT ![c] = TRUE]
      /\ u.status = v.status /\ u.at = v.at /\ u.refs = v.refs /\ u.toRelease = v.toRelease
      /\ u.checked = v.checked /\ u.inVector = v.inVector /\ u.master = v.master
      /\ u.summons = v.summons
      /\ u.attacked = v.attacked /\ u.follow = v.follow /\ u.idle = v.idle /\ u.targets = v.targets
      /\ u.friends = v.friends /\ u.spawned = v.spawned /\ u.checkSpawnEvent = v.checkSpawnEvent
      /\ u.scheduled = v.scheduled /\ u.forgotten = v.forgotten /\ u.filled = v.filled
  BY <1>0, StateIs DEF Shaped, Fields, Struck, Healed
<1>3. u \in State
  <2>1. Typed(v)
    BY <1>0, StateIs
  <2>2. u.alive \in [Creatures -> BOOLEAN]
    BY <1>2, <2>1 DEF Typed
  <2>3. Typed(u)
    BY <1>2, <2>1, <2>2 DEF Typed
  <2> QED BY <2>3, <1>1, StateIs
<1>4. /\ (u.alive[c] => c \in Players) /\ (u = Struck(v, c) => ~u.alive[c])
      /\ \A x \in Creatures \ {c} : u.alive[x] <=> v.alive[x]
  BY <1>0, <1>2, StateIs DEF Typed
<1>5. \A x \in Creatures : (Live(u, x) <=> Live(v, x)) /\ (Placed(u, x) <=> Placed(v, x))
                           /\ Pointers(u, x) = Pointers(v, x) /\ (Awake(u, x) <=> Awake(v, x))
  BY <1>2 DEF Live, Placed, Pointers, Awake
<1>6. Exact(u)
  <2>1. \A x \in Creatures : References(u, x) = References(v, x)
    BY <1>2 DEF References, Placed
  <2> QED BY <1>0, <1>2, <2>1 DEF Loose, Exact
<1>7. Lines(u)
  BY <1>0, <1>2 DEF Loose, Lines
<1>8. Blank(u)
  BY <1>0, <1>2, <1>4 DEF Loose, Blank, Used
<1>9. MastersLive(u)
  <2> SUFFICES ASSUME NEW x \in Creatures, Placed(u, x), u.master[x] # Nobody
               PROVE  Live(u, u.master[x])
    BY DEF MastersLive
  <2>1. Placed(v, x) /\ v.master[x] # Nobody /\ v.master[x] \in Creatures
    BY <1>0, <1>2, <1>5 DEF State
  <2> QED BY <1>0, <1>2, <1>5, <2>1 DEF Loose, MastersLive
<1>10. Core(u)
  BY <1>0, <1>2, <1>3, <1>5, <1>6, <1>7, <1>8, <1>9 DEF Core, Loose
<1>11. KeepsLives(v, u) /\ KeepsMasters(v, u, {}) /\ Stays(v, u)
  <2>1. \A m \in Monsters : u.alive[m] => v.alive[m]
    BY <1>4, Hands
  <2> QED BY <1>2, <1>5, <2>1 DEF KeepsLives, KeepsMasters, Stays
<1>12. KeepsKnown(v, u, {}, {})
  BY <1>2, <1>5, Hands DEF KeepsKnown, Knows
<1>13. KeepsMinded(v, u)
  <2> SUFFICES ASSUME NEW x \in Creatures, Placed(u, x), Minded(v, x), x \in Players \/ ~u.alive[x]
               PROVE  Awake(v, x)
    BY <1>5 DEF KeepsMinded, Minded
  <2>1. Placed(v, x)
    BY <1>5
  <2>2. CASE x = c
    BY <2>1, <2>2 DEF Minded, Creatures, Alert
  <2>3. CASE x # c
    BY <1>4, <2>3 DEF Minded
  <2> QED BY <2>2, <2>3
<1>14. KeepsPointers(v, u)
  BY <1>2, <1>5 DEF KeepsPointers, Safe, Placed
<1>15. KeepsSpawns(v, u)
  BY <1>2, <1>5 DEF KeepsSpawns, Placed
<1> QED BY <1>2, <1>4, <1>10, <1>11, <1>12, <1>13, <1>14, <1>15 DEF Sound, Keeps

\* A creature that is hit to death stays in the check list.
LEMMA ChangeHealthSound ==
  ASSUME NEW v, Core(v), NEW c \in Creatures, Used(v, c), NEW u, u = ChangeHealth(v, c)
  PROVE  /\ Sound(v, u, {}, {}) /\ ~u.alive[c] /\ \A x \in Creatures : u.alive[x] => v.alive[x]
         /\ u.status = v.status
<1> DEFINE a == IF c \in Monsters THEN SetIdle(v, c, FALSE) ELSE v
<1>1. u = Struck(a, c)
  BY DEF ChangeHealth, Struck
<1>2. /\ Sound(v, a, {}, {}) /\ a.status = v.status /\ a.alive = v.alive
      /\ Placed(a, c) /\ c \in Monsters /\ a.alive[c] => Awake(a, c)
  <2>1. CASE c \in Monsters /\ Placed(v, c)
    BY <2>1, WakeSound DEF Mild
  <2>2. CASE c \notin Monsters
    BY <2>2, SoundSelf
  <2>3. CASE c \in Monsters /\ ~Placed(v, c)
    <3>1. v.status[c] = "removed"
      BY <2>3 DEF Core, Loose, State, Placed, Used
    <3>2. a = v
      BY <2>3, <3>1 DEF SetIdle
    <3> QED BY <2>3, <3>2, SoundSelf
  <2> QED BY <2>1, <2>2, <2>3
<1> HIDE DEF a
<1>3. Core(a) /\ Used(a, c)
  BY <1>2 DEF Sound, Used
<1>4. /\ Sound(a, u, {}, {}) /\ u.status = a.status
      /\ ~u.alive[c] /\ \A x \in Creatures \ {c} : u.alive[x] <=> a.alive[x]
  <2>1. Alert(a, c)
    BY <1>2 DEF Alert
  <2> QED BY <1>1, <1>2, <1>3, <2>1, AliveSound
<1>5. Sound(v, u, {}, {})
  BY <1>2, <1>4, SoundThen
<1> QED BY <1>2, <1>4, <1>5

\* Creature::removeMaster of all summons.
LEMMA ReleasedSound ==
  ASSUME NEW v, Core(v), NEW m \in Creatures, NEW u, u = Released(v, m)
  PROVE  /\ Sound(v, u, {}, v.summons[m]) /\ Calm(v, u) /\ u.summons[m] = {}
         /\ \A c \in v.summons[m] : Placed(u, c) => u.master[c] = Nobody
<1>0. v \in State /\ Loose(v) /\ Lines(v) /\ Nobody \notin Creatures
  BY Hands DEF Core, Loose
<1> DEFINE re == [c \in Creatures |-> v.refs[c] - Count(c \in v.summons[m] /\ v.master[c] # Nobody)]
           su == [v.summons EXCEPT ![m] = {}]
           ma == [c \in Creatures |-> IF c \in v.summons[m] THEN Nobody ELSE v.master[c]]
           h == Regroup(v, ma, su, re)
<1>t. /\ v.refs \in [Creatures -> Int] /\ v.summons \in [Creatures -> SUBSET Creatures]
      /\ v.master \in [Creatures -> Creatures \cup {Nobody}]
  BY <1>0, StateIs DEF Typed
<1>1. u = Swept(h)
  BY DEF Released, Regroup
<1>2. ma \in [Creatures -> Creatures \cup {Nobody}]
  BY <1>t
<1>3. su \in [Creatures -> SUBSET Creatures]
  BY <1>t
<1>4. re \in [Creatures -> Int]
  BY <1>t DEF Count
<1>5. \A c \in Creatures : ma[c] = IF c \in v.summons[m] THEN Nobody ELSE v.master[c]
  OBVIOUS
<1>6. \A c \in Creatures : su[c] = IF c = m THEN {} ELSE v.summons[c]
  BY <1>t
<1>7. \A c \in Creatures : re[c] = v.refs[c] + Count(ma[c] # Nobody) - Count(v.master[c] # Nobody)
  BY <1>t, <1>5 DEF Count
<1> HIDE DEF re, su, ma
<1>8. Regrouped(v, h) /\ h.master = ma /\ h.summons = su /\ h.refs = re
  BY <1>0, <1>2, <1>3, <1>4, RegroupIs
<1> HIDE DEF h
<1>9. Exact(h)
  BY <1>7, <1>8, RegroupedExact
<1>10. \A x \in Creatures : x \in v.summons[m] <=> v.master[x] = m
  BY <1>0 DEF Lines
<1>11. Lines(h)
  <2>1. \A p \in Players : h.master[p] = Nobody
    BY <1>0, <1>5, <1>8, Hands DEF Lines
  <2>2. \A x, y \in Creatures : h.master[x] = y <=> x \in h.summons[y]
    BY <1>0, <1>5, <1>6, <1>8, <1>10 DEF Lines
  <2>3. ASSUME NEW x \in Creatures, h.master[x] \in Monsters
        PROVE  h.master[h.master[x]] \notin Monsters
    <3>1. v.master[x] = h.master[x] /\ h.master[x] \in Creatures
      BY <1>5, <1>8, <2>3, Hands
    <3>2. h.master[h.master[x]] \in {Nobody, v.master[v.master[x]]}
      BY <1>5, <1>8, <3>1
    <3> QED BY <1>0, <2>3, <3>1, <3>2, Hands DEF Lines
  <2> QED BY <2>1, <2>2, <2>3 DEF Lines
<1>12. ASSUME NEW x \in Creatures
       PROVE  /\ v.status[x] = "free" => h.summons[x] = {} /\ h.refs[x] = 0
              /\ Placed(v, x) /\ h.master[x] # Nobody => Live(v, h.master[x])
  <2>1. ASSUME v.status[x] = "free" PROVE h.summons[x] = {} /\ h.refs[x] = 0
    <3>1. v.refs[x] = 0 /\ v.summons[x] = {}
      BY <1>0, <2>1 DEF Loose, Blank
    <3>2. v.master[x] = Nobody
      BY <1>0, <2>1, HeldIsUsed DEF Used
    <3>3. ma[x] = Nobody
      BY <1>5, <3>2
    <3> QED BY <1>6, <1>7, <1>8, <3>1, <3>2, <3>3 DEF Count
  <2>2. Placed(v, x) /\ h.master[x] # Nobody => Live(v, h.master[x])
    BY <1>0, <1>5, <1>8 DEF Loose, MastersLive
  <2> QED BY <2>1, <2>2
<1>13. Loose(h) /\ Keeps(v, h, {}, v.summons[m]) /\ Stays(v, h)
  <2>1. \A x \in Creatures \ v.summons[m] : h.master[x] = v.master[x]
    BY <1>5, <1>8
  <2> QED BY <1>8, <1>9, <1>11, <1>12, <2>1, RegroupedKeeps
<1>14. Calm(v, h)
  <2>1. h.alive = v.alive /\ h.attacked = v.attacked /\ h.follow = v.follow
    BY <1>8 DEF Regrouped
  <2>2. \A c \in Creatures : h.summons[c] \subseteq v.summons[c]
    BY <1>6, <1>8
  <2> QED BY <2>1, <2>2 DEF Calm, Pointers
<1>15. Sound(v, u, {}, v.summons[m]) /\ Sound(h, u, {}, {}) /\ Calm(h, u)
  BY <1>0, <1>1, <1>13, SweptKeeps
<1>16. Calm(v, u)
  BY <1>14, <1>15, CalmOn
<1>17. u.summons[m] = {}
  <2>1. h.summons[m] = {}
    BY <1>6, <1>8
  <2> QED BY <2>1, <1>15 DEF Calm
<1>18. ASSUME NEW c \in v.summons[m], Placed(u, c) PROVE u.master[c] = Nobody
  <2>1. c \in Creatures
    BY <1>t
  <2>2. h.master[c] = Nobody
    BY <1>5, <1>8, <2>1
  <2> QED BY <1>15, <1>18, <2>1, <2>2 DEF Sound, Keeps, KeepsMasters
<1> QED BY <1>15, <1>16, <1>17, <1>18

-----------------------------------------------------------------------------
(* Removing creatures *)

\* The end of Game::removeCreature, field by field.
LEMMA TakenOutIs ==
  ASSUME NEW v \in State, NEW c \in Creatures, NEW u, u = TakenOut(v, c)
  PROVE  /\ u \in State
         /\ u.at = v.at /\ u.alive = v.alive /\ u.refs = v.refs /\ u.inVector = v.inVector
         /\ u.master = v.master /\ u.summons = v.summons /\ u.idle = v.idle /\ u.targets = v.targets
         /\ u.friends = v.friends /\ u.spawned = v.spawned /\ u.checkSpawnEvent = v.checkSpawnEvent
         /\ u.scheduled = v.scheduled /\ u.forgotten = v.forgotten /\ u.filled = v.filled
         /\ u.status[c] = "removed" /\ u.attacked[c] = Nobody /\ u.follow[c] = Nobody
         /\ u.toRelease[c] = v.toRelease[c] + 1 /\ ~Awake(u, c)
         /\ \A x \in Creatures \ {c} :
              /\ u.status[x] = v.status[x] /\ u.attacked[x] = v.attacked[x]
              /\ u.follow[x] = v.follow[x]
              /\ u.toRelease[x] = v.toRelease[x] /\ (u.checked[x] <=> v.checked[x])
<1>1. u = [v EXCEPT !.status[c] = "removed", !.attacked[c] = Nobody, !.follow[c] = Nobody,
                    !.toRelease[c] = @ + 1, !.checked[c] = @ /\ ~v.inVector[c]]
  BY StateIs DEF TakenOut, RemoveCreatureCheck, ReleaseCreature, Shaped, Fields
<1>2. Shaped(u)
  BY <1>1, StateIs DEF Shaped
<1>3. /\ u.status = [v.status EXCEPT ![c] = "removed"]
      /\ u.attacked = [v.attacked EXCEPT ![c] = Nobody]
      /\ u.follow = [v.follow EXCEPT ![c] = Nobody]
      /\ u.toRelease = [v.toRelease EXCEPT ![c] = @ + 1]
      /\ u.checked = [v.checked EXCEPT ![c] = @ /\ ~v.inVector[c]]
  BY <1>1, StateIs DEF Shaped, Fields
<1>4. /\ u.at = v.at /\ u.alive = v.alive /\ u.refs = v.refs /\ u.inVector = v.inVector
      /\ u.master = v.master /\ u.summons = v.summons /\ u.idle = v.idle /\ u.targets = v.targets
      /\ u.friends = v.friends /\ u.spawned = v.spawned /\ u.checkSpawnEvent = v.checkSpawnEvent
      /\ u.scheduled = v.scheduled /\ u.forgotten = v.forgotten /\ u.filled = v.filled
  BY <1>1, StateIs DEF Shaped, Fields
<1>5. Typed(v)
  BY StateIs
<1>6. /\ u.status \in [Creatures -> {"free", "placed", "removed"}]
      /\ u.attacked \in [Creatures -> Creatures \cup {Nobody}]
      /\ u.follow \in [Creatures -> Creatures \cup {Nobody}] /\ u.toRelease \in [Creatures -> Nat]
  BY <1>3, <1>5 DEF Typed
<1>7. u.checked \in [Creatures -> BOOLEAN]
  BY <1>3, <1>5 DEF Typed
<1>8. u \in State
  <2>1. Typed(u)
    BY <1>4, <1>5, <1>6, <1>7 DEF Typed
  <2> QED BY <1>2, <2>1, StateIs
<1>9. u.status[c] = "removed" /\ u.attacked[c] = Nobody /\ u.follow[c] = Nobody
      /\ u.toRelease[c] = v.toRelease[c] + 1
  BY <1>3, <1>5 DEF Typed
<1>10. ~Awake(u, c)
  BY <1>3, <1>4, <1>5 DEF Typed, Awake
<1>11. \A x \in Creatures \ {c} :
              /\ u.status[x] = v.status[x] /\ u.attacked[x] = v.attacked[x]
              /\ u.follow[x] = v.follow[x]
              /\ u.toRelease[x] = v.toRelease[x] /\ (u.checked[x] <=> v.checked[x])
  BY <1>3, <1>5 DEF Typed
<1> QED BY <1>4, <1>8, <1>9, <1>10, <1>11

\* c is taken out of the world.
LEMMA TakenOutSound ==
  ASSUME NEW v, Core(v), NEW c \in Creatures, Placed(v, c),
         \A x \in Creatures \ {c} : Placed(v, x) /\ c \in Pointers(v, x) => ~Safe(v, x, c),
         \A s \in Slots : c \in v.spawned[s] => v.checkSpawnEvent,
         NEW u, u = TakenOut(v, c)
  PROVE  /\ Core(u) /\ Keeps(v, u, {}, {}) /\ u.master = v.master /\ u.summons = v.summons
         /\ \A x \in Creatures : Placed(u, x) <=> Placed(v, x) /\ x # c
<1>0. v \in State /\ Loose(v) /\ Nobody \notin Creatures
  BY Hands DEF Core, Loose
<1>1. /\ u \in State
      /\ u.at = v.at /\ u.alive = v.alive /\ u.refs = v.refs /\ u.inVector = v.inVector
      /\ u.master = v.master /\ u.summons = v.summons /\ u.idle = v.idle /\ u.targets = v.targets
      /\ u.friends = v.friends /\ u.spawned = v.spawned /\ u.checkSpawnEvent = v.checkSpawnEvent
      /\ u.scheduled = v.scheduled /\ u.forgotten = v.forgotten /\ u.filled = v.filled
  BY <1>0, TakenOutIs
<1>2. /\ u.status[c] = "removed" /\ u.attacked[c] = Nobody /\ u.follow[c] = Nobody
      /\ u.toRelease[c] = v.toRelease[c] + 1 /\ ~Awake(u, c)
  BY <1>0, TakenOutIs
<1>3. \A x \in Creatures \ {c} :
        /\ u.status[x] = v.status[x] /\ u.attacked[x] = v.attacked[x] /\ u.follow[x] = v.follow[x]
        /\ u.toRelease[x] = v.toRelease[x] /\ (u.checked[x] <=> v.checked[x])
  BY <1>0, TakenOutIs
<1>4. \A x \in Creatures : Placed(u, x) <=> Placed(v, x) /\ x # c
  BY <1>2, <1>3 DEF Placed
<1>5. \A x \in Creatures : v.toRelease[x] \in Nat
  BY <1>0 DEF State
<1>6. \A x \in Creatures : Live(v, x) => Live(u, x)
  BY <1>2, <1>3, <1>4, <1>5 DEF Live
<1>7. Exact(u)
  <2> SUFFICES ASSUME NEW x \in Creatures PROVE References(u, x) = References(v, x)
    BY <1>0, <1>1 DEF Loose, Exact
  <2>1. Count(Placed(u, x)) + u.toRelease[x] = Count(Placed(v, x)) + v.toRelease[x]
    BY <1>2, <1>3, <1>4, <1>5 DEF Count
  <2>2. References(u, x) = Count(Placed(u, x)) + u.toRelease[x] + Count(v.inVector[x])
    + Cardinality(Within(Slots, v.spawned, x)) + Count(v.master[x] # Nobody)
    + Cardinality(Within(Creatures, v.targets, x)) + Cardinality(Within(Creatures, v.friends, x))
    BY <1>1, ReferencesAre
  <2> QED BY <2>1, <2>2, ReferencesAre
<1>8. Lines(u)
  BY <1>0, <1>1 DEF Loose, Lines
<1>9. Blank(u)
  <2> SUFFICES ASSUME NEW x \in Creatures, u.status[x] = "free"
               PROVE  u.alive[x] /\ u.attacked[x] = Nobody /\ u.follow[x] = Nobody
                      /\ u.summons[x] = {}
    BY DEF Blank
  <2>1. x # c
    BY <1>2
  <2> QED BY <1>0, <1>1, <1>3, <2>1 DEF Loose, Blank
<1>10. MastersLive(u)
  <2> SUFFICES ASSUME NEW x \in Creatures, Placed(u, x), u.master[x] # Nobody
               PROVE  Live(u, u.master[x])
    BY DEF MastersLive
  <2>1. v.master[x] \in Creatures /\ Live(v, v.master[x])
    BY <1>0, <1>1, <1>4 DEF Loose, MastersLive, State
  <2> QED BY <1>1, <1>6, <2>1
<1>11. Core(u)
  <2>1. \A x \in Creatures : (u.status[x] = "free" <=> v.status[x] = "free")
    BY <1>2, <1>3 DEF Placed
  <2>2. \A x \in Creatures : Awake(u, x) => Placed(u, x)
    BY <1>0, <1>1, <1>2, <1>3, <1>4 DEF Loose, Awake
  <2>3. Loose(u)
    BY <1>0, <1>1, <1>7, <1>8, <1>9, <1>10, <2>1, <2>2 DEF Loose
  <2> QED BY <1>1, <2>1, <2>3 DEF Core
<1>12. KeepsLives(v, u) /\ KeepsMasters(v, u, {})
  BY <1>1, <1>4, <1>6 DEF KeepsLives, KeepsMasters
<1>13. KeepsSpawns(v, u)
  <2>1. \A s \in Slots : v.spawned[s] \subseteq Creatures
    BY <1>0, StateIs, Hands DEF Typed
  <2> QED BY <1>1, <1>4, <2>1 DEF KeepsSpawns
<1>14. \A x \in Creatures : Placed(u, x) => (Awake(u, x) <=> Awake(v, x)) /\ Pointers(u, x) = Pointers(v, x)
  BY <1>1, <1>3, <1>4 DEF Awake, Pointers
<1>15. KeepsMinded(v, u) /\ KeepsKnown(v, u, {}, {})
  BY <1>1, <1>14, Hands DEF KeepsMinded, Minded, KeepsKnown, Knows
<1>16. KeepsPointers(v, u)
  <2> SUFFICES ASSUME NEW x \in Creatures, Placed(u, x), NEW y \in Pointers(u, x), Safe(v, x, y)
               PROVE  Placed(u, y)
    BY <1>14 DEF KeepsPointers
  <2>1. y \in Pointers(v, x) /\ Placed(v, x) /\ x # c /\ y \in Creatures
    <3>1. v.attacked[x] \in Creatures \cup {Nobody} /\ v.follow[x] \in Creatures \cup {Nobody}
      BY <1>0, StateIs DEF Typed
    <3> QED BY <1>4, <1>14, <3>1 DEF Pointers
  <2> QED BY <1>4, <2>1 DEF Safe
<1> QED BY <1>1, <1>4, <1>11, <1>12, <1>13, <1>15, <1>16 DEF Keeps

\* The spawn of c has been woken.
Called(v, c) == \A s \in Slots : c \in v.spawned[s] => v.checkSpawnEvent

\* The spawn stays woken.
LEMMA CalledOn ==
  ASSUME NEW v, NEW u, NEW X, NEW Y, Sound(v, u, X, Y), NEW c, Called(v, c)
  PROVE  Called(u, c)
BY DEF Sound, Keeps, KeepsSpawns, Called

\* A creature hears that it is removed.
LEMMA OwnRemovalSound ==
  ASSUME NEW v, Core(v), NEW c \in Creatures, Placed(v, c), NEW u, u = OnRemoveCreature(v, c, c)
  PROVE  Mild(v, u, {c} \X Creatures, {c}) /\ c \notin Pointers(u, c) /\ Called(u, c)
<1> DEFINE a == OnCreatureDisappear(v, c, c)
           b == LeaveMaster(a, c)
           X == {c} \X Creatures
<1>0. v \in State /\ Loose(v)
  BY DEF Core, Loose
<1>1. u = OnOwnRemoval(b, c)
  BY DEF OnRemoveCreature
<1>2. Mild(v, a, {}, {}) /\ c \notin Pointers(a, c) /\ Core(a) /\ Placed(a, c)
  <2>1. Used(v, c)
    BY DEF Used, Placed
  <2>2. Mild(v, a, {}, {}) /\ c \notin Pointers(a, c)
    BY <2>1, OnCreatureDisappearSound
  <2> HIDE DEF a
  <2> QED BY <2>2 DEF Mild, Sound, Stays
<1> HIDE DEF a
<1>3. Mild(a, b, {}, {c})
  <2>1. CASE a.master[c] # Nobody /\ a.status[a.master[c]] # "removed"
    <3>1. b = SetMaster(a, c, Nobody)
      BY <2>1 DEF LeaveMaster
    <3>2. c \in Monsters
      BY <1>2, <2>1 DEF Core, Loose, Lines, Creatures
    <3>3. Used(a, c) /\ CanHand(a, c, Nobody)
      BY <1>2 DEF Used, Placed, CanHand
    <3> QED BY <1>2, <3>1, <3>2, <3>3, SetMasterSound DEF Mild
  <2>2. CASE ~ (a.master[c] # Nobody /\ a.status[a.master[c]] # "removed")
    <3>1. b = a
      BY <2>2 DEF LeaveMaster
    <3>2. Mild(a, a, {}, {})
      BY <1>2, MildSelf
    <3>3. Mild(a, a, {}, {c})
      BY <3>2, KeepsMore
    <3> QED BY <3>1, <3>3
  <2> QED BY <2>1, <2>2
<1> HIDE DEF b
<1>4. Mild(v, b, {}, {c})
  <2>1. Mild(v, a, {}, {c})
    BY <1>2, KeepsMore
  <2> QED BY <1>3, <2>1, MildThen
<1>5. Core(b) /\ Placed(b, c)
  BY <1>2, <1>3 DEF Mild, Sound, Stays
<1>6. Mild(b, u, X, {}) /\ Called(u, c)
  <2>1. CASE c \notin Monsters
    <3>1. u = b
      BY <1>1, <2>1 DEF OnOwnRemoval
    <3>2. Mild(b, b, {}, {})
      BY <1>5, MildSelf
    <3>3. Mild(b, b, X, {})
      BY <3>2, KeepsMore
    <3>4. \A s \in Slots : b.spawned[s] \subseteq Monsters
      BY <1>5 DEF Core, Loose, State
    <3> QED BY <2>1, <3>1, <3>3, <3>4 DEF Called
  <2>2. CASE c \in Monsters
    <3> DEFINE e == StartSpawnCheck(b, c)
    <3>1. u = SetIdle(e, c, TRUE)
      BY <1>1, <2>2 DEF OnOwnRemoval
    <3>2. Mild(b, e, {}, {}) /\ \A s \in Slots : c \in b.spawned[s] => e.checkSpawnEvent
      BY <1>5, StartSpawnCheckSound
    <3> HIDE DEF e
    <3>3. Core(e) /\ Placed(e, c) /\ Called(e, c)
      BY <1>5, <3>2 DEF Mild, Sound, Stays, Keeps, KeepsSpawns, Called
    <3>4. \A p \in Players : (e.master[c] = Nobody /\ p \notin e.targets[c]) \/ <<c, p>> \in X
      BY Hands
    <3>5. Mild(e, u, X, {})
      <4> HIDE DEF X
      <4> QED BY <2>2, <3>1, <3>3, <3>4, AsleepSound
    <3>6. Mild(b, u, X, {})
      BY <1>5, <3>2, <3>5, MildThen
    <3> QED BY <3>3, <3>5, <3>6, CalledOn DEF Mild
  <2> QED BY <2>1, <2>2
<1>7. Mild(v, u, X, {c})
  <2>1. Mild(v, b, X, {c})
    BY <1>4, KeepsMore
  <2>2. Mild(b, u, X, {c})
    BY <1>6, KeepsMore
  <2> QED BY <2>1, <2>2, MildThen
<1>8. c \notin Pointers(u, c)
  BY <1>2, <1>3, <1>6 DEF Mild, Calm
<1> QED BY <1>6, <1>7, <1>8

\* What has to do with c.
About(c) == ({c} \X Creatures) \cup (Creatures \X {c})

\* Somebody hears that c is removed.
LEMMA OnRemoveCreatureSound ==
  ASSUME NEW v, Core(v), NEW c \in Creatures, Placed(v, c), NEW s \in Creatures, Placed(v, s),
         NEW u, u = OnRemoveCreature(v, s, c)
  PROVE  Mild(v, u, About(c), {c}) /\ c \notin Pointers(u, s) /\ (s = c => Called(u, c))
<1>1. CASE s = c
  <2>1. Mild(v, u, {c} \X Creatures, {c}) /\ c \notin Pointers(u, c) /\ Called(u, c)
    BY <1>1, OwnRemovalSound
  <2>2. {c} \X Creatures \subseteq About(c)
    BY DEF About
  <2>3. Mild(v, u, About(c), {c})
    BY <2>1, <2>2, KeepsMore
  <2> QED BY <1>1, <2>1, <2>3
<1>2. CASE s # c
  <2> DEFINE a == OnCreatureDisappear(v, s, c)
  <2>1. Mild(v, a, {}, {}) /\ c \notin Pointers(a, s)
    <3>1. Used(v, s)
      BY DEF Used, Placed
    <3> QED BY <3>1, OnCreatureDisappearSound
  <2>2. u = IF s \in Monsters THEN OnCreatureLeave(a, s, c) ELSE a
    BY <1>2 DEF OnRemoveCreature
  <2> HIDE DEF a
  <2>3. Core(a) /\ Placed(a, s)
    BY <2>1 DEF Mild, Sound, Stays
  <2>4. Mild(a, u, {<<s, c>>}, {})
    <3>1. CASE s \in Monsters
      BY <2>2, <2>3, <3>1, OnCreatureLeaveSound
    <3>2. CASE s \notin Monsters
      <4>1. u = a
        BY <2>2, <3>2
      <4>2. Mild(a, a, {}, {})
        BY <2>3, MildSelf
      <4>3. Mild(a, a, {<<s, c>>}, {})
        BY <4>2, KeepsMore
      <4> QED BY <4>1, <4>3
    <3> QED BY <3>1, <3>2
  <2>5. Mild(v, u, {<<s, c>>}, {})
    BY <2>1, <2>4, MildThen
  <2>6. Mild(v, u, About(c), {c})
    <3>1. {<<s, c>>} \subseteq About(c)
      BY DEF About
    <3> QED BY <2>5, <3>1, KeepsMore
  <2> QED BY <1>2, <2>1, <2>4, <2>6 DEF Mild, Calm
<1> QED BY <1>1, <1>2

\* Everybody who sees c hears that it is removed.
LEMMA TellRemovalSound ==
  ASSUME NEW v, Core(v), NEW c \in Creatures, Placed(v, c),
         NEW S \in SUBSET Creatures, \A s \in S : Placed(v, s), c \notin S, NEW before,
         NEW u, u = TellRemoval(v, S, before, c)
  PROVE  Mild(v, u, About(c), {c}) /\ Called(u, c) /\ \A s \in S \cup {c} : c \notin Pointers(u, s)
<1> DEFINE X == About(c)
           W == S \cup {c}
           J == [D \in SUBSET W |->
                   {t \in State : /\ Mild(v, t, X, {c}) /\ (c \in D => Called(t, c))
                                  /\ \A s \in D : c \notin Pointers(t, s)}]
<1>0. v \in State /\ Mild(v, v, X, {c}) /\ IsFiniteSet(S) /\ \A s \in W : s \in Creatures /\ Placed(v, s)
  <2>1. Mild(v, v, {}, {})
    BY MildSelf
  <2>2. Mild(v, v, X, {c})
    BY <2>1, KeepsMore
  <2> QED BY <2>2, Hands, FS_Subset DEF Core, Loose
<1> HIDE DEF X
<1>1. v \in J[{}]
  BY <1>0
<1>2. ASSUME NEW D \in SUBSET W, NEW i \in W \ D, NEW t \in J[D]
      PROVE  OnRemoveCreature(t, i, c) \in J[D \cup {i}]
  <2> DEFINE z == OnRemoveCreature(t, i, c)
  <2>1. Mild(v, t, X, {c}) /\ Core(t) /\ Placed(t, i) /\ Placed(t, c) /\ i \in Creatures
    BY <1>0 DEF Mild, Sound, Stays
  <2>2. Mild(t, z, X, {c}) /\ c \notin Pointers(z, i) /\ (i = c => Called(z, c))
    BY <2>1, OnRemoveCreatureSound DEF X
  <2> HIDE DEF z
  <2>3. Mild(v, z, X, {c}) /\ z \in State
    BY <2>1, <2>2, MildThen DEF Mild, Sound, Core, Loose
  <2>4. c \in D \cup {i} => Called(z, c)
    <3>1. Sound(t, z, X, {c})
      BY <2>2 DEF Mild
    <3>2. c \in D => Called(t, c)
      OBVIOUS
    <3> QED BY <2>2, <3>1, <3>2, CalledOn
  <2>5. \A s \in D : c \notin Pointers(z, s)
    BY <1>0, <2>2 DEF Mild, Calm
  <2> QED BY <2>2, <2>3, <2>4, <2>5 DEF z
<1>3. u \in J[W]
  <2> HIDE DEF J
  <2> QED BY <1>0, <1>1, <1>2, RemovalOrder
<1> QED BY <1>3 DEF X

\* A creature is removed, and nobody else.
LEMMA RemoveAloneSound ==
  ASSUME NEW v, Core(v), NEW c \in Creatures, NEW before, NEW u, u = RemoveAlone(v, c, before)
  PROVE  /\ Core(u) /\ Keeps(v, u, {}, {})
         /\ \A x \in Creatures : Placed(u, x) <=> Placed(v, x) /\ x # c
         /\ \A x \in Creatures : u.summons[x] \subseteq v.summons[x]
<1>1. CASE ~Placed(v, c)
  <2>1. u = v
    BY <1>1 DEF RemoveAlone
  <2> QED BY <1>1, <2>1, KeepsSelf
<1>2. CASE Placed(v, c)
  <2> DEFINE S == Spectators(v, v.at[c]) \ {c}
             t == TellRemoval(v, S, before, c)
  <2>1. u = TakenOut(t, c)
    BY <1>2 DEF RemoveAlone
  <2>2. Mild(v, t, About(c), {c}) /\ Called(t, c) /\ \A s \in S \cup {c} : c \notin Pointers(t, s)
    <3>1. S \in SUBSET Creatures /\ c \notin S /\ \A s \in S : Placed(v, s)
      BY SpectatorsIs
    <3> HIDE DEF S
    <3> QED BY <1>2, <3>1, TellRemovalSound
  <2> HIDE DEF t
  <2>3. Core(t) /\ Placed(t, c) /\ Sound(v, t, About(c), {c})
    BY <1>2, <2>2 DEF Mild, Sound, Stays
  <2>4. ASSUME NEW x \in Creatures \ {c}, Placed(t, x), c \in Pointers(t, x) PROVE ~Safe(t, x, c)
    <3>1. x \notin S
      BY <2>2, <2>4
    <3>2. Placed(v, x) /\ t.at[x] = v.at[x] /\ t.at[c] = v.at[c]
      BY <1>2, <2>3, <2>4, SoundPlaces
    <3>3. ~InView(v.at[x], v.at[c])
      BY <3>1, <3>2, SpectatorsIs
    <3> QED BY <3>2, <3>3 DEF Safe
  <2>5. /\ Core(u) /\ Keeps(t, u, {}, {}) /\ u.summons = t.summons
        /\ \A x \in Creatures : Placed(u, x) <=> Placed(t, x) /\ x # c
    BY <2>1, <2>2, <2>3, <2>4, TakenOutSound DEF Called
  <2>6. \A x \in Creatures : Placed(u, x) <=> Placed(v, x) /\ x # c
    BY <2>3, <2>5, SoundPlaces
  <2>7. Keeps(v, u, About(c), {c})
    <3>1. v \in State /\ t \in State /\ u \in State
      BY <2>3, <2>5 DEF Core, Loose
    <3>2. Keeps(v, u, About(c) \cup {}, {c} \cup {})
      BY <2>3, <2>5, <3>1, KeepsOn DEF Sound
    <3>3. About(c) \cup {} = About(c) /\ {c} \cup {} = {c}
      OBVIOUS
    <3> QED BY <3>2, <3>3
  <2>8. Keeps(v, u, {}, {})
    <3>1. KeepsMasters(v, u, {})
      BY <2>6, <2>7 DEF Keeps, KeepsMasters
    <3>2. KeepsKnown(v, u, {}, {})
      <4> SUFFICES ASSUME NEW m \in Monsters, NEW p \in Players, Placed(u, m), u.alive[m],
                          Placed(u, p), Knows(v, m, p)
                   PROVE  Knows(u, m, p)
        BY DEF KeepsKnown
      <4>1. m # c /\ p # c
        BY <2>6, Hands
      <4>2. <<m, p>> \notin About(c) /\ m \in Monsters \ {c}
        BY <4>1 DEF About
      <4> QED BY <2>7, <4>2 DEF Keeps, KeepsKnown
    <3> QED BY <2>7, <3>1, <3>2 DEF Keeps
  <2>9. \A x \in Creatures : u.summons[x] \subseteq v.summons[x]
    BY <2>2, <2>5 DEF Mild, Calm
  <2> QED BY <2>5, <2>6, <2>8, <2>9
<1> QED BY <1>1, <1>2

\* u is what is left of v when creatures were removed.
Thinned(v, u) ==
  /\ Core(u) /\ Keeps(v, u, {}, {}) /\ \A x \in Creatures : u.summons[x] \subseteq v.summons[x]

\* Removing nobody.
LEMMA ThinnedSelf == \A v : Core(v) => Thinned(v, v)
BY KeepsSelf DEF Thinned

\* Two removals are one.
LEMMA ThinnedOn ==
  ASSUME NEW v, Core(v), NEW u, NEW t, Thinned(v, u), Thinned(u, t)
  PROVE  Thinned(v, t)
<1>1. v \in State /\ u \in State /\ t \in State
  BY DEF Thinned, Core, Loose
<1>2. Keeps(v, t, {} \cup {}, {} \cup {})
  BY <1>1, KeepsOn DEF Thinned
<1>3. {} \cup {} = {}
  OBVIOUS
<1>4. Keeps(v, t, {}, {})
  BY <1>2, <1>3
<1> QED BY <1>4 DEF Thinned

\* Who is left has its master and its place.
LEMMA ThinnedMasters ==
  ASSUME NEW v, NEW u, Thinned(v, u), NEW x \in Creatures, Placed(u, x)
  PROVE  Placed(v, x) /\ u.master[x] = v.master[x] /\ u.at[x] = v.at[x]
BY DEF Thinned, Keeps, KeepsLives, KeepsMasters, Live

\* A fold of removals takes out who it is told, and nobody else.
LEMMA AllAloneSound ==
  ASSUME NEW v, Core(v), NEW S \in SUBSET Creatures, NEW before, NEW u, u = AllAlone(v, before, S)
  PROVE  Thinned(v, u) /\ \A x \in Creatures : Placed(u, x) <=> Placed(v, x) /\ x \notin S
<1> DEFINE J == [D \in SUBSET S |->
                   {t \in State : Thinned(v, t) /\ \A x \in Creatures : Placed(t, x) <=> Placed(v, x) /\ x \notin D}]
<1>0. v \in State /\ Thinned(v, v) /\ IsFiniteSet(S)
  BY ThinnedSelf, Hands, FS_Subset DEF Core, Loose
<1>1. v \in J[{}]
  BY <1>0
<1>2. ASSUME NEW D \in SUBSET S, NEW i \in S \ D, NEW t \in J[D]
      PROVE  RemoveAlone(t, i, before) \in J[D \cup {i}]
  <2> DEFINE z == RemoveAlone(t, i, before)
  <2>1. Thinned(v, t) /\ Core(t) /\ i \in Creatures
    BY DEF Thinned
  <2>2. Thinned(t, z) /\ \A x \in Creatures : Placed(z, x) <=> Placed(t, x) /\ x # i
    BY <2>1, RemoveAloneSound DEF Thinned
  <2> HIDE DEF z
  <2>3. Thinned(v, z) /\ z \in State
    BY <2>1, <2>2, ThinnedOn DEF Thinned, Core, Loose
  <2>4. \A x \in Creatures : Placed(z, x) <=> Placed(v, x) /\ x \notin D \cup {i}
    BY <2>2
  <2> QED BY <2>3, <2>4 DEF z
<1>3. u \in J[S]
  <2> HIDE DEF J
  <2> QED BY <1>0, <1>1, <1>2, AloneTurns
<1> QED BY <1>3

\* A summon is removed with its own summons.
LEMMA RemoveSummonSound ==
  ASSUME NEW v, Core(v), NEW c \in Creatures, NEW before, NEW u, u = RemoveSummon(v, c, before)
  PROVE  /\ Thinned(v, u) /\ (~Placed(v, c) => u = v)
         /\ Placed(v, c) => \A x \in Creatures : Placed(u, x) <=> Placed(v, x) /\ x # c /\ v.master[x] # c
<1>1. CASE ~Placed(v, c)
  <2>1. u = v
    BY <1>1 DEF RemoveSummon
  <2> QED BY <1>1, <2>1, ThinnedSelf
<1>2. CASE Placed(v, c)
  <2> DEFINE a == RemoveAlone(v, c, before)
  <2>1. u = AllAlone(a, before, a.summons[c])
    BY <1>2 DEF RemoveSummon, AllAlone, InTurn, FoldSet, MapThenFoldSet
  <2>2. Thinned(v, a) /\ \A x \in Creatures : Placed(a, x) <=> Placed(v, x) /\ x # c
    BY RemoveAloneSound DEF Thinned
  <2> HIDE DEF a
  <2>3. Core(a) /\ a.summons[c] \in SUBSET Creatures /\ Lines(a)
    BY <2>2 DEF Thinned, Core, Loose, State
  <2>4. Thinned(a, u) /\ \A x \in Creatures : Placed(u, x) <=> Placed(a, x) /\ x \notin a.summons[c]
    <3> DEFINE S == a.summons[c]
    <3>1. S \in SUBSET Creatures /\ u = AllAlone(a, before, S)
      BY <2>1, <2>3
    <3> HIDE DEF S
    <3>2. Thinned(a, u) /\ \A x \in Creatures : Placed(u, x) <=> Placed(a, x) /\ x \notin S
      BY <2>3, <3>1, AllAloneSound
    <3> QED BY <3>2 DEF S
  <2>5. Thinned(v, u)
    BY <2>2, <2>4, ThinnedOn
  <2>6. ASSUME NEW x \in Creatures, Placed(a, x) PROVE x \in a.summons[c] <=> v.master[x] = c
    BY <2>2, <2>3, <2>6, ThinnedMasters DEF Lines
  <2> QED BY <1>2, <2>2, <2>4, <2>5, <2>6
<1> QED BY <1>1, <1>2

\* A fold of removals with the summons takes out two generations.
LEMMA AllSummonsSound ==
  ASSUME NEW v, Core(v), NEW S \in SUBSET Creatures, NEW before, NEW u,
         u = AllSummons(v, before, S),
         \A x \in S : ~Placed(v, v.master[x])
  PROVE  /\ Thinned(v, u)
         /\ \A x \in Creatures : Placed(u, x) <=>
              Placed(v, x) /\ x \notin S /\ ~ (v.master[x] \in S /\ Placed(v, v.master[x]))
<1> DEFINE Out(D, x) == x \in D \/ (v.master[x] \in D /\ Placed(v, v.master[x]))
           J == [D \in SUBSET S |->
                   {t \in State : Thinned(v, t) /\ \A x \in Creatures : Placed(t, x) <=> Placed(v, x) /\ ~Out(D, x)}]
<1>0. v \in State /\ Thinned(v, v) /\ IsFiniteSet(S)
  BY ThinnedSelf, Hands, FS_Subset DEF Core, Loose
<1>1. v \in J[{}]
  BY <1>0
<1>2. ASSUME NEW D \in SUBSET S, NEW i \in S \ D, NEW t \in J[D]
      PROVE  RemoveSummon(t, i, before) \in J[D \cup {i}]
  <2> DEFINE z == RemoveSummon(t, i, before)
  <2>1. /\ Thinned(v, t) /\ Core(t) /\ i \in Creatures
        /\ \A x \in Creatures : Placed(t, x) <=> Placed(v, x) /\ ~Out(D, x)
    BY DEF Thinned
  <2>2. /\ Thinned(t, z) /\ (~Placed(t, i) => z = t)
        /\ Placed(t, i) => \A x \in Creatures : Placed(z, x) <=> Placed(t, x) /\ x # i /\ t.master[x] # i
    BY <2>1, RemoveSummonSound
  <2> HIDE DEF z
  <2>3. Thinned(v, z) /\ z \in State
    BY <2>1, <2>2, ThinnedOn DEF Thinned, Core, Loose
  <2>4. ASSUME NEW x \in Creatures PROVE Placed(z, x) <=> Placed(v, x) /\ ~Out(D \cup {i}, x)
    <3>1. CASE Placed(t, i)
      <4>1. Placed(v, i)
        BY <2>1, <3>1
      <4>2. Placed(t, x) => t.master[x] = v.master[x]
        BY <2>1, ThinnedMasters
      <4> QED BY <2>1, <2>2, <3>1, <4>1, <4>2
    <3>2. CASE ~Placed(t, i)
      <4>1. ~Placed(v, i)
        BY <2>1, <3>2
      <4> QED BY <2>1, <2>2, <3>2, <4>1
    <3> QED BY <3>1, <3>2
  <2> QED BY <2>3, <2>4 DEF z
<1>3. u \in J[S]
  <2> HIDE DEF J
  <2> QED BY <1>0, <1>1, <1>2, SummonTurns
<1> QED BY <1>3

\* Who goes when c does.
Goes(v, c, x) ==
  \/ x = c \/ v.master[x] = c
  \/ v.master[x] # Nobody /\ Placed(v, v.master[x]) /\ v.master[v.master[x]] = c

\* Game::removeCreature takes out c, its summons and theirs, and nobody else.
LEMMA RemoveCreatureSound ==
  ASSUME NEW v, Core(v), NEW c \in Creatures, NEW before, NEW u, u = RemoveCreature(v, c, before)
  PROVE  /\ Thinned(v, u) /\ (~Placed(v, c) => u = v)
         /\ Placed(v, c) => \A x \in Creatures : Placed(u, x) <=> Placed(v, x) /\ ~Goes(v, c, x)
<1>1. CASE ~Placed(v, c)
  <2>1. u = v
    BY <1>1 DEF RemoveCreature
  <2> QED BY <1>1, <2>1, ThinnedSelf
<1>2. CASE Placed(v, c)
  <2> DEFINE a == RemoveAlone(v, c, before)
             S == a.summons[c]
  <2>1. u = AllSummons(a, before, S)
    BY <1>2 DEF RemoveCreature, AllSummons, InTurn, FoldSet, MapThenFoldSet
  <2>2. Thinned(v, a) /\ \A x \in Creatures : Placed(a, x) <=> Placed(v, x) /\ x # c
    BY RemoveAloneSound DEF Thinned
  <2> HIDE DEF a
  <2>3. Core(a) /\ S \in SUBSET Creatures /\ Lines(a)
        /\ a.master \in [Creatures -> Creatures \cup {Nobody}]
    BY <2>2 DEF Thinned, Core, Loose, State
  <2>4. \A x \in Creatures : x \in S <=> a.master[x] = c
    BY <2>3 DEF Lines
  <2>5. \A x \in S : ~Placed(a, a.master[x])
    BY <2>2, <2>3, <2>4
  <2>6. /\ Thinned(a, u)
        /\ \A x \in Creatures : Placed(u, x) <=>
             Placed(a, x) /\ x \notin S /\ ~ (a.master[x] \in S /\ Placed(a, a.master[x]))
    <3> HIDE DEF S
    <3> QED BY <2>1, <2>3, <2>5, AllSummonsSound
  <2>7. Thinned(v, u)
    BY <2>2, <2>6, ThinnedOn
  <2>8. ASSUME NEW x \in Creatures PROVE Placed(u, x) <=> Placed(v, x) /\ ~Goes(v, c, x)
    <3>1. CASE ~Placed(a, x)
      BY <2>2, <2>6, <3>1 DEF Goes
    <3>2. CASE Placed(a, x)
      <4> DEFINE y == v.master[x]
      <4>1. Placed(v, x) /\ a.master[x] = y /\ x # c
        BY <2>2, <3>2, ThinnedMasters
      <4>2. y \in Creatures \/ y = Nobody
        BY <2>3, <4>1
      <4>3. x \in S <=> y = c
        BY <2>4, <4>1
      <4>4. CASE y = Nobody
        BY <2>3, <2>6, <3>2, <4>1, <4>3, <4>4, Hands DEF Goes
      <4>5. CASE y \in Creatures
        <5>1. y # Nobody
          BY <4>5, Hands
        <5>2. Placed(a, y) => a.master[y] = v.master[y]
          BY <2>2, <4>5, ThinnedMasters
        <5>3. y \in S /\ Placed(a, y) <=> Placed(v, y) /\ y # c /\ v.master[y] = c
          BY <2>2, <2>4, <4>5, <5>2
        <5> QED BY <2>6, <3>2, <4>1, <4>3, <5>1, <5>3 DEF Goes
      <4> QED BY <4>2, <4>4, <4>5
    <3> QED BY <3>1, <3>2
  <2> QED BY <1>2, <2>7, <2>8
<1> QED BY <1>1, <1>2

\* Nobody is left without its master, and c's own master stays.
LEMMA MastersFollowed ==
  ASSUME NEW v, Core(v), NEW c \in Creatures, NEW before, NEW u, u = RemoveCreature(v, c, before)
  PROVE  /\ \A x \in Creatures : Placed(u, x) /\ v.master[x] # Nobody /\ Placed(v, v.master[x]) => Placed(u, v.master[x])
         /\ v.master[c] # Nobody /\ Placed(v, v.master[c]) => Placed(u, v.master[c])
<1>0. Lines(v) /\ v.master \in [Creatures -> Creatures \cup {Nobody}] /\ Nobody \notin Creatures
      /\ Nobody \notin Monsters /\ Creatures = Players \cup Monsters
  BY Hands DEF Core, Loose, State, Creatures
<1>1. CASE ~Placed(v, c)
  BY <1>1, RemoveCreatureSound
<1>2. CASE Placed(v, c)
  <2>1. \A x \in Creatures : Placed(u, x) <=> Placed(v, x) /\ ~Goes(v, c, x)
    BY <1>2, RemoveCreatureSound
  <2>2. \A x \in Creatures : v.master[x] # Nobody => x \in Monsters
    BY <1>0 DEF Lines
  <2>3. \A x \in Creatures : v.master[x] \in Monsters => v.master[v.master[x]] \notin Monsters
    BY <1>0 DEF Lines
  <2>4. ASSUME NEW x \in Creatures, NEW y \in Creatures, v.master[x] = y, Placed(v, x),
               ~Goes(v, c, x), Placed(v, y)
        PROVE  ~Goes(v, c, y)
    <3>1. y # c
      BY <2>4 DEF Goes
    <3>2. v.master[y] # c
      BY <1>0, <2>4 DEF Goes
    <3>3. ~ (v.master[y] # Nobody /\ v.master[v.master[y]] = c)
      <4> SUFFICES ASSUME v.master[y] # Nobody, v.master[v.master[y]] = c PROVE FALSE
        OBVIOUS
      <4>1. v.master[y] \in Creatures /\ y \in Monsters
        BY <1>0, <2>2
      <4>2. v.master[y] \notin Monsters
        BY <2>3, <2>4, <4>1
      <4>3. v.master[v.master[y]] = Nobody
        BY <2>2, <4>1, <4>2
      <4> QED BY <1>0, <4>3
    <3> QED BY <3>1, <3>2, <3>3 DEF Goes
  <2>5. ASSUME NEW x \in Creatures, Placed(u, x), v.master[x] # Nobody, Placed(v, v.master[x])
        PROVE  Placed(u, v.master[x])
    <3>1. v.master[x] \in Creatures
      BY <1>0, <2>5
    <3> QED BY <2>1, <2>4, <2>5, <3>1
  <2>6. ASSUME v.master[c] # Nobody, Placed(v, v.master[c]) PROVE ~Goes(v, c, v.master[c])
    <3> DEFINE y == v.master[c]
    <3>1. y \in Creatures /\ c \in Monsters
      BY <1>0, <2>2, <2>6
    <3>2. y # c
      BY <2>3, <3>1
    <3>3. v.master[y] # c
      BY <2>2, <2>3, <3>1, <1>0
    <3>4. ~ (v.master[y] # Nobody /\ v.master[v.master[y]] = c)
      <4> SUFFICES ASSUME v.master[y] # Nobody, v.master[v.master[y]] = c PROVE FALSE
        OBVIOUS
      <4>1. y \in Monsters /\ v.master[y] \in Creatures
        BY <1>0, <2>2, <3>1
      <4>2. v.master[y] \in Monsters
        BY <1>0, <2>2, <4>1
      <4> QED BY <2>3, <3>1, <4>2, <4>1
    <3> QED BY <3>2, <3>3, <3>4 DEF Goes
  <2>7. v.master[c] # Nobody => v.master[c] \in Creatures
    BY <1>0
  <2> QED BY <2>1, <2>5, <2>6, <2>7
<1> QED BY <1>1, <1>2

-----------------------------------------------------------------------------
(* Between two tasks *)

(***************************************************************************)
(* What holds between the handlers that the dispatcher runs.               *)
(***************************************************************************)
PointersSafe(v) == \A x \in Creatures : Placed(v, x) => \A y \in Pointers(v, x) : Safe(v, x, y)

\* The master of a summon in the world is in the world.
MastersPlaced(v) == \A x \in Creatures : Placed(v, x) /\ v.master[x] # Nobody => Placed(v, v.master[x])

\* Every monster knows the players it sees.
Sight(v) == \A m \in Monsters : Sees(v, m)

\* Whoever must be checked is.
AllMinded(v) == \A c \in Creatures : Placed(v, c) => Minded(v, c)

\* A slot has one monster at most; one that is empty has a check scheduled, a planned one is empty.
SpawnWatched(v) ==
  /\ \A s \in Slots : \A m, n \in v.spawned[s] : m = n
  /\ \A s \in v.scheduled : v.spawned[s] = {} /\ v.checkSpawnEvent
  /\ \A s \in v.filled : (\A m \in v.spawned[s] : ~Placed(v, m)) => v.checkSpawnEvent

\* Handlers end like this, whatever they do in between.
Orderly(v) == PointersSafe(v) /\ MastersPlaced(v) /\ Sight(v) /\ AllMinded(v)

\* The same with the spawn.
Settled(v) == Orderly(v) /\ SpawnWatched(v)

\* The invariant.
Bound(v) == Core(v) /\ Settled(v)

\* Handlers that wake the spawn for what they remove leave no slot unattended.
LEMMA SpawnWatchedKept ==
  ASSUME NEW v \in State, SpawnWatched(v), NEW u \in State, KeepsSpawns(v, u)
  PROVE  SpawnWatched(u)
<1>1. \A s \in Slots : \A m, n \in u.spawned[s] : m = n
  BY DEF SpawnWatched, KeepsSpawns
<1>2. \A s \in u.scheduled : u.spawned[s] = {} /\ u.checkSpawnEvent
  BY DEF SpawnWatched, KeepsSpawns
<1>3. ASSUME NEW s \in u.filled, \A m \in u.spawned[s] : ~Placed(u, m) PROVE u.checkSpawnEvent
  <2>1. s \in v.filled /\ s \in Slots /\ u.spawned[s] = v.spawned[s]
    BY StateIs DEF Typed, KeepsSpawns
  <2>2. CASE \A m \in v.spawned[s] : ~Placed(v, m)
    BY <2>1, <2>2 DEF SpawnWatched, KeepsSpawns
  <2>3. CASE \E m \in v.spawned[s] : Placed(v, m)
    BY <1>3, <2>1, <2>3 DEF KeepsSpawns
  <2> QED BY <2>2, <2>3
<1> QED BY <1>1, <1>2, <1>3 DEF SpawnWatched

\* What a handler may forget is known again in the end, or nobody is there to be known.
LEMMA OrderlyKept ==
  ASSUME NEW v \in State, Orderly(v), NEW u \in State, NEW X, NEW Y, Keeps(v, u, X, Y),
         MastersPlaced(u),
         \A m \in Monsters, p \in Players :
           /\ m \in Y \/ <<m, p>> \in X
           /\ Placed(u, m) /\ u.alive[m] /\ Placed(u, p) /\ InView(u.at[m], u.at[p])
           => Knows(u, m, p)
  PROVE  Orderly(u)
<1>0. \A x \in Creatures : Placed(u, x) => Placed(v, x) /\ u.at[x] = v.at[x]
  BY DEF Keeps, KeepsLives, Live
<1>1. PointersSafe(u)
  <2> SUFFICES ASSUME NEW x \in Creatures, Placed(u, x), NEW y \in Pointers(u, x)
               PROVE  Safe(u, x, y)
    BY DEF PointersSafe
  <2>0. y \in Creatures
    <3>1. u.attacked[x] \in Creatures \cup {Nobody} /\ u.follow[x] \in Creatures \cup {Nobody}
      BY StateIs DEF Typed
    <3> QED BY <3>1 DEF Pointers
  <2>1. CASE y \in Pointers(v, x) /\ (Safe(v, x, y) => Placed(u, y))
    <3>1. Safe(v, x, y)
      BY <1>0, <2>1 DEF Orderly, PointersSafe
    <3> QED BY <1>0, <2>0, <2>1, <3>1 DEF Safe
  <2> QED BY <2>1 DEF Keeps, KeepsPointers
<1>2. Sight(u)
  <2> SUFFICES ASSUME NEW m \in Monsters, NEW p \in Players, Placed(u, m), u.alive[m],
                      Placed(u, p), InView(u.at[m], u.at[p]),
                      m \notin Y, <<m, p>> \notin X
               PROVE  Knows(u, m, p)
    BY DEF Sight, Sees
  <2>1. Placed(v, m) /\ Placed(v, p) /\ v.alive[m] /\ InView(v.at[m], v.at[p])
    BY <1>0, Hands DEF Keeps, KeepsLives
  <2>2. Knows(v, m, p)
    BY <2>1 DEF Orderly, Sight, Sees
  <2> QED BY <2>2 DEF Keeps, KeepsKnown
<1>3. AllMinded(u)
  BY <1>0 DEF Orderly, AllMinded, Keeps, KeepsMinded
<1> QED BY <1>1, <1>2, <1>3 DEF Orderly

\* Handlers that take nobody out keep the masters.
LEMMA MastersStay ==
  ASSUME NEW v, MastersPlaced(v), v \in State, NEW u, NEW X, Sound(v, u, X, {})
  PROVE  MastersPlaced(u)
<1> SUFFICES ASSUME NEW x \in Creatures, Placed(u, x), u.master[x] # Nobody
             PROVE  Placed(u, u.master[x])
  BY DEF MastersPlaced
<1>1. Placed(v, x) /\ u.master[x] = v.master[x]
  BY DEF Sound, Keeps, KeepsLives, KeepsMasters
<1>2. v.master[x] \in Creatures
  BY <1>1 DEF State
<1> QED BY <1>1, <1>2 DEF MastersPlaced, Sound, Stays

\* Handlers that keep everything keep the order.
LEMMA OrderlySound ==
  ASSUME NEW v \in State, Orderly(v), NEW u, Sound(v, u, {}, {})
  PROVE  Orderly(u)
<1>1. u \in State /\ Keeps(v, u, {}, {}) /\ MastersPlaced(v)
  BY DEF Core, Loose, Sound, Orderly
<1>2. MastersPlaced(u)
  BY <1>1, MastersStay
<1> QED BY <1>1, <1>2, OrderlyKept

\* The same, when what came before was not core: as in Game::cleanup.
LEMMA SettledSound ==
  ASSUME NEW v \in State, Settled(v), NEW u, Sound(v, u, {}, {})
  PROVE  Bound(u)
<1>1. u \in State /\ Core(u) /\ KeepsSpawns(v, u) /\ Orderly(v) /\ SpawnWatched(v)
  BY DEF Core, Loose, Sound, Keeps, Settled
<1>2. Orderly(u)
  BY <1>1, OrderlySound
<1>3. SpawnWatched(u)
  BY <1>1, SpawnWatchedKept
<1> QED BY <1>1, <1>2, <1>3 DEF Bound, Settled

\* Sound handlers keep the invariant.
LEMMA BoundSound ==
  ASSUME NEW v, Bound(v), NEW u, Sound(v, u, {}, {})
  PROVE  Bound(u)
BY SettledSound DEF Bound, Core, Loose

\* Removing a creature leaves no summon behind without its master.
LEMMA MastersStayRemoved ==
  ASSUME NEW v, Core(v), MastersPlaced(v), NEW c \in Creatures, NEW before, NEW u,
         u = RemoveCreature(v, c, before)
  PROVE  MastersPlaced(u)
<1> SUFFICES ASSUME NEW x \in Creatures, Placed(u, x), u.master[x] # Nobody
             PROVE  Placed(u, u.master[x])
  BY DEF MastersPlaced
<1>1. Placed(v, x) /\ u.master[x] = v.master[x]
  BY RemoveCreatureSound, ThinnedMasters
<1> QED BY <1>1, MastersFollowed DEF MastersPlaced

\* Game::removeCreature keeps the invariant.
LEMMA BoundRemoved ==
  ASSUME NEW v, Bound(v), NEW c \in Creatures, NEW before, NEW u, u = RemoveCreature(v, c, before)
  PROVE  Bound(u)
<1>1. Core(v) /\ Thinned(v, u) /\ Orderly(v) /\ SpawnWatched(v)
  BY RemoveCreatureSound DEF Bound, Settled
<1>2. v \in State /\ u \in State /\ Core(u) /\ Keeps(v, u, {}, {}) /\ MastersPlaced(v)
  BY <1>1 DEF Core, Loose, Thinned, Orderly
<1>3. MastersPlaced(u)
  BY <1>1, <1>2, MastersStayRemoved
<1>4. Orderly(u)
  BY <1>1, <1>2, <1>3, OrderlyKept
<1>5. SpawnWatched(u)
  BY <1>1, <1>2, SpawnWatchedKept DEF Keeps
<1> QED BY <1>2, <1>4, <1>5 DEF Bound, Settled

-----------------------------------------------------------------------------
(* Moving *)

\* The object of a creature that was removed is there until the cleanup.
LEMMA RemovedStays ==
  ASSUME NEW v, Core(v), NEW m \in Creatures, Live(v, m), ~Placed(v, m), NEW u, NEW X, NEW Y,
         Sound(v, u, X, Y)
  PROVE  u.status[m] = "removed" /\ Live(u, m) /\ ~Placed(u, m)
<1>1. Live(u, m) /\ ~Placed(u, m) /\ Loose(u)
  BY DEF Sound, Keeps, KeepsLives, Core
<1>2. Used(u, m)
  BY <1>1, HeldIsUsed
<1> QED BY <1>1, <1>2 DEF Loose, State, Used, Placed

\* A monster that is removed does not change its idle status any more.
LEMMA RemovedIdle ==
  ASSUME NEW v, NEW m, v.status[m] = "removed"
  PROVE  UpdateIdleStatus(v, m) = v
BY DEF UpdateIdleStatus, SetIdle

\* A monster that was removed in the middle of a move may still be told that it found c.
LEMMA RemovedFound ==
  ASSUME NEW v, Core(v), NEW m \in Monsters, Live(v, m), ~Placed(v, m), NEW c \in Creatures,
         Used(v, c),
         NEW u, u = OnCreatureFound(v, m, c)
  PROVE  Mild(v, u, {}, {})
<1> DEFINE f == FoundFriend(v, m, c)
           g == FoundOpponent(f, m, c)
<1>0. m \in Creatures
  BY Hands
<1>1. Mild(v, f, {}, {}) /\ f.status = v.status
  <2>1. CASE f = AddFriend(v, m, c)
    BY <1>0, <2>1, AddFriendSound
  <2>2. CASE f = v
    BY <2>2, MildSelf
  <2> QED BY <2>1, <2>2 DEF FoundFriend
<1>2. u = UpdateIdleStatus(g, m)
  BY DEF OnCreatureFound
<1> HIDE DEF f
<1>3. Core(f) /\ Used(f, c)
  BY <1>1 DEF Mild, Sound, Used
<1>4. Mild(f, g, {<<m, c>>}, {})
  <2>1. CASE g = AddTarget(f, m, c)
    BY <1>0, <1>3, <2>1, AddTargetSound
  <2>2. CASE g = f
    <3>1. Mild(f, f, {}, {})
      BY <1>3, MildSelf
    <3>2. Mild(f, f, {<<m, c>>}, {})
      BY <3>1, KeepsMore
    <3> QED BY <2>2, <3>2
  <2> QED BY <2>1, <2>2 DEF FoundOpponent
<1> HIDE DEF g
<1>5. Mild(v, g, {<<m, c>>}, {})
  BY <1>1, <1>4, MildThen
<1>6. g.status[m] = "removed" /\ ~Placed(g, m)
  BY <1>0, <1>5, RemovedStays DEF Mild
<1>7. Mild(v, g, {}, {})
  <2>1. \A d \in Monsters, p \in Players :
          <<d, p>> \in {<<m, c>>} \ {} /\ Placed(g, d) /\ g.alive[d] /\ Placed(g, p) => Knows(g, d, p)
    BY <1>6
  <2> QED BY <1>5, <2>1, MildLess
<1> QED BY <1>2, <1>6, <1>7, RemovedIdle

\* It may still be told that c leaves.
LEMMA RemovedLeft ==
  ASSUME NEW v, Core(v), NEW m \in Monsters, Live(v, m), ~Placed(v, m), NEW c \in Creatures,
         NEW u, u = OnCreatureLeave(v, m, c)
  PROVE  Mild(v, u, {<<m, c>>}, {})
<1> DEFINE f == LeftFriend(v, m, c)
           g == RemoveTarget(f, m, c)
           X == {<<m, c>>}
<1>0. m \in Creatures
  BY Hands
<1>1. Mild(v, f, {}, {})
  <2>1. CASE f = RemoveFriend(v, m, c)
    BY <1>0, <2>1, RemoveFriendSound
  <2>2. CASE f = v
    BY <2>2, MildSelf
  <2> QED BY <2>1, <2>2 DEF LeftFriend
<1>2. u = IF IsOpponent(f, m, c) THEN IdleWithoutTargets(g, m) ELSE f
  BY DEF OnCreatureLeave, LeftOpponent
<1> HIDE DEF f
<1>3. Core(f)
  BY <1>1 DEF Mild, Sound
<1>4. Mild(f, g, X, {})
  BY <1>0, <1>3, RemoveTargetSound
<1> HIDE DEF g
<1>5. Mild(v, g, X, {})
  BY <1>1, <1>4, MildThen
<1>6. Mild(v, f, X, {})
  BY <1>1, KeepsMore
<1>7. IdleWithoutTargets(g, m) = g
  <2>1. g.status[m] = "removed"
    BY <1>0, <1>5, RemovedStays DEF Mild
  <2> QED BY <2>1, RemovedIdle DEF IdleWithoutTargets
<1> QED BY <1>2, <1>5, <1>6, <1>7

\* Who loses sight of c.
Unseen(v, s, c) == IF InView(v.at[s], v.at[c]) THEN {} ELSE {<<s, c>>}

\* s found c, or lost it, or neither.
LEMMA MeetSound ==
  ASSUME NEW v, Core(v), NEW s \in Monsters, Live(v, s), NEW c \in Creatures, Placed(v, c), NEW old,
         NEW u,
         u = IF InView(v.at[s], v.at[c]) /\ ~InView(v.at[s], old) THEN OnCreatureFound(v, s, c)
                    ELSE IF InView(v.at[s], old) /\ ~InView(v.at[s], v.at[c]) THEN OnCreatureLeave(v, s, c)
                    ELSE v
  PROVE  /\ Mild(v, u, Unseen(v, s, c), {})
         /\ c \in Players /\ Placed(v, s) /\ InView(v.at[s], v.at[c]) /\ u.alive[s]
            /\ (InView(v.at[s], old) /\ v.alive[s] => Knows(v, s, c))
            => Knows(u, s, c)
<1>0. Used(v, c)
  BY DEF Used, Placed
<1>1. CASE InView(v.at[s], v.at[c]) /\ ~InView(v.at[s], old)
  <2>1. u = OnCreatureFound(v, s, c) /\ Unseen(v, s, c) = {}
    BY <1>1 DEF Unseen
  <2>2. CASE Placed(v, s)
    BY <1>0, <2>1, <2>2, OnCreatureFoundSound
  <2>3. CASE ~Placed(v, s)
    BY <1>0, <2>1, <2>3, RemovedFound
  <2> QED BY <2>2, <2>3
<1>2. CASE InView(v.at[s], old) /\ ~InView(v.at[s], v.at[c])
  <2>1. u = OnCreatureLeave(v, s, c) /\ Unseen(v, s, c) = {<<s, c>>}
    BY <1>2 DEF Unseen
  <2>2. CASE Placed(v, s)
    BY <1>2, <2>1, <2>2, OnCreatureLeaveSound
  <2>3. CASE ~Placed(v, s)
    BY <1>2, <2>1, <2>3, RemovedLeft
  <2> QED BY <2>2, <2>3
<1>3. CASE ~ (InView(v.at[s], v.at[c]) /\ ~InView(v.at[s], old)) /\ ~ (InView(v.at[s], old) /\ ~InView(v.at[s], v.at[c]))
  <2>1. u = v
    BY <1>3
  <2>2. Mild(v, v, {}, {})
    BY MildSelf
  <2>3. Mild(v, v, Unseen(v, s, c), {})
    BY <2>2, KeepsMore
  <2> QED BY <1>3, <2>1, <2>3
<1> QED BY <1>1, <1>2, <1>3

\* The same with the idle status updated.
LEMMA MetSound ==
  ASSUME NEW v, Core(v), NEW s \in Monsters, Live(v, s), NEW c \in Creatures, Placed(v, c), NEW old,
         NEW u, u = Met(v, s, c, old)
  PROVE  /\ Mild(v, u, Unseen(v, s, c), {})
         /\ c \in Players /\ Placed(v, s) /\ InView(v.at[s], v.at[c]) /\ u.alive[s]
            /\ (InView(v.at[s], old) /\ v.alive[s] => Knows(v, s, c))
            => Knows(u, s, c)
<1> DEFINE d == IF InView(v.at[s], v.at[c]) /\ ~InView(v.at[s], old) THEN OnCreatureFound(v, s, c)
                ELSE IF InView(v.at[s], old) /\ ~InView(v.at[s], v.at[c]) THEN OnCreatureLeave(v, s, c)
                ELSE v
           X == Unseen(v, s, c)
<1>0. s \in Creatures
  BY Hands
<1>1. u = UpdateIdleStatus(d, s)
  BY DEF Met
<1>2. /\ Mild(v, d, X, {})
      /\ c \in Players /\ Placed(v, s) /\ InView(v.at[s], v.at[c]) /\ d.alive[s]
         /\ (InView(v.at[s], old) /\ v.alive[s] => Knows(v, s, c))
         => Knows(d, s, c)
  BY MeetSound
<1> HIDE DEF d, X
<1>3. Core(d)
  BY <1>2 DEF Mild, Sound
<1>4. CASE Placed(v, s)
  <2>1. Placed(d, s)
    BY <1>0, <1>2, <1>4 DEF Mild, Sound, Stays
  <2>2. Mild(d, u, {}, {})
    BY <1>1, <1>3, <2>1, UpdateIdleStatusSound
  <2>3. Mild(v, u, X, {})
    BY <1>2, <2>2, MildThen
  <2>4. ASSUME c \in Players, InView(v.at[s], v.at[c]), u.alive[s],
               InView(v.at[s], old) /\ v.alive[s] => Knows(v, s, c)
        PROVE  Knows(u, s, c)
    <3>1. Placed(d, c) /\ Sound(d, u, {}, {})
      BY <1>2, <2>2 DEF Mild, Sound, Stays
    <3>2. d.alive[s] => Knows(d, s, c)
      BY <1>2, <1>4, <2>4
    <3> QED BY <2>1, <2>4, <3>1, <3>2, AllKnown
  <2> QED BY <2>3, <2>4 DEF X
<1>5. CASE ~Placed(v, s)
  <2>1. d.status[s] = "removed"
    BY <1>0, <1>2, <1>5, RemovedStays DEF Mild
  <2>2. u = d
    BY <1>1, <2>1, RemovedIdle
  <2> QED BY <1>2, <1>5, <2>2 DEF X
<1> QED BY <1>4, <1>5

\* Whatever x points to is safe as far as c is concerned.
SafeFrom(v, x, c) == \A y \in Pointers(v, x) : c \in {x, y} => Safe(v, x, y)

\* What x took care of, later handlers keep.
LEMMA SafeStays ==
  ASSUME NEW v, v \in State, NEW u, u \in State, NEW X, NEW Y, Keeps(v, u, X, Y),
         NEW x \in Creatures, Placed(u, x),
         NEW c, SafeFrom(v, x, c)
  PROVE  SafeFrom(u, x, c)
<1> SUFFICES ASSUME NEW y \in Pointers(u, x), c \in {x, y}, ~Safe(u, x, y) PROVE FALSE
  BY DEF SafeFrom
<1>1. y \in Pointers(v, x) /\ (Safe(v, x, y) => Placed(u, y))
  BY DEF Keeps, KeepsPointers
<1>2. Safe(v, x, y) /\ Placed(u, y)
  BY <1>1 DEF SafeFrom
<1>3. y \in Creatures
  BY <1>1 DEF Pointers, State
<1>4. u.at[x] = v.at[x] /\ u.at[y] = v.at[y]
  BY <1>2, <1>3 DEF Keeps, KeepsLives, Live
<1> QED BY <1>2, <1>4 DEF Safe

\* x has taken in where c is now.
TookIn(v, c, x) ==
  Placed(v, x) =>
    /\ SafeFrom(v, x, c)
    /\ x = c /\ c \in Monsters => Sees(v, c)
    /\ x \in Monsters \ {c} /\ c \in Players /\ v.alive[x] /\ InView(v.at[x], v.at[c])
         => Knows(v, x, c)

\* Who has taken in where c is remembers while others are told.
LEMMA TookInStays ==
  ASSUME NEW v, v \in State, NEW u, u \in State, NEW X, NEW Y, Keeps(v, u, X, Y),
         NEW x \in Creatures, NEW c \in Creatures,
         Placed(u, c), TookIn(v, c, x), x \in Monsters => x \notin Y /\ \A p \in Players : <<x, p>> \notin X
  PROVE  TookIn(u, c, x)
<1> SUFFICES ASSUME Placed(u, x)
             PROVE  /\ SafeFrom(u, x, c)
                    /\ x = c /\ c \in Monsters => Sees(u, c)
                    /\ x \in Monsters \ {c} /\ c \in Players /\ u.alive[x]
                       /\ InView(u.at[x], u.at[c]) => Knows(u, x, c)
  BY DEF TookIn
<1>0. \A y \in Creatures : Placed(u, y) => Placed(v, y) /\ u.at[y] = v.at[y]
  BY DEF Keeps, KeepsLives, Live
<1>1. SafeFrom(u, x, c)
  BY <1>0, SafeStays DEF TookIn
<1>2. ASSUME x = c, c \in Monsters, NEW p \in Players, u.alive[c], Placed(u, p),
             InView(u.at[c], u.at[p])
      PROVE  Knows(u, c, p)
  <2>1. Placed(v, c) /\ v.alive[c] /\ Placed(v, p) /\ InView(v.at[c], v.at[p])
    BY <1>0, <1>2, Hands DEF Keeps, KeepsLives
  <2>2. Knows(v, c, p)
    BY <1>2, <2>1 DEF TookIn, Sees
  <2>3. c \notin Y /\ <<c, p>> \notin X
    BY <1>2
  <2> QED BY <1>2, <2>2, <2>3 DEF Keeps, KeepsKnown
<1>3. ASSUME x \in Monsters \ {c}, c \in Players, u.alive[x], InView(u.at[x], u.at[c])
      PROVE  Knows(u, x, c)
  <2>1. Placed(v, x) /\ v.alive[x] /\ InView(v.at[x], v.at[c])
    BY <1>0, <1>3, Hands DEF Keeps, KeepsLives
  <2>2. Knows(v, x, c)
    BY <1>3, <2>1 DEF TookIn
  <2> QED BY <1>3, <2>2 DEF Keeps, KeepsKnown
<1> QED BY <1>1, <1>2, <1>3 DEF Sees

\* Most moves leave no summon behind.
LEMMA NoneFar ==
  ASSUME NEW v, NEW before
  PROVE  AllFar(v, before, {}) = v
<1> DEFINE J == [D \in {{}} |-> {v}]
<1>1. v \in J[{}] /\ IsFiniteSet({})
  BY FS_EmptySet
<1>2. \A D \in SUBSET {} : \A i \in {} \ D : \A u \in J[D] : RemoveCreature(u, i, before) \in J[D \cup {i}]
  OBVIOUS
<1>3. AllFar(v, before, {}) \in J[{}]
  <2> HIDE DEF J
  <2> QED BY <1>1, <1>2, FarTurns
<1> QED BY <1>3

\* The summons that are too far away are removed, c is not.
LEMMA AllFarSound ==
  ASSUME NEW v, Core(v), MastersPlaced(v), NEW c \in Creatures, Placed(v, c),
         NEW S \in SUBSET Creatures,
         \A x \in S : Placed(v, x) => v.master[x] = c, NEW before, NEW u, u = AllFar(v, before, S)
  PROVE  Thinned(v, u) /\ MastersPlaced(u) /\ Placed(u, c)
<1> DEFINE J == [D \in SUBSET S |-> {t \in State : Thinned(v, t) /\ MastersPlaced(t) /\ Placed(t, c)}]
<1>0. v \in State /\ Thinned(v, v) /\ IsFiniteSet(S) /\ c # Nobody
  BY ThinnedSelf, Hands, FS_Subset DEF Core, Loose
<1>1. v \in J[{}]
  BY <1>0
<1>2. ASSUME NEW D \in SUBSET S, NEW i \in S \ D, NEW t \in J[D]
      PROVE  RemoveCreature(t, i, before) \in J[D \cup {i}]
  <2> DEFINE z == RemoveCreature(t, i, before)
  <2>1. Thinned(v, t) /\ MastersPlaced(t) /\ Placed(t, c) /\ Core(t) /\ i \in Creatures
    BY DEF Thinned
  <2>2. Thinned(t, z) /\ (~Placed(t, i) => z = t)
    BY <2>1, RemoveCreatureSound
  <2>3. MastersPlaced(z)
    BY <2>1, MastersStayRemoved
  <2>4. t.master[i] # Nobody /\ Placed(t, t.master[i]) => Placed(z, t.master[i])
    BY <2>1, MastersFollowed
  <2> HIDE DEF z
  <2>5. Thinned(v, z) /\ z \in State
    BY <2>1, <2>2, ThinnedOn DEF Thinned, Core, Loose
  <2>6. Placed(z, c)
    <3>1. CASE ~Placed(t, i)
      BY <2>1, <2>2, <3>1
    <3>2. CASE Placed(t, i)
      <4>1. t.master[i] = c
        BY <2>1, <3>2, ThinnedMasters
      <4> QED BY <1>0, <2>1, <2>4, <4>1
    <3> QED BY <3>1, <3>2
  <2> QED BY <2>3, <2>5, <2>6 DEF z
<1>3. u \in J[S]
  <2> HIDE DEF J
  <2> QED BY <1>0, <1>1, <1>2, FarTurns
<1> QED BY <1>3

\* Somebody else sees c move.
LEMMA OtherMoveSound ==
  ASSUME NEW v, Core(v), NEW c \in Creatures, Placed(v, c), NEW s \in Creatures \ {c}, Live(v, s),
         NEW old, NEW far, NEW before,
         s \in Monsters /\ c \in Players /\ Placed(v, s) /\ InView(v.at[s], old)
         /\ InView(v.at[s], v.at[c]) /\ v.alive[s]
           => Knows(v, s, c),
         NEW u, u = OnCreatureMove(v, s, c, old, far, before)
  PROVE  Sound(v, u, Unseen(v, s, c), {}) /\ TookIn(u, c, s)
<1> DEFINE a == LetGoAttacked(LetGoFollowed(v, s, c), s, c)
           X == Unseen(v, s, c)
<1>0. v \in State /\ Loose(v) /\ Used(v, s)
  BY HeldIsUsed DEF Core, Loose
<1>1. CreatureMoved(v, s, c, far, before) = a
  <2>1. AllFar(v, before, {}) = v
    BY NoneFar
  <2>2. CreatureMoved(v, s, c, far, before) = LetGoAttacked(LetGoFollowed(AllFar(v, before, {}), s, c), s, c)
    BY DEF CreatureMoved, AllFar, InTurn, FoldSet, MapThenFoldSet
  <2> QED BY <2>1, <2>2
<1>2. /\ Mild(v, a, {}, {}) /\ Repointed(v, a)
      /\ \A y \in Pointers(a, s) : c \in {s, y} => InView(a.at[s], a.at[y])
  BY <1>0, LetGoBothSound
<1>3. u = IF s \in Monsters THEN Noticed(Met(a, s, c, old), s, c) ELSE a
  <2>1. s # c
    OBVIOUS
  <2> QED BY <1>1, <2>1 DEF OnCreatureMove, MonsterMoved
<1> HIDE DEF a
<1>4. Core(a) /\ a \in State /\ Placed(a, c) /\ Live(a, s) /\ a.at = v.at /\ a.alive = v.alive
      /\ (Placed(a, s) <=> Placed(v, s))
  BY <1>2 DEF Mild, Sound, Stays, Keeps, KeepsLives, Repointed, Live, Placed
<1>5. SafeFrom(a, s, c)
  BY <1>2, <1>4 DEF SafeFrom, Safe
<1>6. Unseen(a, s, c) = X
  BY <1>4 DEF Unseen
<1> HIDE DEF X
<1>7. CASE s \notin Monsters
  <2>1. u = a
    BY <1>3, <1>7
  <2>2. Mild(v, a, X, {})
    BY <1>2, KeepsMore
  <2> QED BY <1>5, <1>7, <2>1, <2>2 DEF Mild, TookIn, X
<1>8. CASE s \in Monsters
  <2> DEFINE b == Met(a, s, c, old)
  <2>1. /\ Mild(a, b, X, {})
        /\ c \in Players /\ Placed(a, s) /\ InView(a.at[s], a.at[c]) /\ b.alive[s]
           /\ (InView(a.at[s], old) /\ a.alive[s] => Knows(a, s, c))
           => Knows(b, s, c)
    BY <1>4, <1>6, <1>8, MetSound
  <2>2. u = Noticed(b, s, c)
    BY <1>3, <1>8
  <2> HIDE DEF b
  <2>3. Core(b) /\ b \in State /\ Live(b, s) /\ Used(b, s) /\ Placed(b, c)
        /\ (Placed(b, s) <=> Placed(a, s))
    <3>1. Core(b) /\ Live(b, s) /\ Placed(b, c) /\ (Placed(b, s) <=> Placed(a, s))
      BY <1>4, <2>1 DEF Mild, Sound, Stays, Keeps, KeepsLives
    <3> QED BY <3>1, HeldIsUsed DEF Core, Loose
  <2>4. Sound(b, u, {}, {})
    <3>1. CASE u = SelectTarget(b, s, c)
      BY <2>3, <3>1, SelectTargetSound
    <3>2. CASE u = b
      BY <2>3, <3>2, SoundSelf
    <3> QED BY <2>2, <3>1, <3>2 DEF Noticed
  <2>5. Sound(v, u, X, {})
    <3>1. Sound(v, b, X, {})
      BY <1>2, <2>1, SoundThen DEF Mild
    <3> QED BY <2>4, <3>1, SoundThen
  <2>6. ASSUME Placed(b, s) PROVE SafeFrom(b, s, c)
    BY <1>4, <1>5, <2>1, <2>3, <2>6, SafeStays DEF Mild, Sound
  <2>7. ASSUME Placed(b, s), c \in Players, b.alive[s], InView(b.at[s], b.at[c])
        PROVE  Knows(b, s, c)
    <3>1. b.at[s] = a.at[s] /\ b.at[c] = a.at[c] /\ Placed(a, s) /\ Placed(v, s)
      BY <1>4, <2>1, <2>3, <2>7 DEF Mild, Sound, Keeps, KeepsLives, Live
    <3>2. InView(a.at[s], old) /\ a.alive[s] => Knows(a, s, c)
      <4> SUFFICES ASSUME InView(a.at[s], old), a.alive[s] PROVE Knows(a, s, c)
        OBVIOUS
      <4>1. Knows(v, s, c)
        BY <1>4, <1>8, <2>7, <3>1
      <4> QED BY <1>2, <4>1 DEF Knows, Awake, Repointed
    <3> QED BY <2>1, <2>7, <3>1, <3>2
  <2>8. TookIn(b, c, s)
    BY <2>6, <2>7 DEF TookIn
  <2>9. TookIn(u, c, s)
    <3>1. u \in State /\ Keeps(b, u, {}, {}) /\ Placed(u, c)
      BY <2>3, <2>4 DEF Sound, Stays, Core, Loose
    <3> QED BY <2>3, <2>8, <3>1, TookInStays
  <2> QED BY <2>5, <2>9 DEF X
<1> QED BY <1>7, <1>8

\* c itself hears that it has moved.
LEMMA OwnMoveSound ==
  ASSUME NEW v, Core(v), MastersPlaced(v), NEW c \in Creatures, Placed(v, c),
         \A y \in Pointers(v, c) : Placed(v, y),
         NEW far \in SUBSET Creatures, \A x \in far : Placed(v, x) => v.master[x] = c, NEW old,
         NEW before,
         NEW u, u = OnCreatureMove(v, c, c, old, far, before)
  PROVE  Core(u) /\ Keeps(v, u, {c} \X Creatures, {}) /\ MastersPlaced(u) /\ Placed(u, c)
         /\ TookIn(u, c, c)
<1> DEFINE a == AllFar(v, before, far)
           b == LetGoAttacked(LetGoFollowed(a, c, c), c, c)
           X == {c} \X Creatures
<1>0. v \in State
  BY DEF Core, Loose
<1>1. u = IF c \in Monsters THEN UpdateIdleStatus(UpdateTargetList(b, c), c) ELSE b
  BY DEF OnCreatureMove, MonsterMoved, CreatureMoved, AllFar, InTurn, FoldSet, MapThenFoldSet
<1>2. Thinned(v, a) /\ MastersPlaced(a) /\ Placed(a, c)
  BY AllFarSound
<1> HIDE DEF a
<1>3. Core(a) /\ a \in State /\ Used(a, c) /\ Keeps(v, a, {}, {})
  BY <1>2 DEF Thinned, Core, Loose, Used, Placed
<1>4. /\ Mild(a, b, {}, {}) /\ Repointed(a, b)
      /\ \A y \in Pointers(b, c) : c \in {c, y} => InView(b.at[c], b.at[y])
  BY <1>3, LetGoBothSound
<1> HIDE DEF b
<1>5. SafeFrom(b, c, c)
  <2> SUFFICES ASSUME NEW y \in Pointers(b, c) PROVE Safe(b, c, y)
    BY DEF SafeFrom
  <2>1. y \in Pointers(a, c) /\ InView(a.at[c], a.at[y])
    BY <1>4 DEF Mild, Calm, Repointed
  <2>2. y \in Creatures
    <3>1. a.attacked[c] \in Creatures \cup {Nobody} /\ a.follow[c] \in Creatures \cup {Nobody}
      BY <1>3, StateIs DEF Typed
    <3> QED BY <2>1, <3>1 DEF Pointers
  <2>3. Safe(a, c, y)
    <3>1. CASE y \in Pointers(v, c) /\ (Safe(v, c, y) => Placed(a, y))
      <4>1. Placed(v, y)
        BY <3>1
      <4>2. a.at[c] = v.at[c] /\ a.at[y] = v.at[y]
        BY <1>3, <2>2, <4>1 DEF Keeps, KeepsLives, Live
      <4> QED BY <2>1, <3>1, <4>1, <4>2 DEF Safe
    <3> QED BY <1>2, <1>3, <2>1, <3>1 DEF Keeps, KeepsPointers
  <2> QED BY <1>4, <2>3 DEF Safe, Repointed, Placed
<1>6. Core(b) /\ b \in State /\ Placed(b, c) /\ MastersPlaced(b) /\ Sound(a, b, {}, {})
  <2>1. Sound(a, b, {}, {})
    BY <1>4 DEF Mild
  <2> QED BY <1>2, <1>3, <2>1, MastersStay DEF Sound, Stays, Core, Loose
<1>7. Keeps(v, b, {}, {})
  <2>1. Keeps(v, b, {} \cup {}, {} \cup {})
    BY <1>0, <1>3, <1>6, KeepsOn DEF Sound
  <2>2. {} \cup {} = {}
    OBVIOUS
  <2> QED BY <2>1, <2>2
<1>8. CASE c \notin Monsters
  <2>1. u = b
    BY <1>1, <1>8
  <2>2. Keeps(v, b, X, {})
    BY <1>7, KeepsMore
  <2> QED BY <1>5, <1>6, <1>8, <2>1, <2>2 DEF TookIn
<1>9. CASE c \in Monsters
  <2>1. Mild(b, u, X, {}) /\ Sees(u, c)
    BY <1>1, <1>6, <1>9, LookSound
  <2>2. Sound(b, u, X, {}) /\ Core(u) /\ u \in State /\ Placed(u, c)
    BY <1>6, <2>1 DEF Mild, Sound, Stays, Core, Loose
  <2>3. MastersPlaced(u)
    <3> HIDE DEF X
    <3> QED BY <1>6, <2>2, MastersStay
  <2>4. Keeps(v, u, X, {})
    <3>1. Keeps(v, u, {} \cup X, {} \cup {})
      BY <1>0, <1>6, <1>7, <2>2, KeepsOn DEF Sound
    <3>2. {} \cup X = X /\ {} \cup {} = {}
      OBVIOUS
    <3> QED BY <3>1, <3>2
  <2>5. SafeFrom(u, c, c)
    BY <1>5, <1>6, <2>2, SafeStays DEF Sound
  <2> QED BY <1>9, <2>1, <2>2, <2>3, <2>4, <2>5 DEF TookIn
<1> QED BY <1>8, <1>9

\* Who need not know whom any more when c has moved.
MoveApart(v, c) == ({c} \X Creatures) \cup {<<s, c>> : s \in {x \in Creatures : ~InView(v.at[x], v.at[c])}}

(***************************************************************************)
(* The spectators hear, one after the other, that c has moved.  Here v is  *)
(* the state in which c is at its new place and nobody knows.              *)
(***************************************************************************)
Hearing(v, t, c, D) ==
  /\ t \in State /\ Core(t) /\ Keeps(v, t, MoveApart(v, c), {}) /\ MastersPlaced(t) /\ Placed(t, c)
  /\ c \notin D => Stays(v, t)
  /\ \A s \in D : TookIn(t, c, s)

\* One more of the spectators hears.
LEMMA HearingOn ==
  ASSUME NEW v, Core(v), NEW c \in Creatures, Placed(v, c),
         \A y \in Pointers(v, c) : Placed(v, y),
         NEW far \in SUBSET Creatures, \A x \in far : Placed(v, x) => v.master[x] = c, NEW old,
         NEW before,
         \A m \in Monsters \ {c} :
           c \in Players /\ Placed(v, m) /\ InView(v.at[m], old) /\ v.alive[m] => Knows(v, m, c),
         NEW D \in SUBSET Creatures, NEW i \in Creatures \ D, Placed(v, i), NEW t,
         Hearing(v, t, c, D)
  PROVE  Hearing(v, OnCreatureMove(t, i, c, old, far, before), c, D \cup {i})
<1> DEFINE z == OnCreatureMove(t, i, c, old, far, before)
           X == MoveApart(v, c)
<1>0. /\ v \in State /\ t \in State /\ Core(t) /\ Keeps(v, t, X, {}) /\ MastersPlaced(t)
      /\ Placed(t, c)
      /\ Live(t, i) /\ t.at[i] = v.at[i] /\ t.at[c] = v.at[c]
  BY DEF Hearing, Core, Loose, Keeps, KeepsLives, Live
<1>s. SUFFICES Hearing(v, z, c, D \cup {i})
  OBVIOUS
<1>1. ASSUME NEW X2, X2 \subseteq X, X2 \subseteq {i} \X Creatures, z \in State, Core(z),
             Keeps(t, z, X2, {}),
             MastersPlaced(z), Placed(z, c), TookIn(z, c, i), c \notin D \cup {i} => Stays(t, z)
      PROVE  Hearing(v, z, c, D \cup {i})
  <2>1. Keeps(v, z, X, {})
    <3> HIDE DEF z, X
    <3>1. Keeps(v, z, X \cup X2, {} \cup {})
      BY <1>0, <1>1, KeepsOn
    <3>2. X \cup X2 = X /\ {} \cup {} = {}
      BY <1>1
    <3> QED BY <3>1, <3>2
  <2>2. ASSUME NEW s \in D PROVE TookIn(z, c, s)
    <3>1. s \in Creatures /\ s # i /\ TookIn(t, c, s)
      BY DEF Hearing
    <3>2. \A p \in Players : <<s, p>> \notin X2
      BY <1>1, <3>1
    <3> HIDE DEF z
    <3> QED BY <1>0, <1>1, <3>1, <3>2, TookInStays
  <2>3. c \notin D \cup {i} => Stays(v, z)
    <3> HIDE DEF z
    <3> QED BY <1>1 DEF Hearing, Stays
  <2> HIDE DEF z
  <2> QED BY <1>1, <2>1, <2>2, <2>3 DEF Hearing, X
<1>2. CASE i = c
  <2>1. \A x \in far : Placed(t, x) => t.master[x] = c
    <3> SUFFICES ASSUME NEW x \in far, Placed(t, x) PROVE t.master[x] = c
      OBVIOUS
    <3>1. Placed(v, x) /\ t.master[x] = v.master[x]
      BY <1>0 DEF Keeps, KeepsLives, KeepsMasters
    <3> QED BY <3>1
  <2>2. \A y \in Pointers(t, c) : Placed(t, y)
    <3> SUFFICES ASSUME NEW y \in Pointers(t, c), ~Safe(t, c, y) PROVE Placed(t, y)
      BY DEF Safe
    <3>1. y \in Pointers(v, c)
      BY <1>0 DEF Keeps, KeepsPointers
    <3>2. y \in Creatures
      <4>1. v.attacked[c] \in Creatures \cup {Nobody} /\ v.follow[c] \in Creatures \cup {Nobody}
        BY <1>0, StateIs DEF Typed
      <4> QED BY <3>1, <4>1 DEF Pointers
    <3> QED BY <1>2, <3>1, <3>2 DEF Hearing, Stays
  <2>3. z = OnCreatureMove(t, c, c, old, far, before)
    BY <1>2
  <2> HIDE DEF z
  <2>4. Core(z) /\ Keeps(t, z, {c} \X Creatures, {}) /\ MastersPlaced(z) /\ Placed(z, c)
        /\ TookIn(z, c, c)
    BY <1>0, <2>1, <2>2, <2>3, OwnMoveSound
  <2>5. {c} \X Creatures \subseteq X /\ {c} \X Creatures \subseteq {i} \X Creatures /\ z \in State
    BY <1>2, <2>4 DEF MoveApart, Core, Loose
  <2>6. c \in D \cup {i}
    BY <1>2
  <2> HIDE DEF X
  <2> QED BY <1>1, <1>2, <2>4, <2>5, <2>6
<1>3. CASE i # c
  <2>1. i \in Monsters /\ c \in Players /\ Placed(t, i) /\ InView(t.at[i], old)
        /\ InView(t.at[i], t.at[c]) /\ t.alive[i]
          => Knows(t, i, c)
    <3> SUFFICES ASSUME i \in Monsters, c \in Players, Placed(t, i), InView(t.at[i], old),
                        InView(t.at[i], t.at[c]), t.alive[i]
                 PROVE  Knows(t, i, c)
      OBVIOUS
    <3>1. v.alive[i]
      BY <1>0 DEF Keeps, KeepsLives
    <3>2. Knows(v, i, c)
      BY <1>0, <1>3, <3>1
    <3>3. <<i, c>> \notin X
      BY <1>0, <1>3 DEF MoveApart
    <3> QED BY <1>0, <3>2, <3>3 DEF Keeps, KeepsKnown
  <2> DEFINE X2 == Unseen(t, i, c)
  <2>2. Sound(t, z, X2, {}) /\ TookIn(z, c, i)
    BY <1>0, <1>3, <2>1, OtherMoveSound
  <2>3. X2 \subseteq X /\ X2 \subseteq {i} \X Creatures
    BY <1>0 DEF Unseen, MoveApart
  <2> HIDE DEF z, X, X2
  <2>4. z \in State /\ Core(z) /\ Keeps(t, z, X2, {}) /\ MastersPlaced(z) /\ Placed(z, c)
        /\ Stays(t, z)
    BY <1>0, <2>2, MastersStay DEF Sound, Stays, Core, Loose
  <2> QED BY <1>1, <2>2, <2>3, <2>4
<1> QED BY <1>2, <1>3

Shifted(v, c, place) == [v EXCEPT !.at[c] = place]

\* The new position, before anybody knows of it.
LEMMA ShiftedIs ==
  ASSUME NEW v, Core(v), NEW c \in Creatures, NEW place \in Places, NEW u, u = Shifted(v, c, place)
  PROVE  /\ Core(u) /\ u.at[c] = place /\ \A x \in Creatures \ {c} : u.at[x] = v.at[x]
         /\ u.status = v.status /\ u.alive = v.alive /\ u.refs = v.refs /\ u.toRelease = v.toRelease
         /\ u.checked = v.checked /\ u.inVector = v.inVector /\ u.master = v.master
         /\ u.summons = v.summons
         /\ u.attacked = v.attacked /\ u.follow = v.follow /\ u.idle = v.idle
         /\ u.targets = v.targets
         /\ u.friends = v.friends /\ u.spawned = v.spawned /\ u.checkSpawnEvent = v.checkSpawnEvent
         /\ u.scheduled = v.scheduled /\ u.forgotten = v.forgotten /\ u.filled = v.filled
<1>0. v \in State /\ Loose(v) /\ Typed(v)
  BY StateIs DEF Core, Loose
<1>1. Shaped(u)
  BY <1>0, StateIs DEF Shaped, Shifted
<1>2. /\ u.at = [v.at EXCEPT ![c] = place]
      /\ u.status = v.status /\ u.alive = v.alive /\ u.refs = v.refs /\ u.toRelease = v.toRelease
      /\ u.checked = v.checked /\ u.inVector = v.inVector /\ u.master = v.master
      /\ u.summons = v.summons
      /\ u.attacked = v.attacked /\ u.follow = v.follow /\ u.idle = v.idle /\ u.targets = v.targets
      /\ u.friends = v.friends /\ u.spawned = v.spawned /\ u.checkSpawnEvent = v.checkSpawnEvent
      /\ u.scheduled = v.scheduled /\ u.forgotten = v.forgotten /\ u.filled = v.filled
  BY <1>0, StateIs DEF Shaped, Fields, Shifted
<1>3. u \in State
  <2>1. Typed(u)
    BY <1>0, <1>2 DEF Typed
  <2> QED BY <1>1, <2>1, StateIs
<1>4. u.at[c] = place /\ \A x \in Creatures \ {c} : u.at[x] = v.at[x]
  BY <1>0, <1>2 DEF Typed
<1>5. Exact(u)
  <2>1. \A x \in Creatures : References(u, x) = References(v, x)
    BY <1>2 DEF References, Placed
  <2> QED BY <1>0, <1>2, <2>1 DEF Loose, Exact
<1>6. Lines(u)
  BY <1>0, <1>2 DEF Loose, Lines
<1>7. Blank(u)
  BY <1>0, <1>2 DEF Loose, Blank
<1>8. \A x : (Live(u, x) <=> Live(v, x)) /\ (Placed(u, x) <=> Placed(v, x)) /\ (Awake(u, x) <=> Awake(v, x))
  BY <1>2 DEF Live, Placed, Awake
<1>9. MastersLive(u)
  BY <1>0, <1>2, <1>8 DEF Loose, MastersLive
<1>10. Core(u)
  BY <1>0, <1>2, <1>3, <1>5, <1>6, <1>7, <1>8, <1>9 DEF Core, Loose
<1> QED BY <1>2, <1>4, <1>10

\* A creature that walks leaves everything in order.
LEMMA MoveCreatureSound ==
  ASSUME NEW v, Bound(v), NEW c \in Creatures, Placed(v, c), NEW place \in Places,
         NEW far \in SUBSET v.summons[c],
         NEW before, NEW u, u = MoveCreature(v, c, place, far, before)
  PROVE  /\ Bound(u) /\ Placed(u, c) /\ u.at[c] = place
         /\ \A x \in Creatures \ {c} : Placed(u, x) => Placed(v, x) /\ u.at[x] = v.at[x]
<1>1. CASE place = v.at[c]
  <2>1. u = v
    BY <1>1 DEF MoveCreature
  <2> QED BY <1>1, <2>1
<1>2. CASE place # v.at[c]
  <2> DEFINE a == Shifted(v, c, place)
             old == v.at[c]
             S == (Spectators(v, old) \cup Spectators(a, place)) \ {c}
             W == S \cup {c}
             J == [D \in SUBSET W |-> {t \in State : Hearing(a, t, c, D)}]
  <2>0. Core(v) /\ v \in State /\ Settled(v) /\ Typed(v)
    BY StateIs DEF Bound, Core, Loose
  <2>1. u = TellMove(a, S, before, c, old, far)
    BY <1>2 DEF MoveCreature, Shifted
  <2>2. /\ Core(a) /\ a.at[c] = place /\ \A x \in Creatures \ {c} : a.at[x] = v.at[x]
        /\ a.status = v.status /\ a.alive = v.alive /\ a.toRelease = v.toRelease
        /\ a.checked = v.checked /\ a.inVector = v.inVector /\ a.master = v.master
        /\ a.attacked = v.attacked /\ a.follow = v.follow /\ a.targets = v.targets
        /\ a.spawned = v.spawned /\ a.checkSpawnEvent = v.checkSpawnEvent
        /\ a.scheduled = v.scheduled /\ a.forgotten = v.forgotten /\ a.filled = v.filled
    BY <2>0, ShiftedIs
  <2> HIDE DEF a
  <2>3. /\ a \in State /\ Placed(a, c) /\ \A x : Placed(a, x) <=> Placed(v, x)
        /\ \A x : Pointers(a, x) = Pointers(v, x)
        /\ \A m, p : Knows(v, m, p) <=> Knows(a, m, p)
        /\ \A x : Minded(v, x) <=> Minded(a, x)
    BY <2>2 DEF Core, Loose, Placed, Pointers, Knows, Minded, Awake
  <2>4. \A x \in Creatures : Placed(v, x) => \A y \in Pointers(v, x) : Safe(v, x, y) /\ y \in Creatures
    <3> SUFFICES ASSUME NEW x \in Creatures, Placed(v, x), NEW y \in Pointers(v, x)
                 PROVE  Safe(v, x, y) /\ y \in Creatures
      OBVIOUS
    <3>1. Safe(v, x, y)
      BY <2>0 DEF Settled, Orderly, PointersSafe
    <3>2. v.attacked[x] \in Creatures \cup {Nobody} /\ v.follow[x] \in Creatures \cup {Nobody}
      BY <2>0 DEF Typed
    <3> QED BY <3>1, <3>2 DEF Pointers
  <2>5. /\ S \in SUBSET Creatures /\ IsFiniteSet(S) /\ c \notin S /\ \A s \in W : s \in Creatures /\ Placed(a, s)
        /\ \A x \in Creatures : Placed(a, x) /\ (InView(v.at[x], old) \/ InView(a.at[x], place)) => x \in W
    <3>1. S \in SUBSET Creatures
      BY SpectatorsIs
    <3>2. IsFiniteSet(S)
      BY <3>1, Hands, FS_Subset
    <3>3. \A s \in W : s \in Creatures /\ Placed(a, s)
      BY <2>3, SpectatorsIs
    <3>4. \A x \in Creatures : Placed(a, x) /\ (InView(v.at[x], old) \/ InView(a.at[x], place)) => x \in W
      BY <2>3, SpectatorsIs
    <3> QED BY <3>1, <3>2, <3>3, <3>4
  <2>6. \A y \in Pointers(a, c) : Placed(a, y)
    BY <2>3, <2>4 DEF Safe
  <2>7. far \in SUBSET Creatures /\ \A x \in far : Placed(a, x) => a.master[x] = c
    <3>1. v.summons[c] \subseteq Creatures /\ \A x \in Creatures : x \in v.summons[c] => v.master[x] = c
      BY <2>0 DEF Typed, Core, Loose, Lines
    <3> QED BY <2>2, <3>1
  <2>8. \A m \in Monsters \ {c} : c \in Players /\ Placed(a, m) /\ InView(a.at[m], old) /\ a.alive[m] => Knows(a, m, c)
    <3> SUFFICES ASSUME NEW m \in Monsters \ {c}, c \in Players, Placed(v, m),
                        InView(v.at[m], old), v.alive[m]
                 PROVE  Knows(v, m, c)
      BY <2>2, <2>3, Hands
    <3> QED BY <2>0 DEF Settled, Orderly, Sight, Sees
  <2>9. MastersPlaced(a)
    BY <2>0, <2>2, <2>3 DEF Settled, Orderly, MastersPlaced
  <2> HIDE DEF S
  <2>10. a \in J[{}]
    <3>1. Keeps(a, a, {}, {}) /\ Stays(a, a)
      BY KeepsSelf
    <3>2. Keeps(a, a, MoveApart(a, c), {})
      BY <3>1, KeepsMore
    <3> QED BY <2>2, <2>3, <2>9, <3>1, <3>2 DEF Hearing
  <2>11. ASSUME NEW D \in SUBSET W, NEW i \in W \ D, NEW t \in J[D]
         PROVE  OnCreatureMove(t, i, c, old, far, before) \in J[D \cup {i}]
    <3>1. D \in SUBSET Creatures /\ i \in Creatures \ D /\ Placed(a, i) /\ Hearing(a, t, c, D)
      BY <2>5
    <3>2. Hearing(a, OnCreatureMove(t, i, c, old, far, before), c, D \cup {i})
      BY <2>2, <2>3, <2>6, <2>7, <2>8, <3>1, HearingOn
    <3> QED BY <3>2 DEF Hearing
  <2>12. u \in J[W]
    <3>1. IsFiniteSet(S) /\ c \notin S
      BY <2>5
    <3>2. \A D \in SUBSET (S \cup {c}) : \A i \in (S \cup {c}) \ D : \A t \in J[D] :
            OnCreatureMove(t, i, c, old, far, before) \in J[D \cup {i}]
      <4> HIDE DEF J, old
      <4> QED BY <2>11
    <3> HIDE DEF J, old
    <3>3. TellMove(a, S, before, c, old, far) \in J[S \cup {c}]
      BY <2>10, <3>1, <3>2, MoveOrder
    <3> QED BY <2>1, <3>3
  <2>13. /\ u \in State /\ Core(u) /\ Keeps(a, u, MoveApart(a, c), {}) /\ MastersPlaced(u)
         /\ Placed(u, c)
         /\ \A s \in W : TookIn(u, c, s)
    BY <2>12 DEF Hearing
  <2> HIDE DEF J
  <2>14. \A x \in Creatures : Placed(u, x) => Placed(a, x) /\ Placed(v, x) /\ u.at[x] = a.at[x]
    BY <2>3, <2>13 DEF Keeps, KeepsLives, Live
  <2>15. PointersSafe(u)
    <3> SUFFICES ASSUME NEW x \in Creatures, Placed(u, x), NEW y \in Pointers(u, x),
                        ~Safe(u, x, y) PROVE FALSE
      BY DEF PointersSafe
    <3>1. y \in Pointers(v, x) /\ (Safe(a, x, y) => Placed(u, y))
      BY <2>3, <2>13 DEF Keeps, KeepsPointers
    <3>2. Safe(v, x, y) /\ y \in Creatures
      BY <2>4, <2>14, <3>1
    <3>3. CASE x \in W /\ c \in {x, y}
      BY <2>13, <3>3 DEF TookIn, SafeFrom
    <3>4. CASE c \notin {x, y}
      <4>1. Safe(a, x, y)
        BY <2>2, <2>3, <3>2, <3>4 DEF Safe
      <4>2. Placed(u, y) /\ u.at[x] = a.at[x] /\ u.at[y] = a.at[y]
        BY <2>14, <3>1, <3>2, <4>1
      <4> QED BY <4>1, <4>2 DEF Safe
    <3>5. CASE x \notin W /\ y = c
      <4>1. InView(v.at[x], old)
        BY <3>2, <3>5 DEF Safe
      <4> QED BY <2>5, <2>14, <3>5, <4>1
    <3>6. c \in W
      OBVIOUS
    <3> QED BY <3>3, <3>4, <3>5, <3>6
  <2>16. Sight(u)
    <3> SUFFICES ASSUME NEW m \in Monsters, NEW p \in Players, Placed(u, m), u.alive[m],
                        Placed(u, p), InView(u.at[m], u.at[p])
                 PROVE  Knows(u, m, p)
      BY DEF Sight, Sees
    <3>0. m \in Creatures /\ p \in Creatures /\ m # p
      BY Hands
    <3>1. CASE m = c
      BY <2>13, <3>0, <3>1 DEF TookIn, Sees
    <3>2. CASE p = c
      <4>1. m \in W
        BY <2>2, <2>5, <2>14, <3>0, <3>2
      <4> QED BY <2>13, <3>0, <3>2, <4>1 DEF TookIn
    <3>3. CASE m # c /\ p # c
      <4>1. Placed(v, m) /\ Placed(v, p) /\ u.at[m] = v.at[m] /\ u.at[p] = v.at[p]
        BY <2>2, <2>14, <3>0, <3>3
      <4>2. v.alive[m]
        BY <2>2, <2>13 DEF Keeps, KeepsLives
      <4>3. Knows(a, m, p)
        BY <2>0, <2>3, <4>1, <4>2 DEF Settled, Orderly, Sight, Sees
      <4>4. <<m, p>> \notin MoveApart(a, c)
        BY <3>3 DEF MoveApart
      <4> QED BY <2>13, <4>3, <4>4 DEF Keeps, KeepsKnown
    <3> QED BY <3>1, <3>2, <3>3
  <2>17. AllMinded(u)
    BY <2>0, <2>3, <2>13, <2>14 DEF Settled, Orderly, AllMinded, Keeps, KeepsMinded
  <2>18. SpawnWatched(u)
    <3>1. SpawnWatched(a)
      BY <2>0, <2>2, <2>3 DEF Settled, SpawnWatched
    <3> QED BY <2>3, <2>13, <3>1, SpawnWatchedKept DEF Keeps
  <2>19. Bound(u)
    BY <2>13, <2>15, <2>16, <2>17, <2>18 DEF Bound, Settled, Orderly
  <2>20. u.at[c] = place
    BY <2>2, <2>13, <2>14
  <2> QED BY <2>2, <2>13, <2>14, <2>19, <2>20
<1> QED BY <1>1, <1>2

-----------------------------------------------------------------------------
(* Placing creatures *)

\* Game::internalPlaceCreature, of an object that nobody knows yet.
LEMMA InternalPlaceIs ==
  ASSUME NEW v, Core(v), NEW c \in Creatures, v.status[c] = "free", NEW place \in Places,
         NEW u, u = InternalPlaceCreature(v, c, place)
  PROVE  /\ Core(u) /\ u.at[c] = place /\ \A x \in Creatures \ {c} : u.at[x] = v.at[x]
         /\ \A x \in Creatures : Placed(u, x) <=> Placed(v, x) \/ x = c
         /\ u.alive = v.alive /\ u.checked = v.checked /\ u.inVector = v.inVector
         /\ u.master = v.master /\ u.summons = v.summons /\ u.attacked = v.attacked
         /\ u.follow = v.follow
         /\ u.targets = v.targets /\ u.spawned = v.spawned /\ u.checkSpawnEvent = v.checkSpawnEvent
         /\ u.scheduled = v.scheduled /\ u.forgotten = v.forgotten /\ u.filled = v.filled
         /\ u.master[c] = Nobody /\ u.summons[c] = {} /\ Pointers(u, c) = {}
<1>0. v \in State /\ Loose(v) /\ Typed(v)
  BY StateIs DEF Core, Loose
<1>1. u = [v EXCEPT !.status[c] = "placed", !.at[c] = place, !.refs[c] = @ + 1]
  BY <1>0, StateIs DEF InternalPlaceCreature, IncrementReferenceCounter, Shaped, Fields
<1>2. Shaped(u)
  BY <1>0, <1>1, StateIs DEF Shaped
<1>3. /\ u.status = [v.status EXCEPT ![c] = "placed"] /\ u.at = [v.at EXCEPT ![c] = place]
      /\ u.refs = [v.refs EXCEPT ![c] = @ + 1]
      /\ u.alive = v.alive /\ u.toRelease = v.toRelease
      /\ u.checked = v.checked /\ u.inVector = v.inVector /\ u.master = v.master
      /\ u.summons = v.summons
      /\ u.attacked = v.attacked /\ u.follow = v.follow /\ u.idle = v.idle /\ u.targets = v.targets
      /\ u.friends = v.friends /\ u.spawned = v.spawned /\ u.checkSpawnEvent = v.checkSpawnEvent
      /\ u.scheduled = v.scheduled /\ u.forgotten = v.forgotten /\ u.filled = v.filled
  BY <1>0, <1>1, StateIs DEF Shaped, Fields
<1>4. u \in State
  <2>1. Typed(u)
    BY <1>0, <1>3 DEF Typed
  <2> QED BY <1>2, <2>1, StateIs
<1>5. /\ u.at[c] = place /\ \A x \in Creatures \ {c} : u.at[x] = v.at[x]
      /\ u.status[c] = "placed" /\ \A x \in Creatures \ {c} : u.status[x] = v.status[x]
      /\ u.refs[c] = v.refs[c] + 1 /\ \A x \in Creatures \ {c} : u.refs[x] = v.refs[x]
  BY <1>0, <1>3 DEF Typed
<1>6. \A x \in Creatures : Placed(u, x) <=> Placed(v, x) \/ x = c
  BY <1>5 DEF Placed
<1>7. v.refs[c] = 0 /\ ~Placed(v, c) /\ v.master[c] = Nobody
  BY <1>0, HeldIsUsed DEF Loose, Used, Placed
<1>8. v.attacked[c] = Nobody /\ v.follow[c] = Nobody /\ v.summons[c] = {}
  BY <1>0 DEF Loose, Blank
<1>9. Exact(u)
  <2> SUFFICES ASSUME NEW x \in Creatures PROVE u.refs[x] = References(u, x)
    BY DEF Exact
  <2> DEFINE n == v.toRelease[x] + Count(v.inVector[x]) + Cardinality(Within(Slots, v.spawned, x))
                  + Count(v.master[x] # Nobody) + Cardinality(Within(Creatures, v.targets, x))
                  + Cardinality(Within(Creatures, v.friends, x))
  <2>1. v.refs[x] = References(v, x)
    BY <1>0 DEF Loose, Exact
  <2>2. /\ Cardinality(Within(Slots, v.spawned, x)) \in Nat
        /\ Cardinality(Within(Creatures, v.targets, x)) \in Nat
        /\ Cardinality(Within(Creatures, v.friends, x)) \in Nat /\ v.toRelease[x] \in Nat
        /\ Count(v.master[x] # Nobody) \in Nat /\ Count(v.inVector[x]) \in Nat
    BY <1>0, WithinCounts, Hands DEF Typed, Count
  <2>3. References(v, x) = Count(Placed(v, x)) + n /\ n \in Nat
    BY <2>2, ReferencesAre DEF Count
  <2>4. References(u, x) = Count(Placed(u, x)) + n
    BY <1>3, <2>2, ReferencesAre DEF Count
  <2> HIDE DEF n
  <2>5. CASE x = c
    BY <1>5, <1>6, <1>7, <2>1, <2>3, <2>4, <2>5 DEF Count
  <2>6. CASE x # c
    BY <1>5, <1>6, <2>1, <2>3, <2>4, <2>6 DEF Count
  <2> QED BY <2>5, <2>6
<1>10. Lines(u)
  BY <1>0, <1>3 DEF Loose, Lines
<1>11. Blank(u)
  <2> SUFFICES ASSUME NEW x \in Creatures, u.status[x] = "free"
               PROVE  u.alive[x] /\ u.attacked[x] = Nobody /\ u.follow[x] = Nobody
                      /\ u.summons[x] = {}
    BY DEF Blank
  <2>1. v.status[x] = "free"
    BY <1>5
  <2> QED BY <1>0, <1>3, <2>1 DEF Loose, Blank
<1>12. MastersLive(u)
  <2> SUFFICES ASSUME NEW x \in Creatures, Placed(u, x), u.master[x] # Nobody
               PROVE  Live(u, u.master[x])
    BY DEF MastersLive
  <2>1. Placed(v, x) /\ v.master[x] \in Creatures
    BY <1>0, <1>3, <1>6, <1>7 DEF Typed
  <2>2. Live(v, v.master[x])
    BY <1>0, <1>3, <2>1 DEF Loose, MastersLive
  <2> QED BY <1>3, <1>6, <2>1, <2>2 DEF Live
<1>13. Core(u)
  <2>1. \A x \in Creatures : u.status[x] = "free" <=> u.refs[x] = 0
    BY <1>5, <1>7 DEF Core, Loose
  <2>2. \A x \in Creatures : Awake(u, x) => Placed(u, x)
    BY <1>0, <1>3, <1>6 DEF Loose, Awake
  <2> QED BY <1>4, <1>9, <1>10, <1>11, <1>12, <2>1, <2>2 DEF Core, Loose
<1> QED BY <1>3, <1>5, <1>6, <1>7, <1>8, <1>13 DEF Pointers

\* c is told, and those who see it are told of c.
LEMMA AppearSound ==
  ASSUME NEW v, Core(v), NEW s \in Creatures, Placed(v, s), NEW c \in Creatures, Placed(v, c),
         NEW u, u = OnCreatureAppear(v, s, c)
  PROVE  /\ Mild(v, u, IF s = c THEN {c} \X Creatures ELSE {}, {})
         /\ s = c /\ c \in Monsters => Sees(u, c)
         /\ s \in Monsters \ {c} /\ c \in Players /\ u.alive[s] => Knows(u, s, c)
<1>1. CASE s \notin Monsters
  <2>1. u = v
    BY <1>1 DEF OnCreatureAppear
  <2>2. Mild(v, v, {}, {})
    BY MildSelf
  <2>3. Mild(v, v, IF s = c THEN {c} \X Creatures ELSE {}, {})
    BY <2>2, KeepsMore
  <2> QED BY <1>1, <2>1, <2>3
<1>2. CASE s \in Monsters /\ s = c
  <2>1. u = UpdateIdleStatus(UpdateTargetList(v, c), c)
    BY <1>2 DEF OnCreatureAppear
  <2> QED BY <1>2, <2>1, LookSound
<1>3. CASE s \in Monsters /\ s # c
  <2>1. u = OnCreatureFound(v, s, c) /\ Used(v, c)
    BY <1>3 DEF OnCreatureAppear, Used, Placed
  <2> QED BY <1>3, <2>1, OnCreatureFoundSound
<1> QED BY <1>1, <1>2, <1>3

\* All who see c have been told, so that each of the monsters knows a new player.
LEMMA AllAppearSound ==
  ASSUME NEW v, Core(v), NEW c \in Creatures, Placed(v, c), NEW S \in SUBSET Creatures,
         \A s \in S : Placed(v, s),
         NEW u, u = AllAppear(v, c, S)
  PROVE  /\ Mild(v, u, {c} \X Creatures, {})
         /\ c \in S /\ c \in Monsters => Sees(u, c)
         /\ \A m \in (S \cap Monsters) \ {c} : c \in Players /\ u.alive[m] => Knows(u, m, c)
<1> DEFINE X == {c} \X Creatures
           J == [D \in SUBSET S |->
                   {t \in State : /\ Mild(v, t, X, {}) /\ (c \in D /\ c \in Monsters => Sees(t, c))
                                  /\ \A m \in (D \cap Monsters) \ {c} : c \in Players /\ t.alive[m] => Knows(t, m, c)}]
<1>0. v \in State /\ Mild(v, v, X, {}) /\ IsFiniteSet(S)
  <2>1. Mild(v, v, {}, {})
    BY MildSelf
  <2>2. Mild(v, v, X, {})
    BY <2>1, KeepsMore
  <2> QED BY <2>2, Hands, FS_Subset DEF Core, Loose
<1>1. v \in J[{}]
  BY <1>0
<1>2. ASSUME NEW D \in SUBSET S, NEW i \in S \ D, NEW t \in J[D]
      PROVE  OnCreatureAppear(t, i, c) \in J[D \cup {i}]
  <2> DEFINE z == OnCreatureAppear(t, i, c)
             X2 == IF i = c THEN {c} \X Creatures ELSE {}
  <2>1. Mild(v, t, X, {}) /\ Core(t) /\ Placed(t, i) /\ Placed(t, c) /\ i \in Creatures
    BY DEF Mild, Sound, Stays
  <2>2. /\ Mild(t, z, X2, {})
        /\ i = c /\ c \in Monsters => Sees(z, c)
        /\ i \in Monsters \ {c} /\ c \in Players /\ z.alive[i] => Knows(z, i, c)
    BY <2>1, AppearSound
  <2>3. X2 \subseteq X /\ X2 \subseteq {i} \X Creatures
    OBVIOUS
  <2> HIDE DEF z, X2
  <2>4. Mild(v, z, X, {}) /\ z \in State
    <3>1. Mild(t, z, X, {})
      BY <2>2, <2>3, KeepsMore
    <3> QED BY <2>1, <3>1, MildThen DEF Mild, Sound, Core, Loose
  <2>5. ASSUME c \in D \cup {i}, c \in Monsters PROVE Sees(z, c)
    <3>1. CASE c = i
      BY <2>2, <2>5, <3>1
    <3>2. CASE c # i
      <4>1. Sees(t, c) /\ X2 = {}
        BY <2>5, <3>2 DEF X2
      <4>2. Sound(t, z, X2, {}) /\ \A p \in Players : <<c, p>> \notin X2
        BY <2>2, <4>1 DEF Mild
      <4> QED BY <2>1, <2>5, <4>1, <4>2, StillSees
    <3> QED BY <3>1, <3>2
  <2>6. ASSUME NEW m \in ((D \cup {i}) \cap Monsters) \ {c}, c \in Players, z.alive[m]
        PROVE  Knows(z, m, c)
    <3>1. CASE m = i
      BY <2>2, <2>6, <3>1
    <3>2. CASE m # i
      <4>1. m \in (D \cap Monsters) \ {c} /\ (t.alive[m] => Knows(t, m, c)) /\ m \in Monsters
            /\ m \in Creatures
        BY <2>6, <3>2, Hands
      <4>2. <<m, c>> \notin X2 /\ Sound(t, z, X2, {}) /\ Placed(t, m)
        BY <2>1, <2>2, <2>3, <3>2, <4>1 DEF Mild, Sound, Stays
      <4> QED BY <2>1, <2>6, <4>1, <4>2, StillKnows
    <3> QED BY <3>1, <3>2
  <2> QED BY <2>4, <2>5, <2>6 DEF z
<1>3. u \in J[S]
  <2> HIDE DEF J
  <2> QED BY <1>0, <1>1, <1>2, AppearTurns
<1> QED BY <1>3

\* Game::placeCreature.
LEMMA PlaceCreatureSound ==
  ASSUME NEW v, Core(v), Orderly(v), NEW c \in Creatures, v.status[c] = "free",
         NEW place \in Places,
         NEW u, u = PlaceCreature(v, c, place)
  PROVE  /\ Core(u) /\ Orderly(u) /\ KeepsSpawns(v, u) /\ u.master[c] = Nobody /\ u.summons[c] = {}
         /\ \A x \in Creatures : Placed(u, x) <=> Placed(v, x) \/ x = c
         /\ \A x \in Creatures : Placed(v, x) => u.master[x] = v.master[x]
<1> DEFINE a == InternalPlaceCreature(v, c, place)
           S == Spectators(a, place)
           b == AllAppear(a, c, S)
           X == {c} \X Creatures
<1>0. v \in State /\ Loose(v) /\ Typed(v) /\ ~Placed(v, c)
  BY StateIs DEF Core, Loose, Placed
<1>1. u = AddCreatureCheck(b, c)
  BY DEF PlaceCreature, AllAppear, InTurn, FoldSet, MapThenFoldSet
<1>2. /\ Core(a) /\ a.at[c] = place /\ \A x \in Creatures \ {c} : a.at[x] = v.at[x]
      /\ \A x \in Creatures : Placed(a, x) <=> Placed(v, x) \/ x = c
      /\ a.alive = v.alive /\ a.checked = v.checked /\ a.inVector = v.inVector
      /\ a.master = v.master /\ a.summons = v.summons /\ a.attacked = v.attacked
      /\ a.follow = v.follow
      /\ a.targets = v.targets /\ a.spawned = v.spawned /\ a.checkSpawnEvent = v.checkSpawnEvent
      /\ a.scheduled = v.scheduled /\ a.forgotten = v.forgotten /\ a.filled = v.filled
      /\ a.master[c] = Nobody /\ a.summons[c] = {} /\ Pointers(a, c) = {}
  BY InternalPlaceIs
<1> HIDE DEF a
<1>3. /\ S \in SUBSET Creatures /\ \A s \in S : Placed(a, s)
      /\ \A x \in Creatures : Placed(a, x) /\ InView(a.at[x], place) => x \in S
      /\ c \in S
  <2>1. InView(place, place)
    BY Hands, CreaturesAssumption DEF InView
  <2> QED BY <1>2, <2>1, SpectatorsIs
<1> HIDE DEF S
<1>4. /\ Mild(a, b, X, {})
      /\ c \in Monsters => Sees(b, c)
      /\ \A m \in (S \cap Monsters) \ {c} : c \in Players /\ b.alive[m] => Knows(b, m, c)
  BY <1>2, <1>3, AllAppearSound
<1> HIDE DEF b
<1>5. Core(b) /\ Placed(b, c)
  BY <1>2, <1>4 DEF Mild, Sound, Stays
<1>6. Mild(b, u, {}, {}) /\ Awake(u, c)
  BY <1>1, <1>5, AddCreatureCheckSound
<1>7. Mild(a, u, X, {})
  BY <1>2, <1>4, <1>6, MildThen
<1> HIDE DEF X
<1>8. Sound(a, u, X, {}) /\ Keeps(a, u, X, {}) /\ Core(u) /\ Calm(a, u) /\ a \in State
      /\ u \in State
  BY <1>2, <1>7 DEF Mild, Sound, Core, Loose
<1>9. /\ \A x \in Creatures : Placed(u, x) <=> Placed(v, x) \/ x = c
      /\ \A x \in Creatures : Placed(u, x) => u.at[x] = a.at[x] /\ u.master[x] = a.master[x]
  <2>1. \A x \in Creatures : (Placed(u, x) <=> Placed(a, x)) /\ (Placed(a, x) => u.at[x] = a.at[x])
    BY <1>8, SoundPlaces
  <2>2. \A x \in Creatures : Placed(u, x) => u.master[x] = a.master[x]
    BY <1>8 DEF Keeps, KeepsMasters
  <2> QED BY <1>2, <2>1, <2>2
<1>10. u.master[c] = Nobody /\ u.summons[c] = {} /\ Pointers(u, c) = {}
  BY <1>2, <1>8, <1>9 DEF Calm
<1>11. PointersSafe(u)
  <2> SUFFICES ASSUME NEW x \in Creatures, Placed(u, x), NEW y \in Pointers(u, x)
               PROVE  Safe(u, x, y)
    BY DEF PointersSafe
  <2>1. x # c /\ Placed(v, x) /\ y \in Pointers(v, x)
    BY <1>2, <1>8, <1>9, <1>10 DEF Calm, Pointers
  <2>2. Safe(v, x, y)
    BY <2>1 DEF Orderly, PointersSafe
  <2>3. y \in Creatures
    <3>1. v.attacked[x] \in Creatures \cup {Nobody} /\ v.follow[x] \in Creatures \cup {Nobody}
      BY <1>0 DEF Typed
    <3> QED BY <2>1, <3>1 DEF Pointers
  <2>4. y # c /\ Placed(u, y)
    BY <1>0, <1>9, <2>2, <2>3 DEF Safe
  <2>5. u.at[x] = v.at[x] /\ u.at[y] = v.at[y]
    BY <1>2, <1>9, <2>1, <2>3, <2>4
  <2> QED BY <2>2, <2>4, <2>5 DEF Safe
<1>12. MastersPlaced(u)
  <2> SUFFICES ASSUME NEW x \in Creatures, Placed(u, x), u.master[x] # Nobody
               PROVE  Placed(u, u.master[x])
    BY DEF MastersPlaced
  <2>1. x # c /\ Placed(v, x) /\ u.master[x] = v.master[x] /\ v.master[x] \in Creatures
    BY <1>0, <1>2, <1>9, <1>10 DEF Typed
  <2> QED BY <1>9, <2>1 DEF Orderly, MastersPlaced
<1>13. Sight(u)
  <2> SUFFICES ASSUME NEW m \in Monsters, NEW p \in Players, Placed(u, m), u.alive[m],
                      Placed(u, p), InView(u.at[m], u.at[p])
               PROVE  Knows(u, m, p)
    BY DEF Sight, Sees
  <2>0. m \in Creatures /\ p \in Creatures /\ m # p
    BY Hands
  <2>1. Placed(b, m) /\ b.alive[m] /\ Placed(b, p) /\ b.at[m] = u.at[m] /\ b.at[p] = u.at[p]
        /\ Sound(b, u, {}, {})
    BY <1>6, <2>0 DEF Mild, Sound, Keeps, KeepsLives, Live
  <2>2. Knows(b, m, p) => Knows(u, m, p)
    BY <1>6 DEF Mild, Sound, Keeps, KeepsKnown
  <2>3. CASE m = c
    BY <1>4, <2>1, <2>2, <2>3 DEF Sees
  <2>4. CASE p = c
    <3>1. m \in S
      BY <1>2, <1>3, <1>9, <2>0, <2>4
    <3> QED BY <1>4, <2>0, <2>1, <2>2, <2>4, <3>1
  <2>5. CASE m # c /\ p # c
    <3>1. Placed(v, m) /\ Placed(v, p) /\ u.at[m] = v.at[m] /\ u.at[p] = v.at[p]
      BY <1>2, <1>9, <2>0, <2>5
    <3>2. v.alive[m]
      BY <1>2, <1>8 DEF Keeps, KeepsLives
    <3>3. Knows(v, m, p)
      BY <3>1, <3>2 DEF Orderly, Sight, Sees
    <3>4. Knows(a, m, p) /\ <<m, p>> \notin X
      BY <1>2, <2>5, <3>3 DEF Knows, Awake, X
    <3> QED BY <1>8, <3>4 DEF Keeps, KeepsKnown
  <2> QED BY <2>3, <2>4, <2>5
<1>14. AllMinded(u)
  <2> SUFFICES ASSUME NEW x \in Creatures, Placed(u, x) PROVE Minded(u, x)
    BY DEF AllMinded
  <2>1. CASE x = c
    BY <1>6, <2>1 DEF Minded
  <2>2. CASE x # c
    <3>1. Minded(a, x)
      BY <1>2, <1>9, <2>2 DEF Orderly, AllMinded, Minded, Awake
    <3> QED BY <1>8, <3>1 DEF Keeps, KeepsMinded
  <2> QED BY <2>1, <2>2
<1>15. KeepsSpawns(v, u)
  <2>1. /\ u.spawned = v.spawned /\ u.filled = v.filled /\ u.scheduled = v.scheduled
        /\ v.checkSpawnEvent => u.checkSpawnEvent
    BY <1>2, <1>8 DEF Keeps, KeepsSpawns
  <2>2. ASSUME NEW s \in Slots, NEW m \in v.spawned[s], Placed(v, m) PROVE Placed(u, m)
    <3>1. m \in Creatures
      BY <1>0, Hands DEF Typed
    <3> QED BY <1>9, <2>2, <3>1
  <2> QED BY <2>1, <2>2 DEF KeepsSpawns
<1> QED BY <1>2, <1>8, <1>9, <1>10, <1>11, <1>12, <1>13, <1>14, <1>15 DEF Orderly

-----------------------------------------------------------------------------
(* Spawns *)

\* What changes nothing but who counts, and the spawn.
SameWorld(v, u) ==
  /\ u.status = v.status /\ u.at = v.at /\ u.alive = v.alive /\ u.master = v.master
  /\ u.summons = v.summons
  /\ u.attacked = v.attacked /\ u.follow = v.follow /\ u.targets = v.targets
  /\ u.forgotten = v.forgotten
  /\ \A c \in Creatures : Awake(u, c) <=> Awake(v, c)

\* Counting does not disturb the order.
LEMMA OrderlySame ==
  ASSUME NEW v, Orderly(v), NEW u, SameWorld(v, u)
  PROVE  Orderly(u)
<1>1. \A x : Placed(u, x) <=> Placed(v, x)
  BY DEF SameWorld, Placed
<1>2. PointersSafe(u)
  BY <1>1 DEF Orderly, PointersSafe, SameWorld, Pointers, Safe
<1>3. MastersPlaced(u)
  BY <1>1 DEF Orderly, MastersPlaced, SameWorld
<1>4. Sight(u)
  BY <1>1, Hands DEF Orderly, Sight, Sees, Knows, SameWorld
<1>5. AllMinded(u)
  BY <1>1 DEF Orderly, AllMinded, Minded, SameWorld
<1> QED BY <1>2, <1>3, <1>4, <1>5 DEF Orderly

\* What changes counters only leaves the rest of the core.
LEMMA LooseSame ==
  ASSUME NEW v, Loose(v), NEW u \in State, SameWorld(v, u), Exact(u), MastersLive(u),
         \A c \in Creatures : v.status[c] = "free" => u.refs[c] = 0
  PROVE  Loose(u)
<1>1. \A x : Placed(u, x) <=> Placed(v, x)
  BY DEF SameWorld, Placed
<1>2. Lines(u)
  BY DEF Loose, SameWorld, Lines
<1>3. Blank(u)
  BY DEF Loose, SameWorld, Blank
<1> QED BY <1>1, <1>2, <1>3 DEF Loose, SameWorld

\* A monster enters the spawnedMap.
Entered(v, slot, m) ==
  IncrementReferenceCounter([v EXCEPT !.spawned[slot] = @ \cup {m}, !.filled = @ \cup {slot}], m)

\* The spawn counts its monsters.
LEMMA EnteredSound ==
  ASSUME NEW v, Core(v), NEW m \in Monsters, Placed(v, m), NEW slot \in Slots, v.spawned[slot] = {},
         NEW u, u = Entered(v, slot, m)
  PROVE  /\ Core(u) /\ SameWorld(v, u) /\ u.spawned[slot] = {m} /\ \A s \in Slots \ {slot} : u.spawned[s] = v.spawned[s]
         /\ u.filled = v.filled \cup {slot} /\ u.scheduled = v.scheduled
         /\ (u.checkSpawnEvent <=> v.checkSpawnEvent)
<1>0. v \in State /\ Loose(v) /\ Shaped(v) /\ Typed(v) /\ m \in Creatures
  BY StateIs, Hands DEF Core, Loose
<1>1. u = [v EXCEPT !.spawned[slot] = @ \cup {m}, !.filled = @ \cup {slot}, !.refs[m] = @ + 1]
  BY <1>0 DEF Entered, IncrementReferenceCounter, Shaped, Fields
<1>2. Shaped(u)
  BY <1>0, <1>1 DEF Shaped
<1>3. /\ u.status = v.status /\ u.at = v.at /\ u.alive = v.alive /\ u.toRelease = v.toRelease
      /\ u.checked = v.checked /\ u.inVector = v.inVector /\ u.master = v.master
      /\ u.summons = v.summons
      /\ u.attacked = v.attacked /\ u.follow = v.follow /\ u.idle = v.idle /\ u.targets = v.targets
      /\ u.friends = v.friends /\ u.checkSpawnEvent = v.checkSpawnEvent
      /\ u.scheduled = v.scheduled /\ u.forgotten = v.forgotten
      /\ u.refs = [v.refs EXCEPT ![m] = @ + 1]
      /\ u.spawned = [v.spawned EXCEPT ![slot] = @ \cup {m}] /\ u.filled = v.filled \cup {slot}
  BY <1>0, <1>1 DEF Shaped, Fields
<1>4. Typed(u)
  <2>1. u.refs \in [Creatures -> Int] /\ u.spawned \in [Slots -> SUBSET Monsters]
        /\ u.filled \in SUBSET Slots
    BY <1>0, <1>3 DEF Typed
  <2> QED BY <1>0, <1>3, <2>1 DEF Typed
<1>5. u \in State
  BY <1>2, <1>4, StateIs
<1>6. SameWorld(v, u)
  BY <1>3 DEF SameWorld, Awake
<1>7. /\ u.spawned[slot] = {m} /\ \A s \in Slots \ {slot} : u.spawned[s] = v.spawned[s]
  BY <1>0, <1>3 DEF Typed
<1>8. Exact(u)
  <2> SUFFICES ASSUME NEW c \in Creatures PROVE u.refs[c] = References(u, c)
    BY DEF Exact
  <2>1. v.refs[c] = References(v, c) /\ References(v, c) \in Nat
    BY <1>0, ReferencesNat DEF Loose, Exact
  <2>2. Cardinality(Within(Slots, u.spawned, c)) + Count(c \in v.spawned[slot])
          = Cardinality(Within(Slots, v.spawned, c)) + Count(c \in u.spawned[slot])
    BY <1>7, WithinOne, Hands
  <2>3. Cardinality(Within(Slots, u.spawned, c)) = Cardinality(Within(Slots, v.spawned, c)) + Count(c = m)
    <3>1. Cardinality(Within(Slots, u.spawned, c)) \in Nat
          /\ Cardinality(Within(Slots, v.spawned, c)) \in Nat
      BY Hands, WithinCounts
    <3> QED BY <2>2, <3>1, <1>7 DEF Count
  <2>4. u.refs[c] = v.refs[c] + Count(c = m)
    BY <1>0, <1>3 DEF Typed, Count
  <2>5. Placed(u, c) <=> Placed(v, c)
    BY <1>3 DEF Placed
  <2>6. /\ v.toRelease[c] \in Nat /\ Cardinality(Within(Slots, v.spawned, c)) \in Nat
        /\ Cardinality(Within(Creatures, v.targets, c)) \in Nat
        /\ Cardinality(Within(Creatures, v.friends, c)) \in Nat
        /\ Count(c = m) \in Nat
    BY <1>0, Hands, WithinCounts DEF Typed, Count
  <2> QED BY <2>1, <2>3, <2>4, <2>5, <2>6, <1>3, ReferencesAre DEF Count
<1>9. \A c \in Creatures : u.refs[c] >= v.refs[c] /\ (v.status[c] = "free" => u.refs[c] = 0)
  BY <1>0, <1>3 DEF Typed, Loose, Placed
<1>10. MastersLive(u)
  BY <1>0, <1>3 DEF Loose, MastersLive, Live, Placed
<1>11. Loose(u)
  BY <1>0, <1>5, <1>6, <1>8, <1>9, <1>10, LooseSame
<1>12. Core(u)
  BY <1>3, <1>9, <1>11, CoreGrows
<1> QED BY <1>3, <1>6, <1>7, <1>12

\* Spawn::spawnMonster fills a slot that was empty.
LEMMA SpawnMonsterSound ==
  ASSUME NEW v, Core(v), Orderly(v), NEW m \in Monsters, v.status[m] = "free", NEW slot \in Slots,
         v.spawned[slot] = {},
         NEW u, u = SpawnMonster(v, slot, m)
  PROVE  /\ Core(u) /\ Orderly(u) /\ \A x \in Creatures : Placed(u, x) <=> Placed(v, x) \/ x = m
         /\ u.spawned[slot] = {m} /\ \A s \in Slots \ {slot} : u.spawned[s] = v.spawned[s]
         /\ u.filled = v.filled \cup {slot} /\ u.scheduled = v.scheduled
         /\ v.checkSpawnEvent => u.checkSpawnEvent
<1> DEFINE a == PlaceCreature(v, m, Home)
<1>0. m \in Creatures /\ Home \in Places
  BY Hands
<1>1. /\ Core(a) /\ Orderly(a) /\ KeepsSpawns(v, a)
      /\ \A x \in Creatures : Placed(a, x) <=> Placed(v, x) \/ x = m
  BY <1>0, PlaceCreatureSound
<1>2. u = Entered(a, slot, m)
  BY DEF SpawnMonster, Entered
<1> HIDE DEF a
<1>3. a.spawned = v.spawned /\ a.filled = v.filled /\ a.scheduled = v.scheduled
      /\ (v.checkSpawnEvent => a.checkSpawnEvent)
  BY <1>1 DEF KeepsSpawns
<1>4. Placed(a, m) /\ a.spawned[slot] = {}
  BY <1>0, <1>1, <1>3
<1>5. /\ Core(u) /\ SameWorld(a, u) /\ u.spawned[slot] = {m} /\ \A s \in Slots \ {slot} : u.spawned[s] = a.spawned[s]
      /\ u.filled = a.filled \cup {slot} /\ u.scheduled = a.scheduled
      /\ (u.checkSpawnEvent <=> a.checkSpawnEvent)
  BY <1>1, <1>2, <1>4, EnteredSound
<1>6. Orderly(u)
  BY <1>1, <1>5, OrderlySame
<1>7. \A x \in Creatures : Placed(u, x) <=> Placed(a, x)
  BY <1>5 DEF SameWorld, Placed
<1> QED BY <1>1, <1>3, <1>5, <1>6, <1>7

\* What Spawn::cleanup lets go of.
Dismissed(v) ==
  [v EXCEPT !.spawned = [s \in Slots |-> {m \in @[s] : Placed(v, m)}],
            !.refs = [c \in Creatures |->
                @[c] - Cardinality({s \in Slots : c \in v.spawned[s] /\ ~Placed(v, c)})]]

\* The spawn lets go of monsters that are not in the world: of each, as often as it has it.
LEMMA DismissedLoose ==
  ASSUME NEW v, Core(v), NEW u, u = Dismissed(v)
  PROVE  /\ Loose(u) /\ SameWorld(v, u) /\ \A s \in Slots : u.spawned[s] = {m \in v.spawned[s] : Placed(v, m)}
         /\ u.filled = v.filled /\ u.scheduled = v.scheduled
         /\ u.checkSpawnEvent = v.checkSpawnEvent
<1>0. v \in State /\ Loose(v) /\ Shaped(v) /\ Typed(v)
  BY StateIs DEF Core, Loose
<1> DEFINE lost(c) == {s \in Slots : c \in v.spawned[s] /\ ~Placed(v, c)}
<1>1. \A c : Cardinality(lost(c)) \in Nat
  BY Hands, FS_Subset, FS_CardinalityType
<1>2. Shaped(u)
  BY <1>0 DEF Dismissed, Shaped
<1>3. /\ u.status = v.status /\ u.at = v.at /\ u.alive = v.alive /\ u.toRelease = v.toRelease
      /\ u.checked = v.checked /\ u.inVector = v.inVector /\ u.master = v.master
      /\ u.summons = v.summons
      /\ u.attacked = v.attacked /\ u.follow = v.follow /\ u.idle = v.idle /\ u.targets = v.targets
      /\ u.friends = v.friends /\ u.checkSpawnEvent = v.checkSpawnEvent
      /\ u.scheduled = v.scheduled /\ u.forgotten = v.forgotten /\ u.filled = v.filled
      /\ u.refs = [c \in Creatures |-> v.refs[c] - Cardinality(lost(c))]
      /\ u.spawned = [s \in Slots |-> {m \in v.spawned[s] : Placed(v, m)}]
  BY <1>0 DEF Dismissed, Shaped, Fields
<1> HIDE DEF lost
<1>4. Typed(u)
  <2>1. u.refs \in [Creatures -> Int]
    BY <1>0, <1>1, <1>3 DEF Typed
  <2>2. u.spawned \in [Slots -> SUBSET Monsters]
    BY <1>0, <1>3 DEF Typed
  <2> QED BY <1>0, <1>3, <2>1, <2>2 DEF Typed
<1>5. u \in State
  BY <1>2, <1>4, StateIs
<1>6. SameWorld(v, u)
  BY <1>3 DEF SameWorld, Awake
<1>7. \A s \in Slots : u.spawned[s] = {m \in v.spawned[s] : Placed(v, m)}
  BY <1>3
<1>8. ASSUME NEW c \in Creatures
      PROVE  Cardinality(Within(Slots, u.spawned, c)) = Cardinality(Within(Slots, v.spawned, c)) - Cardinality(lost(c))
  <2>1. CASE Placed(v, c)
    <3>1. lost(c) = {} /\ Within(Slots, u.spawned, c) = Within(Slots, v.spawned, c)
      BY <1>7, <2>1 DEF lost, Within
    <3> QED BY <3>1, FS_EmptySet, WithinCounts, Hands
  <2>2. CASE ~Placed(v, c)
    <3>1. lost(c) = Within(Slots, v.spawned, c) /\ Within(Slots, u.spawned, c) = {}
      BY <1>7, <2>2 DEF lost, Within
    <3> QED BY <3>1, FS_EmptySet, WithinCounts, Hands
  <2> QED BY <2>1, <2>2
<1>9. Exact(u)
  <2> SUFFICES ASSUME NEW c \in Creatures PROVE u.refs[c] = References(u, c)
    BY DEF Exact
  <2>1. v.refs[c] = References(v, c) /\ References(v, c) \in Nat
    BY <1>0, ReferencesNat DEF Loose, Exact
  <2>2. u.refs[c] = v.refs[c] - Cardinality(lost(c))
    BY <1>3
  <2>3. Placed(u, c) <=> Placed(v, c)
    BY <1>3 DEF Placed
  <2>4. /\ v.toRelease[c] \in Nat /\ Cardinality(Within(Slots, v.spawned, c)) \in Nat
        /\ Cardinality(Within(Creatures, v.targets, c)) \in Nat
        /\ Cardinality(Within(Creatures, v.friends, c)) \in Nat
        /\ Cardinality(lost(c)) \in Nat
    BY <1>0, <1>1, Hands, WithinCounts DEF Typed
  <2> QED BY <2>1, <2>2, <2>3, <2>4, <1>3, <1>8, ReferencesAre DEF Count
<1>10. ASSUME NEW c \in Creatures, v.status[c] = "free" PROVE u.refs[c] = 0
  <2>1. \A s \in Slots : c \notin v.spawned[s]
    BY <1>0, <1>10, HeldIsUsed DEF Used
  <2>2. lost(c) = {}
    BY <2>1 DEF lost
  <2> QED BY <1>0, <1>3, <1>10, <2>2, FS_EmptySet DEF Loose
<1>11. MastersLive(u)
  BY <1>0, <1>3 DEF Loose, MastersLive, Live, Placed
<1>12. Loose(u)
  BY <1>0, <1>5, <1>6, <1>9, <1>10, <1>11, LooseSame
<1> QED BY <1>3, <1>6, <1>7, <1>12

\* Spawn::cleanup leaves the monsters that are in the world.
LEMMA SpawnCleanupSound ==
  ASSUME NEW v, Core(v), Orderly(v), NEW u, u = SpawnCleanup(v)
  PROVE  /\ Core(u) /\ Orderly(u) /\ \A s \in Slots : u.spawned[s] = {m \in v.spawned[s] : Placed(u, m)}
         /\ u.filled = v.filled /\ u.scheduled = v.scheduled
         /\ u.checkSpawnEvent = v.checkSpawnEvent
<1> DEFINE h == Dismissed(v)
<1>0. u = Swept(h) /\ v \in State
  BY DEF SpawnCleanup, Dismissed, Core, Loose
<1>1. /\ Loose(h) /\ SameWorld(v, h) /\ \A s \in Slots : h.spawned[s] = {m \in v.spawned[s] : Placed(v, m)}
      /\ h.filled = v.filled /\ h.scheduled = v.scheduled /\ h.checkSpawnEvent = v.checkSpawnEvent
  BY DismissedLoose
<1> HIDE DEF h
<1>2. Core(u) /\ Keeps(h, u, {}, {}) /\ Stays(h, u)
  BY <1>0, <1>1, SweptSound
<1>3. h \in State /\ Orderly(h) /\ Sound(h, u, {}, {})
  BY <1>1, <1>2, OrderlySame DEF Loose, Sound
<1>4. Orderly(u)
  BY <1>3, OrderlySound
<1>5. /\ u.spawned = h.spawned /\ u.checkSpawnEvent = h.checkSpawnEvent /\ u.scheduled = h.scheduled
      /\ u.filled = h.filled
  BY <1>0, <1>1, SweptIs
<1>6. \A m \in Monsters : Placed(u, m) <=> Placed(v, m)
  BY <1>1, <1>3, SoundPlaces, Hands DEF SameWorld, Placed
<1>7. \A s \in Slots : v.spawned[s] \subseteq Monsters
  BY <1>0, StateIs DEF Typed
<1>8. \A s \in Slots : u.spawned[s] = {m \in v.spawned[s] : Placed(u, m)}
  BY <1>1, <1>5, <1>6, <1>7
<1> QED BY <1>1, <1>2, <1>4, <1>5, <1>8

\* A slot that is empty is missing in the map.
LEMMA MissingNoted ==
  ASSUME NEW v, v \in State, \A s \in Slots : \A m, n \in v.spawned[s] : m = n, NEW slot \in Slots,
         v.spawned[slot] = {}
  PROVE  Cardinality(SpawnedMap(v)) < Cardinality(Slots)
<1> DEFINE rest == Slots \ {slot}
           f == [g \in SpawnedMap(v) |-> g[1]]
<1>1. IsFiniteSet(rest) /\ Cardinality(rest) = Cardinality(Slots) - 1 /\ Cardinality(Slots) \in Nat
  BY Hands, FS_RemoveElement, FS_CardinalityType
<1>2. f \in [SpawnedMap(v) -> rest]
  BY DEF SpawnedMap
<1>3. \A g, h \in SpawnedMap(v) : f[g] = f[h] => g = h
  <2> SUFFICES ASSUME NEW g \in SpawnedMap(v), NEW h \in SpawnedMap(v), g[1] = h[1] PROVE g = h
    OBVIOUS
  <2>1. /\ g \in Slots \X Monsters /\ h \in Slots \X Monsters
        /\ g[2] \in v.spawned[g[1]] /\ h[2] \in v.spawned[h[1]]
    BY DEF SpawnedMap
  <2>2. g[2] = h[2]
    BY <2>1
  <2> QED BY <2>1, <2>2
<1>4. f \in Injection(SpawnedMap(v), rest)
  BY <1>2, <1>3, Zenon DEF Injection, IsInjective
<1>5. Cardinality(SpawnedMap(v)) <= Cardinality(rest)
  BY <1>1, <1>4, FS_Injection
<1>6. IsFiniteSet(SpawnedMap(v))
  BY <1>1, <1>4, FS_Injection
<1> QED BY <1>1, <1>5, <1>6, FS_CardinalityType

\* The end of Spawn::checkSpawn: an empty slot makes the count fall short.
LEMMA RescheduledBound ==
  ASSUME NEW v, Core(v), Orderly(v), \A s \in Slots : \A m, n \in v.spawned[s] : m = n,
         \A s \in Slots : \A m \in v.spawned[s] : Placed(v, m),
         \A s \in v.scheduled : v.spawned[s] = {},
         NEW u, u = Rescheduled(v)
  PROVE  Bound(u)
<1>0. v \in State /\ Loose(v) /\ Shaped(v) /\ Typed(v)
  BY StateIs DEF Core, Loose
<1>1. Shaped(u)
  BY <1>0 DEF Rescheduled, Shaped
<1>2. /\ u.status = v.status /\ u.at = v.at /\ u.alive = v.alive /\ u.toRelease = v.toRelease
      /\ u.checked = v.checked /\ u.inVector = v.inVector /\ u.master = v.master
      /\ u.summons = v.summons
      /\ u.attacked = v.attacked /\ u.follow = v.follow /\ u.idle = v.idle /\ u.targets = v.targets
      /\ u.friends = v.friends /\ u.spawned = v.spawned /\ u.refs = v.refs
      /\ u.scheduled = v.scheduled /\ u.forgotten = v.forgotten /\ u.filled = v.filled
  BY <1>0 DEF Rescheduled, Shaped, Fields
<1>3. u.checkSpawnEvent = (Cardinality(SpawnedMap(v)) < Cardinality(Slots))
  BY <1>0 DEF Rescheduled, Shaped, Fields
<1>4. u \in State
  <2>1. u.checkSpawnEvent \in BOOLEAN
    BY <1>3
  <2>2. Typed(u)
    BY <1>0, <1>2, <2>1 DEF Typed
  <2> QED BY <1>1, <2>2, StateIs
<1>5. SameWorld(v, u)
  BY <1>2 DEF SameWorld, Awake
<1>6. Exact(u)
  BY <1>0, <1>2 DEF Loose, Exact, References, Placed
<1>7. MastersLive(u)
  BY <1>0, <1>2 DEF Loose, MastersLive, Live, Placed
<1>8. Loose(u)
  <2>1. \A c \in Creatures : v.status[c] = "free" => u.refs[c] = 0
    BY <1>0, <1>2 DEF Loose
  <2> QED BY <1>0, <1>4, <1>5, <1>6, <1>7, <2>1, LooseSame
<1>9. Core(u)
  BY <1>2, <1>8 DEF Core
<1>10. Orderly(u)
  BY <1>5, OrderlySame
<1>11. \A s \in Slots : v.spawned[s] = {} => u.checkSpawnEvent
  BY <1>0, <1>3, MissingNoted
<1>12. SpawnWatched(u)
  <2>1. \A s \in u.scheduled : u.spawned[s] = {} /\ u.checkSpawnEvent
    BY <1>0, <1>2, <1>11 DEF Typed
  <2>2. ASSUME NEW s \in u.filled, \A m \in u.spawned[s] : ~Placed(u, m) PROVE u.checkSpawnEvent
    <3>1. s \in Slots
      BY <1>0, <1>2 DEF Typed
    <3>2. v.spawned[s] = {}
      BY <1>2, <2>2, <3>1 DEF Placed
    <3> QED BY <1>11, <3>1, <3>2
  <2>3. \A s \in Slots : \A m, n \in u.spawned[s] : m = n
    BY <1>2
  <2> QED BY <2>1, <2>2, <2>3 DEF SpawnWatched
<1> QED BY <1>9, <1>10, <1>12 DEF Bound, Settled

\* The spawn has a field or two changed.
Noted(v, u) ==
  /\ u \in State /\ u.status = v.status /\ u.at = v.at /\ u.alive = v.alive
  /\ u.toRelease = v.toRelease
  /\ u.checked = v.checked /\ u.inVector = v.inVector /\ u.master = v.master
  /\ u.summons = v.summons
  /\ u.attacked = v.attacked /\ u.follow = v.follow /\ u.idle = v.idle /\ u.targets = v.targets
  /\ u.friends = v.friends /\ u.spawned = v.spawned /\ u.refs = v.refs
  /\ u.forgotten = v.forgotten /\ u.filled = v.filled

\* What the spawn notes disturbs nobody.
LEMMA NotedSound ==
  ASSUME NEW v, Core(v), Orderly(v), NEW u, Noted(v, u)
  PROVE  Core(u) /\ Orderly(u) /\ \A x \in Creatures : Placed(u, x) <=> Placed(v, x)
<1>0. v \in State /\ Loose(v)
  BY DEF Core, Loose
<1>5. SameWorld(v, u) /\ u \in State
  BY DEF Noted, SameWorld, Awake
<1>6. Exact(u)
  BY <1>0 DEF Noted, Loose, Exact, References, Placed
<1>7. MastersLive(u)
  BY <1>0 DEF Noted, Loose, MastersLive, Live, Placed
<1>8. Loose(u)
  <2>1. \A c \in Creatures : v.status[c] = "free" => u.refs[c] = 0
    BY <1>0 DEF Noted, Loose
  <2> QED BY <1>0, <1>5, <1>6, <1>7, <2>1, LooseSame
<1>9. Core(u)
  BY <1>8 DEF Noted, Core
<1> QED BY <1>5, <1>9, OrderlySame DEF Noted, Placed

\* The spawn is not scheduled while checkSpawn runs.
Waiting(v) == [v EXCEPT !.checkSpawnEvent = FALSE]

\* The event that runs is not scheduled any more.
LEMMA WaitingIs ==
  ASSUME NEW v \in State, NEW u, u = Waiting(v)
  PROVE  Noted(v, u) /\ u.scheduled = v.scheduled
<1>0. Shaped(v) /\ Typed(v)
  BY StateIs
<1>1. Shaped(u)
  BY <1>0 DEF Waiting, Shaped
<1>2. /\ u.status = v.status /\ u.at = v.at /\ u.alive = v.alive /\ u.toRelease = v.toRelease
      /\ u.checked = v.checked /\ u.inVector = v.inVector /\ u.master = v.master
      /\ u.summons = v.summons
      /\ u.attacked = v.attacked /\ u.follow = v.follow /\ u.idle = v.idle /\ u.targets = v.targets
      /\ u.friends = v.friends /\ u.spawned = v.spawned /\ u.refs = v.refs
      /\ u.checkSpawnEvent = FALSE
      /\ u.scheduled = v.scheduled /\ u.forgotten = v.forgotten /\ u.filled = v.filled
  BY <1>0 DEF Waiting, Shaped, Fields
<1>3. Typed(u)
  BY <1>0, <1>2 DEF Typed
<1> QED BY <1>1, <1>2, <1>3, StateIs DEF Noted

\* The slots whose monsters have been announced.
Planned(v, planned) == [v EXCEPT !.scheduled = planned]

\* Monsters that have been announced.
LEMMA PlannedIs ==
  ASSUME NEW v \in State, NEW planned \in SUBSET Slots, NEW u, u = Planned(v, planned)
  PROVE  Noted(v, u) /\ u.scheduled = planned /\ u.checkSpawnEvent = v.checkSpawnEvent
<1>0. Shaped(v) /\ Typed(v)
  BY StateIs
<1>1. Shaped(u)
  BY <1>0 DEF Planned, Shaped
<1>2. /\ u.status = v.status /\ u.at = v.at /\ u.alive = v.alive /\ u.toRelease = v.toRelease
      /\ u.checked = v.checked /\ u.inVector = v.inVector /\ u.master = v.master
      /\ u.summons = v.summons
      /\ u.attacked = v.attacked /\ u.follow = v.follow /\ u.idle = v.idle /\ u.targets = v.targets
      /\ u.friends = v.friends /\ u.spawned = v.spawned /\ u.refs = v.refs
      /\ u.checkSpawnEvent = v.checkSpawnEvent
      /\ u.scheduled = planned /\ u.forgotten = v.forgotten /\ u.filled = v.filled
  BY <1>0 DEF Planned, Shaped, Fields
<1>3. Typed(u)
  BY <1>0, <1>2 DEF Typed
<1> QED BY <1>1, <1>2, <1>3, StateIs DEF Noted

\* Spawn::checkSpawn keeps the invariant, with or without a new monster.
LEMMA CheckSpawnKeeps ==
  ASSUME Bound(w), CheckSpawn
  PROVE  Bound(w')
<1> DEFINE a == Waiting(w)
           v == SpawnCleanup(a)
<1>0. Core(w) /\ Orderly(w) /\ SpawnWatched(w) /\ w \in State /\ w.scheduled = {}
  BY DEF Bound, Settled, Core, Loose, CheckSpawn
<1>1. Noted(w, a) /\ a.scheduled = {}
  BY <1>0, WaitingIs
<1>2. \/ w' = Rescheduled(v)
      \/ \E s \in Slots, m \in Free(v) : v.spawned[s] = {} /\ w' = Rescheduled(SpawnMonster(v, s, m))
      \/ \E s \in Slots : v.spawned[s] = {} /\ w' = Rescheduled(Planned(v, v.scheduled \cup {s}))
  BY DEF CheckSpawn, Waiting, Planned
<1> HIDE DEF a
<1>3. Core(a) /\ Orderly(a)
  BY <1>0, <1>1, NotedSound
<1>4. /\ Core(v) /\ Orderly(v) /\ \A s \in Slots : v.spawned[s] = {m \in a.spawned[s] : Placed(v, m)}
      /\ v.filled = a.filled /\ v.scheduled = a.scheduled
  BY <1>3, SpawnCleanupSound
<1> HIDE DEF v
<1>5. /\ \A s \in Slots : \A m, n \in v.spawned[s] : m = n
      /\ \A s \in Slots : \A m \in v.spawned[s] : Placed(v, m)
      /\ v.scheduled = {} /\ v \in State
      /\ \A s \in Slots : v.spawned[s] \subseteq Monsters
  <2>1. a.spawned = w.spawned
    BY <1>1 DEF Noted
  <2>2. v \in State
    BY <1>4 DEF Core, Loose
  <2> QED BY <1>0, <1>1, <1>4, <2>1, <2>2, StateIs DEF SpawnWatched, Typed
<1>6. CASE w' = Rescheduled(v)
  BY <1>4, <1>5, <1>6, RescheduledBound
<1>7. ASSUME NEW s \in Slots, NEW m \in Free(v), v.spawned[s] = {},
             w' = Rescheduled(SpawnMonster(v, s, m))
      PROVE  Bound(w')
  <2> DEFINE b == SpawnMonster(v, s, m)
  <2>1. m \in Monsters /\ v.status[m] = "free" /\ m \in Creatures
    BY Hands DEF Free
  <2>2. /\ Core(b) /\ Orderly(b) /\ \A x \in Creatures : Placed(b, x) <=> Placed(v, x) \/ x = m
        /\ b.spawned[s] = {m} /\ \A t \in Slots \ {s} : b.spawned[t] = v.spawned[t]
        /\ b.scheduled = v.scheduled
    BY <1>4, <1>7, <2>1, SpawnMonsterSound
  <2>3. w' = Rescheduled(b)
    BY <1>7
  <2> HIDE DEF b
  <2>4. \A t \in Slots : \A x, y \in b.spawned[t] : x = y
    BY <1>5, <2>2
  <2>5. \A t \in Slots : \A x \in b.spawned[t] : Placed(b, x)
    <3> SUFFICES ASSUME NEW t \in Slots, NEW x \in b.spawned[t] PROVE Placed(b, x)
      OBVIOUS
    <3>1. CASE t = s
      BY <2>1, <2>2, <3>1
    <3>2. CASE t # s
      BY <1>5, <2>2, <3>2, Hands
    <3> QED BY <3>1, <3>2
  <2>6. \A t \in b.scheduled : b.spawned[t] = {}
    BY <1>5, <2>2
  <2> QED BY <2>2, <2>3, <2>4, <2>5, <2>6, RescheduledBound
<1>8. ASSUME NEW s \in Slots, v.spawned[s] = {}, w' = Rescheduled(Planned(v, v.scheduled \cup {s}))
      PROVE  Bound(w')
  <2> DEFINE b == Planned(v, v.scheduled \cup {s})
  <2>1. Noted(v, b) /\ b.scheduled = {s}
    <3>1. v.scheduled \cup {s} = {s} /\ {s} \in SUBSET Slots
      BY <1>5
    <3>2. v.scheduled \cup {s} \in SUBSET Slots
      BY <3>1
    <3>3. Noted(v, b) /\ b.scheduled = v.scheduled \cup {s}
      BY <1>5, <3>2, PlannedIs
    <3> QED BY <3>1, <3>3
  <2>2. w' = Rescheduled(b)
    BY <1>8
  <2> HIDE DEF b
  <2>3. Core(b) /\ Orderly(b) /\ \A x \in Creatures : Placed(b, x) <=> Placed(v, x)
    BY <1>4, <2>1, NotedSound
  <2>4. b.spawned = v.spawned
    BY <2>1 DEF Noted
  <2>5. /\ \A t \in Slots : \A x, y \in b.spawned[t] : x = y
        /\ \A t \in Slots : \A x \in b.spawned[t] : Placed(b, x)
        /\ \A t \in b.scheduled : b.spawned[t] = {}
    BY <1>5, <1>8, <2>1, <2>3, <2>4, Hands
  <2> QED BY <2>2, <2>3, <2>5, RescheduledBound
<1> QED BY <1>2, <1>6, <1>7, <1>8

\* Spawn::scheduleSpawn keeps the invariant.
LEMMA ScheduleSpawnKeeps ==
  ASSUME Bound(w), NEW s \in Slots, ScheduleSpawn(s)
  PROVE  Bound(w')
<1> DEFINE v == Planned(w, w.scheduled \ {s})
<1>0. Core(w) /\ Orderly(w) /\ SpawnWatched(w) /\ w \in State /\ s \in w.scheduled
      /\ w.scheduled \in SUBSET Slots
      /\ w.filled \in SUBSET Slots /\ \A t \in Slots : w.spawned[t] \subseteq Monsters
  BY StateIs DEF Bound, Settled, Core, Loose, ScheduleSpawn, Typed
<1>1. w' = v \/ \E m \in Free(v) : w' = SpawnMonster(v, s, m)
  BY DEF ScheduleSpawn, Planned
<1>2. Noted(w, v) /\ v.scheduled = w.scheduled \ {s} /\ v.checkSpawnEvent = w.checkSpawnEvent
  BY <1>0, PlannedIs
<1> HIDE DEF v
<1>3. Core(v) /\ Orderly(v) /\ \A x \in Creatures : Placed(v, x) <=> Placed(w, x)
  BY <1>0, <1>2, NotedSound
<1>4. v.spawned = w.spawned /\ v.filled = w.filled
  BY <1>2 DEF Noted
<1>5. SpawnWatched(v)
  <2>1. ASSUME NEW t \in v.filled, \A m \in v.spawned[t] : ~Placed(v, m) PROVE v.checkSpawnEvent
    <3>1. t \in w.filled /\ t \in Slots /\ \A m \in w.spawned[t] : ~Placed(w, m)
      BY <1>0, <1>3, <1>4, <2>1, Hands
    <3> QED BY <1>0, <1>2, <3>1 DEF SpawnWatched
  <2> QED BY <1>0, <1>2, <1>4, <2>1 DEF SpawnWatched
<1>6. CASE w' = v
  BY <1>3, <1>5, <1>6 DEF Bound, Settled
<1>7. ASSUME NEW m \in Free(v), w' = SpawnMonster(v, s, m)
      PROVE  Bound(w')
  <2>1. m \in Monsters /\ v.status[m] = "free" /\ m \in Creatures /\ v.spawned[s] = {}
        /\ v.checkSpawnEvent
    BY <1>0, <1>2, <1>4, Hands DEF Free, SpawnWatched
  <2>2. /\ Core(w') /\ Orderly(w') /\ \A x \in Creatures : Placed(w', x) <=> Placed(v, x) \/ x = m
        /\ w'.spawned[s] = {m} /\ \A t \in Slots \ {s} : w'.spawned[t] = v.spawned[t]
        /\ w'.scheduled = v.scheduled /\ w'.filled = v.filled \cup {s} /\ w'.checkSpawnEvent
    BY <1>3, <1>7, <2>1, SpawnMonsterSound
  <2>3. SpawnWatched(w')
    <3>1. \A t \in Slots : \A x, y \in w'.spawned[t] : x = y
      BY <1>5, <2>2 DEF SpawnWatched
    <3>2. \A t \in w'.scheduled : w'.spawned[t] = {} /\ w'.checkSpawnEvent
      BY <1>0, <1>2, <1>5, <2>2 DEF SpawnWatched
    <3> QED BY <2>2, <3>1, <3>2 DEF SpawnWatched
  <2> QED BY <2>2, <2>3 DEF Bound, Settled
<1> QED BY <1>1, <1>6, <1>7

\* What Game::cleanup lets go of.
Unburdened(v) ==
  [v EXCEPT !.toRelease = [c \in Creatures |-> 0],
            !.refs = [c \in Creatures |-> @[c] - v.toRelease[c]]]

\* Game::cleanup keeps the invariant: nobody that is needed is deleted.
LEMMA CleanupBound ==
  ASSUME NEW v, Bound(v), NEW u, u = Cleanup(v)
  PROVE  Bound(u)
<1> DEFINE h == Unburdened(v)
<1>0. v \in State /\ Loose(v) /\ Shaped(v) /\ Typed(v) /\ Orderly(v) /\ SpawnWatched(v)
      /\ u = Swept(h)
  BY StateIs DEF Core, Loose, Bound, Settled, Cleanup, Unburdened
<1>1. Shaped(h)
  BY <1>0 DEF Unburdened, Shaped
<1>2. /\ h.status = v.status /\ h.at = v.at /\ h.alive = v.alive
      /\ h.checked = v.checked /\ h.inVector = v.inVector /\ h.master = v.master
      /\ h.summons = v.summons
      /\ h.attacked = v.attacked /\ h.follow = v.follow /\ h.idle = v.idle /\ h.targets = v.targets
      /\ h.friends = v.friends /\ h.spawned = v.spawned /\ h.checkSpawnEvent = v.checkSpawnEvent
      /\ h.scheduled = v.scheduled /\ h.forgotten = v.forgotten /\ h.filled = v.filled
      /\ h.toRelease = [c \in Creatures |-> 0]
      /\ h.refs = [c \in Creatures |-> v.refs[c] - v.toRelease[c]]
  BY <1>0 DEF Unburdened, Shaped, Fields
<1> HIDE DEF h
<1>3. h \in State
  <2>1. h.refs \in [Creatures -> Int] /\ h.toRelease \in [Creatures -> Nat]
    BY <1>0, <1>2 DEF Typed
  <2>2. Typed(h)
    BY <1>0, <1>2, <2>1 DEF Typed
  <2> QED BY <1>1, <2>2, StateIs
<1>4. SameWorld(v, h)
  BY <1>2 DEF SameWorld, Awake
<1>5. Exact(h)
  <2> SUFFICES ASSUME NEW c \in Creatures PROVE h.refs[c] = References(h, c)
    BY DEF Exact
  <2>1. v.refs[c] = References(v, c)
    BY <1>0 DEF Loose, Exact
  <2>2. h.refs[c] = v.refs[c] - v.toRelease[c] /\ h.toRelease[c] = 0
    BY <1>2
  <2>3. Placed(h, c) <=> Placed(v, c)
    BY <1>2 DEF Placed
  <2>4. /\ v.toRelease[c] \in Nat /\ Cardinality(Within(Slots, v.spawned, c)) \in Nat
        /\ Cardinality(Within(Creatures, v.targets, c)) \in Nat
        /\ Cardinality(Within(Creatures, v.friends, c)) \in Nat
    BY <1>0, Hands, WithinCounts DEF Typed
  <2> QED BY <2>1, <2>2, <2>3, <2>4, <1>2, ReferencesAre DEF Count
<1>6. \A c \in Creatures : v.status[c] = "free" => h.refs[c] = 0
  <2> SUFFICES ASSUME NEW c \in Creatures, v.status[c] = "free" PROVE h.refs[c] = 0
    OBVIOUS
  <2>1. ~(v.toRelease[c] > 0)
    BY <1>0, HeldIsUsed DEF Used, Live
  <2>2. v.toRelease[c] \in Nat
    BY <1>0 DEF Typed
  <2> QED BY <1>0, <1>2, <2>1, <2>2 DEF Loose
<1>7. Orderly(h)
  BY <1>0, <1>4, OrderlySame
<1>8. MastersLive(h)
  BY <1>7 DEF Orderly, MastersPlaced, MastersLive, Live
<1>9. Loose(h)
  BY <1>0, <1>3, <1>4, <1>5, <1>6, <1>8, LooseSame
<1>10. SpawnWatched(h)
  BY <1>0, <1>2 DEF SpawnWatched, Placed
<1>11. Sound(h, u, {}, {})
  BY <1>0, <1>9, SweptSound DEF Sound
<1> QED BY <1>3, <1>7, <1>10, <1>11, SettledSound DEF Settled

-----------------------------------------------------------------------------
(* Players and scripts *)

\* A handler that forgets someone keeps the invariant if nobody is there that should be known.
LEMMA BoundKept ==
  ASSUME NEW v, Bound(v), NEW u, NEW X, NEW Y, Sound(v, u, X, Y), MastersPlaced(u),
         \A m \in Monsters, p \in Players :
           /\ m \in Y \/ <<m, p>> \in X
           /\ Placed(u, m) /\ u.alive[m] /\ Placed(u, p) /\ InView(u.at[m], u.at[p])
           => Knows(u, m, p)
  PROVE  Bound(u)
<1>1. v \in State /\ u \in State /\ Orderly(v) /\ SpawnWatched(v) /\ Keeps(v, u, X, Y)
      /\ KeepsSpawns(v, u) /\ Core(u)
  BY DEF Bound, Settled, Core, Loose, Sound, Keeps
<1>2. Orderly(u)
  BY <1>1, OrderlyKept
<1>3. SpawnWatched(u)
  BY <1>1, SpawnWatchedKept
<1> QED BY <1>1, <1>2, <1>3 DEF Bound, Settled

\* Game::placeCreature keeps the invariant.
LEMMA PlacedBound ==
  ASSUME NEW v, Bound(v), NEW c \in Creatures, v.status[c] = "free", NEW place \in Places,
         NEW u, u = PlaceCreature(v, c, place)
  PROVE  /\ Bound(u) /\ u.master[c] = Nobody /\ u.summons[c] = {}
         /\ \A x \in Creatures : Placed(u, x) <=> Placed(v, x) \/ x = c
         /\ \A x \in Creatures : Placed(v, x) => u.master[x] = v.master[x]
<1>1. v \in State /\ Orderly(v) /\ SpawnWatched(v) /\ Core(v)
  BY DEF Bound, Settled, Core, Loose
<1>2. /\ Core(u) /\ Orderly(u) /\ KeepsSpawns(v, u) /\ u.master[c] = Nobody /\ u.summons[c] = {}
      /\ \A x \in Creatures : Placed(u, x) <=> Placed(v, x) \/ x = c
      /\ \A x \in Creatures : Placed(v, x) => u.master[x] = v.master[x]
  BY <1>1, PlaceCreatureSound
<1>3. SpawnWatched(u)
  <2>1. u \in State
    BY <1>2 DEF Core, Loose
  <2> QED BY <1>1, <1>2, <2>1, SpawnWatchedKept
<1> QED BY <1>2, <1>3 DEF Bound, Settled

\* A monster that gets a master.
LEMMA HandedBound ==
  ASSUME NEW v, Bound(v), NEW c \in Monsters, Placed(v, c), NEW m \in Creatures, CanHand(v, c, m),
         NEW u, u = SetMaster(v, c, m)
  PROVE  Bound(u)
<1>0. Core(v) /\ Orderly(v) /\ MastersPlaced(v) /\ Sight(v) /\ Used(v, c) /\ c \in Creatures
      /\ m # Nobody /\ Placed(v, m)
      /\ v \in State
  BY Hands DEF Bound, Settled, Orderly, Core, Loose, Used, Placed, CanHand
<1>1. Sound(v, u, {}, {c}) /\ u.master[c] = m /\ KeepsKnown(v, u, {}, {})
  BY <1>0, SetMasterSound
<1>2. MastersPlaced(u)
  <2> SUFFICES ASSUME NEW x \in Creatures, Placed(u, x), u.master[x] # Nobody
               PROVE  Placed(u, u.master[x])
    BY DEF MastersPlaced
  <2>1. CASE x = c
    BY <1>0, <1>1, <2>1 DEF Sound, Stays
  <2>2. CASE x # c
    <3>1. Placed(v, x) /\ u.master[x] = v.master[x]
      BY <1>1, <2>2 DEF Sound, Keeps, KeepsLives, KeepsMasters
    <3>2. v.master[x] \in Creatures
      BY <1>0, <3>1, StateIs DEF Typed
    <3> QED BY <1>0, <1>1, <3>1, <3>2 DEF MastersPlaced, Sound, Stays
  <2> QED BY <2>1, <2>2
<1>3. ASSUME NEW n \in Monsters, NEW p \in Players, n \in {c} \/ <<n, p>> \in {},
             Placed(u, n), u.alive[n], Placed(u, p), InView(u.at[n], u.at[p])
      PROVE  Knows(u, n, p)
  <2>1. n \in Creatures /\ p \in Creatures
    BY Hands
  <2>2. Placed(v, n) /\ Placed(v, p) /\ v.alive[n] /\ u.at[n] = v.at[n] /\ u.at[p] = v.at[p]
    BY <1>1, <1>3, <2>1 DEF Sound, Keeps, KeepsLives, Live
  <2>3. Knows(v, n, p)
    BY <1>0, <1>3, <2>2 DEF Sight, Sees
  <2> QED BY <1>1, <1>3, <2>3 DEF KeepsKnown
<1> QED BY <1>1, <1>2, <1>3, BoundKept

\* Creature::setAttackedCreature keeps the invariant.
LEMMA SetAttackedBound ==
  ASSUME NEW v, Bound(v), NEW x \in Creatures, Placed(v, x), NEW c \in Creatures \cup {Nobody},
         c # Nobody => Placed(v, c),
         NEW u, u = SetAttackedCreature(v, x, c)
  PROVE  Bound(u) /\ Repointed(v, u)
<1>1. Core(v) /\ Used(v, x)
  BY DEF Bound, Used, Placed
<1>2. Sound(v, u, {}, {}) /\ Repointed(v, u)
  BY <1>1, SetAttackedCreatureSound
<1> QED BY <1>2, BoundSound

\* Creature::setFollowCreature keeps the invariant.
LEMMA SetFollowBound ==
  ASSUME NEW v, Bound(v), NEW x \in Creatures, Placed(v, x), NEW c \in Creatures \cup {Nobody},
         c # Nobody => Placed(v, c),
         NEW u, u = SetFollowCreature(v, x, c)
  PROVE  Bound(u) /\ Repointed(v, u)
<1>1. Core(v) /\ Used(v, x)
  BY DEF Bound, Used, Placed
<1>2. Sound(v, u, {}, {}) /\ Repointed(v, u)
  BY <1>1, SetFollowCreatureSound
<1> QED BY <1>2, BoundSound

\* A player logs in.
LEMMA LoginKeeps ==
  ASSUME Bound(w), NEW p \in Players, NEW place \in Places, Login(p, place)
  PROVE  Bound(w')
BY PlacedBound, Hands DEF Login

\* A player logs out.
LEMMA LogoutKeeps ==
  ASSUME Bound(w), NEW p \in Players, Logout(p)
  PROVE  Bound(w')
BY BoundRemoved, Hands DEF Logout

\* Somebody moves.
LEMMA MoveKeeps ==
  ASSUME Bound(w), NEW c \in Creatures, NEW place \in Places, NEW far \in SUBSET Monsters,
         NEW before,
         Move(c, place, far, before)
  PROVE  Bound(w')
<1>1. far \in SUBSET w.summons[c]
  BY DEF Move
<1> QED BY <1>1, MoveCreatureSound DEF Move

\* Game::playerSetAttackedCreature.
LEMMA AttackKeeps ==
  ASSUME Bound(w), NEW p \in Players, NEW c \in Creatures \cup {Nobody}, NEW chase \in BOOLEAN,
         PlayerSetAttackedCreature(p, c, chase)
  PROVE  Bound(w')
<1> DEFINE u == SetAttackedCreature(w, p, c)
<1>1. p \in Creatures /\ Placed(w, p) /\ (c # Nobody => Placed(w, c))
  BY Hands DEF PlayerSetAttackedCreature
<1>2. w' = u \/ w' = SetFollowCreature(u, p, c) \/ w' = SetFollowCreature(u, p, Nobody)
  BY DEF PlayerSetAttackedCreature
<1>3. Bound(u) /\ Repointed(w, u)
  BY <1>1, SetAttackedBound
<1> HIDE DEF u
<1>4. Placed(u, p) /\ (c # Nobody => Placed(u, c)) /\ Nobody \in Creatures \cup {Nobody}
  BY <1>1, <1>3 DEF Repointed, Placed
<1>5. Bound(SetFollowCreature(u, p, c)) /\ Bound(SetFollowCreature(u, p, Nobody))
  BY <1>1, <1>3, <1>4, SetFollowBound
<1> QED BY <1>2, <1>3, <1>5

\* Game::playerFollowCreature.
LEMMA FollowKeeps ==
  ASSUME Bound(w), NEW p \in Players, NEW c \in Creatures, PlayerFollowCreature(p, c)
  PROVE  Bound(w')
<1> DEFINE u == SetAttackedCreature(w, p, Nobody)
<1>1. p \in Creatures /\ Placed(w, p) /\ Placed(w, c) /\ w' = SetFollowCreature(u, p, c)
  BY Hands DEF PlayerFollowCreature
<1>2. Bound(u) /\ Repointed(w, u)
  BY <1>1, SetAttackedBound
<1> HIDE DEF u
<1>3. Placed(u, p) /\ Placed(u, c)
  BY <1>1, <1>2 DEF Repointed, Placed
<1> QED BY <1>1, <1>2, <1>3, SetFollowBound

\* A monster becomes a player's summon, whoever commanded it before.
LEMMA AddSummonKeeps ==
  ASSUME Bound(w), NEW p \in Players, NEW m \in Monsters, AddSummon(p, m)
  PROVE  Bound(w')
<1> DEFINE a == SetAttackedCreature(w, m, Nobody)
           b == SetFollowCreature(a, m, Nobody)
<1>1. p \in Creatures /\ m \in Creatures /\ Placed(w, p) /\ Placed(w, m) /\ w.master[m] # p
      /\ w' = SetMaster(b, m, p)
  BY Hands DEF AddSummon
<1>2. Bound(a) /\ Repointed(w, a)
  BY <1>1, SetAttackedBound
<1>3. Placed(a, m) /\ Placed(a, p)
  BY <1>1, <1>2 DEF Repointed, Placed
<1> HIDE DEF a
<1>4. Bound(b) /\ Repointed(a, b)
  BY <1>1, <1>2, <1>3, SetFollowBound
<1> HIDE DEF b
<1>5. Placed(b, m) /\ Placed(b, p) /\ b.master = w.master
  BY <1>2, <1>3, <1>4 DEF Repointed, Placed
<1>6. CanHand(b, m, p)
  <2>1. p # m /\ p \notin Monsters
    BY Hands
  <2> QED BY <1>1, <1>5, <2>1 DEF CanHand
<1> QED BY <1>1, <1>4, <1>5, <1>6, HandedBound

\* Somebody is hit to death.
LEMMA LoseHealthKeeps ==
  ASSUME Bound(w), NEW c \in Creatures, LoseHealth(c)
  PROVE  Bound(w')
<1>1. Core(w) /\ Used(w, c) /\ w' = ChangeHealth(w, c)
  BY DEF Bound, LoseHealth, Used, Placed
<1> QED BY <1>1, ChangeHealthSound, BoundSound

-----------------------------------------------------------------------------
(* The turns of checkCreatures *)

\* The summons of a monster die with it.
LEMMA AllHurtSound ==
  ASSUME NEW v, Core(v), NEW S \in SUBSET Creatures, \A c \in S : Used(v, c), NEW u,
         u = AllHurt(v, S)
  PROVE  /\ Sound(v, u, {}, {}) /\ \A c \in S : ~u.alive[c]
         /\ \A x \in Creatures : u.alive[x] => v.alive[x]
<1> DEFINE J == [D \in SUBSET S |->
                   {t \in State : /\ Sound(v, t, {}, {}) /\ t.status = v.status /\ \A c \in D : ~t.alive[c]
                                  /\ \A x \in Creatures : t.alive[x] => v.alive[x]}]
<1>0. v \in State /\ Sound(v, v, {}, {}) /\ IsFiniteSet(S)
  BY SoundSelf, Hands, FS_Subset DEF Core, Loose
<1>1. v \in J[{}]
  BY <1>0
<1>2. ASSUME NEW D \in SUBSET S, NEW i \in S \ D, NEW t \in J[D]
      PROVE  ChangeHealth(t, i) \in J[D \cup {i}]
  <2> DEFINE z == ChangeHealth(t, i)
  <2>1. Sound(v, t, {}, {}) /\ Core(t) /\ i \in Creatures /\ Used(t, i) /\ t.status = v.status
    BY DEF Sound, Used
  <2>2. Sound(t, z, {}, {}) /\ ~z.alive[i] /\ (\A x \in Creatures : z.alive[x] => t.alive[x]) /\ z.status = t.status
    BY <2>1, ChangeHealthSound
  <2> HIDE DEF z
  <2>3. Sound(v, z, {}, {}) /\ z \in State
    BY <2>1, <2>2, SoundThen DEF Sound, Core, Loose
  <2> QED BY <2>1, <2>2, <2>3 DEF z
<1>3. u \in J[S]
  <2> HIDE DEF J
  <2> QED BY <1>0, <1>1, <1>2, HealthTurns
<1> QED BY <1>3

\* Monster::death: the summons are dead before they lose their master, and m before it forgets.
LEMMA DeathBound ==
  ASSUME NEW v, Bound(v), NEW c \in Monsters, Placed(v, c), ~v.alive[c], NEW u,
         u = SetMaster(Death(v, c), c, Nobody)
  PROVE  Bound(u)
<1> DEFINE a == SetAttackedCreature(v, c, Nobody)
           S == a.summons[c]
           b == AllHurt(a, S)
           d == Released(b, c)
           e == ClearLists(d, c)
<1>0. c \in Creatures /\ Nobody \in Creatures \cup {Nobody}
  BY Hands
<1>1. u = SetMaster(e, c, Nobody)
  BY DEF Death, AllHurt
<1>2. Bound(a) /\ Repointed(v, a)
  BY <1>0, SetAttackedBound
<1>3. Placed(a, c) /\ ~a.alive[c]
  BY <1>2 DEF Repointed, Placed
<1> HIDE DEF a
<1>4. Core(a) /\ Loose(a) /\ a \in State /\ S \in SUBSET Creatures
  BY <1>0, <1>2, StateIs DEF Bound, Core, Loose, Typed
<1>5. \A x \in S : Used(a, x)
  <2> SUFFICES ASSUME NEW x \in S PROVE Used(a, x)
    OBVIOUS
  <2>1. x \in Creatures /\ a.master[x] # Nobody
    BY <1>0, <1>4, Hands DEF Loose, Lines
  <2> QED BY <1>4, <2>1, HeldIsUsed
<1>6. Sound(a, b, {}, {}) /\ (\A x \in S : ~b.alive[x]) /\ \A x \in Creatures : b.alive[x] => a.alive[x]
  BY <1>4, <1>5, AllHurtSound
<1> HIDE DEF b
<1>7. Bound(b) /\ Placed(b, c) /\ ~b.alive[c]
  BY <1>0, <1>2, <1>3, <1>6, BoundSound DEF Sound, Stays
<1>8. Core(b) /\ b \in State /\ MastersPlaced(b) /\ Lines(b)
  BY <1>7 DEF Bound, Core, Loose, Settled, Orderly
<1>9. /\ Sound(b, d, {}, b.summons[c]) /\ Calm(b, d) /\ d.summons[c] = {}
      /\ \A x \in b.summons[c] : Placed(d, x) => d.master[x] = Nobody
  BY <1>0, <1>8, ReleasedSound
<1> HIDE DEF d
<1>10. \A x \in b.summons[c] : Placed(b, x) => ~b.alive[x]
  <2> SUFFICES ASSUME NEW x \in b.summons[c], Placed(b, x) PROVE ~b.alive[x]
    OBVIOUS
  <2>1. x \in Creatures /\ b.master[x] = c
    BY <1>0, <1>8, StateIs DEF Lines, Typed
  <2>2. a.master[x] = c
    BY <1>6, <2>1 DEF Sound, Keeps, KeepsMasters
  <2>3. x \in S
    BY <1>0, <1>4, <2>1, <2>2 DEF Loose, Lines
  <2> QED BY <1>6, <2>3
<1>11. MastersPlaced(d)
  <2> SUFFICES ASSUME NEW x \in Creatures, Placed(d, x), d.master[x] # Nobody
               PROVE  Placed(d, d.master[x])
    BY DEF MastersPlaced
  <2>1. Placed(b, x) /\ d.master[x] = b.master[x]
    BY <1>9 DEF Sound, Keeps, KeepsLives, KeepsMasters
  <2>2. b.master[x] \in Creatures
    BY <1>8, <2>1, StateIs DEF Typed
  <2> QED BY <1>8, <1>9, <2>1, <2>2 DEF MastersPlaced, Sound, Stays
<1>12. \A m \in Monsters : m \in b.summons[c] => ~ (Placed(d, m) /\ d.alive[m])
  BY <1>9, <1>10, Hands DEF Sound, Keeps, KeepsLives
<1>13. Bound(d)
  <2>1. \A m \in Monsters, p \in Players :
           /\ m \in b.summons[c] \/ <<m, p>> \in {}
           /\ Placed(d, m) /\ d.alive[m] /\ Placed(d, p) /\ InView(d.at[m], d.at[p])
           => Knows(d, m, p)
    BY <1>12
  <2> QED BY <1>7, <1>9, <1>11, <2>1, BoundKept
<1>14. Placed(d, c) /\ ~d.alive[c] /\ Core(d) /\ MastersPlaced(d) /\ d \in State
  BY <1>0, <1>7, <1>9, <1>11 DEF Sound, Stays, Keeps, KeepsLives, Core, Loose
<1>15. Mild(d, e, {c} \X Creatures, {})
  <2>1. \A p \in Players : p \in d.targets[c] => <<c, p>> \in {c} \X Creatures
    BY Hands
  <2> QED BY <1>0, <1>14, <2>1, ClearListsSound
<1> HIDE DEF e
<1>16. Sound(d, e, {c} \X Creatures, {}) /\ MastersPlaced(e) /\ Placed(e, c) /\ ~e.alive[c]
  <2>1. Sound(d, e, {c} \X Creatures, {}) /\ Placed(e, c) /\ ~e.alive[c]
    BY <1>0, <1>14, <1>15 DEF Mild, Sound, Stays, Keeps, KeepsLives
  <2> QED BY <1>14, <2>1, MastersStay
<1>17. Bound(e)
  <2>1. \A m \in Monsters, p \in Players :
           /\ m \in {} \/ <<m, p>> \in {c} \X Creatures
           /\ Placed(e, m) /\ e.alive[m] /\ Placed(e, p) /\ InView(e.at[m], e.at[p])
           => Knows(e, m, p)
    BY <1>16
  <2> QED BY <1>13, <1>16, <2>1, BoundKept
<1>18. Core(e) /\ e \in State /\ Used(e, c) /\ CanHand(e, c, Nobody)
  BY <1>16, <1>17 DEF Bound, Core, Loose, Used, Placed, CanHand
<1>19. Sound(e, u, {}, {c}) /\ u.master[c] = Nobody
  BY <1>0, <1>1, <1>16, <1>18, SetMasterSound
<1>20. MastersPlaced(u)
  <2> SUFFICES ASSUME NEW x \in Creatures, Placed(u, x), u.master[x] # Nobody
               PROVE  Placed(u, u.master[x])
    BY DEF MastersPlaced
  <2>1. Placed(e, x) /\ u.master[x] = e.master[x]
    BY <1>19 DEF Sound, Keeps, KeepsLives, KeepsMasters
  <2>2. e.master[x] \in Creatures
    BY <1>18, <2>1, StateIs DEF Typed
  <2> QED BY <1>16, <1>19, <2>1, <2>2 DEF MastersPlaced, Sound, Stays
<1>21. Placed(u, c) => ~u.alive[c]
  BY <1>16, <1>19 DEF Sound, Keeps, KeepsLives
<1>22. \A m \in Monsters, p \in Players :
           /\ m \in {c} \/ <<m, p>> \in {}
           /\ Placed(u, m) /\ u.alive[m] /\ Placed(u, p) /\ InView(u.at[m], u.at[p])
           => Knows(u, m, p)
  BY <1>21
<1> QED BY <1>17, <1>19, <1>20, <1>22, BoundKept

\* Creature::onDeath, with the player that survives its death in an arena.
LEMMA OnDeathBound ==
  ASSUME NEW v, Bound(v), NEW c \in Creatures, Placed(v, c), ~v.alive[c], NEW u \in OnDeath(v, c)
  PROVE  Bound(u)
<1>1. CASE c \in Monsters
  <2> DEFINE a == SetMaster(Death(v, c), c, Nobody)
  <2>1. u = RemoveCreature(a, c, {})
    BY <1>1 DEF OnDeath
  <2>2. Bound(a)
    BY <1>1, DeathBound
  <2> HIDE DEF a
  <2> QED BY <2>1, <2>2, BoundRemoved
<1>2. CASE c \notin Monsters
  <2>0. c \in Players
    BY <1>2 DEF Creatures
  <2>1. u = RemoveCreature(v, c, {}) \/ \E temple \in Places : u = MoveCreature(Healed(v, c), c, temple, {}, {})
    BY <1>2 DEF OnDeath, Healed
  <2>2. CASE u = RemoveCreature(v, c, {})
    BY <2>2, BoundRemoved
  <2>3. ASSUME NEW temple \in Places, u = MoveCreature(Healed(v, c), c, temple, {}, {})
        PROVE  Bound(u)
    <3> DEFINE a == Healed(v, c)
    <3>1. Core(v) /\ Used(v, c) /\ Alert(v, c)
      BY <1>2 DEF Bound, Used, Placed, Alert
    <3>2. Sound(v, a, {}, {})
      BY <2>0, <3>1, AliveSound
    <3> HIDE DEF a
    <3>3. Bound(a) /\ Placed(a, c)
      BY <3>2, BoundSound DEF Sound, Stays
    <3>4. u = MoveCreature(a, c, temple, {}, {}) /\ {} \in SUBSET a.summons[c]
      BY <2>3 DEF a
    <3> QED BY <3>3, <3>4, MoveCreatureSound
  <2> QED BY <2>1, <2>2, <2>3
<1> QED BY <1>1, <1>2

Forgetting(v, pairs) == [v EXCEPT !.forgotten = @ \cup pairs]

\* The history of what was forgotten is read by no handler.
LEMMA ForgettingSound ==
  ASSUME NEW v, Core(v), NEW pairs \in SUBSET (Creatures \X Creatures), NEW u,
         u = Forgetting(v, pairs)
  PROVE  /\ Sound(v, u, {}, {}) /\ u.forgotten = v.forgotten \cup pairs
<1>0. v \in State /\ Loose(v) /\ Shaped(v) /\ Typed(v)
  BY StateIs DEF Core, Loose
<1>1. Shaped(u)
  BY <1>0 DEF Forgetting, Shaped
<1>2. /\ u.status = v.status /\ u.at = v.at /\ u.alive = v.alive /\ u.toRelease = v.toRelease
      /\ u.checked = v.checked /\ u.inVector = v.inVector /\ u.master = v.master
      /\ u.summons = v.summons
      /\ u.attacked = v.attacked /\ u.follow = v.follow /\ u.idle = v.idle /\ u.targets = v.targets
      /\ u.friends = v.friends /\ u.spawned = v.spawned /\ u.checkSpawnEvent = v.checkSpawnEvent
      /\ u.scheduled = v.scheduled /\ u.filled = v.filled /\ u.refs = v.refs
      /\ u.forgotten = v.forgotten \cup pairs
  BY <1>0 DEF Forgetting, Shaped, Fields
<1>3. u \in State
  <2>1. u.forgotten \in SUBSET (Creatures \X Creatures)
    BY <1>0, <1>2 DEF Typed
  <2>2. Typed(u)
    BY <1>0, <1>2, <2>1 DEF Typed
  <2> QED BY <1>1, <2>2, StateIs
<1>4. Quiet(v, u)
  BY <1>2, <1>3 DEF Quiet, SameBut
<1>5. Exact(u)
  BY <1>0, <1>2 DEF Loose, Exact, References, Placed
<1>6. KeepsKnown(v, u, {}, {}) /\ KeepsMinded(v, u)
  BY <1>2 DEF KeepsKnown, KeepsMinded, Knows, Minded, Awake, Placed
<1>7. \A c \in Creatures : (Awake(u, c) => Placed(u, c)) /\ (v.status[c] = "free" => u.refs[c] <= v.refs[c])
  BY <1>0, <1>2 DEF Loose, Awake, Placed, Typed
<1>8. Loose(u) /\ Keeps(v, u, {}, {}) /\ Stays(v, u)
  BY <1>0, <1>4, <1>5, <1>6, <1>7, QuietKeeps
<1>9. Core(u)
  BY <1>2, <1>8 DEF Core
<1> QED BY <1>2, <1>8, <1>9 DEF Sound

\* The monster that is sent home and put to sleep may forget whom it sees there, and nobody else.
LEMMA SentHomeBound ==
  ASSUME NEW v, Bound(v), NEW m \in Monsters, Placed(v, m), NEW u, u = SentHome(v, m)
  PROVE  Bound(u)
<1> DEFINE a == MoveCreature(v, m, Home, {}, {})
           b == SetIdle(a, m, TRUE)
           pairs == {m} \X (Players \cap Spectators(v, Home))
           X == {m} \X Creatures
<1>0. m \in Creatures /\ Home \in Places /\ {} \in SUBSET v.summons[m] /\ v \in State /\ Typed(v)
  BY Hands, StateIs DEF Bound, Core, Loose
<1>1. u = Forgetting(b, pairs)
  BY DEF SentHome, Forgetting
<1>2. /\ Bound(a) /\ Placed(a, m) /\ a.at[m] = Home
      /\ \A x \in Creatures \ {m} : Placed(a, x) => Placed(v, x) /\ a.at[x] = v.at[x]
  BY <1>0, MoveCreatureSound
<1> HIDE DEF a
<1>3. Core(a) /\ MastersPlaced(a) /\ a \in State
  BY <1>2 DEF Bound, Settled, Orderly, Core, Loose
<1>4. Mild(a, b, X, {})
  <2>1. \A p \in Players : <<m, p>> \in X
    BY Hands
  <2> QED BY <1>2, <1>3, <2>1, AsleepSound
<1> HIDE DEF b
<1>5. Sound(a, b, X, {}) /\ Core(b)
  BY <1>4 DEF Mild, Sound
<1>6. pairs \in SUBSET (Creatures \X Creatures)
  BY <1>0, Hands
<1>7. Sound(b, u, {}, {}) /\ u.forgotten = b.forgotten \cup pairs
  BY <1>1, <1>5, <1>6, ForgettingSound
<1>8. Sound(a, u, X, {})
  BY <1>3, <1>5, <1>7, SoundThen
<1>9. MastersPlaced(u)
  BY <1>3, <1>8, MastersStay
<1>10. ASSUME NEW n \in Monsters, NEW p \in Players, n \in {} \/ <<n, p>> \in X,
              Placed(u, n), u.alive[n], Placed(u, p), InView(u.at[n], u.at[p])
       PROVE  Knows(u, n, p)
  <2>1. n = m /\ p \in Creatures /\ p # m
    BY <1>10, Hands
  <2>2. Placed(a, p) /\ u.at[p] = a.at[p] /\ u.at[m] = a.at[m]
    BY <1>0, <1>2, <1>8, <1>10, <2>1, SoundPlaces
  <2>3. Placed(v, p) /\ v.at[p] = u.at[p] /\ InView(Home, v.at[p]) /\ v.at[p] \in Places
    BY <1>0, <1>2, <1>10, <2>1, <2>2 DEF Typed
  <2>4. p \in Spectators(v, Home)
    BY <1>0, <2>1, <2>3, InViewSame, SpectatorsIs
  <2> QED BY <1>7, <2>1, <2>4 DEF Knows
<1> QED BY <1>2, <1>8, <1>9, <1>10, BoundKept

\* A summon attacks with its master, or follows it.
LEMMA SummonThinksBound ==
  ASSUME NEW v, Bound(v), NEW m \in Monsters, Placed(v, m), IsSummon(v, m), NEW u,
         u = SummonThinks(v, m)
  PROVE  Bound(u)
<1>0. m \in Creatures /\ Core(v) /\ Used(v, m) /\ v \in State /\ Typed(v) /\ PointersSafe(v)
      /\ MastersPlaced(v)
  BY Hands, StateIs DEF Bound, Core, Loose, Used, Placed, Settled, Orderly
<1>1. v.master[m] \in Creatures /\ Placed(v, v.master[m])
  BY <1>0 DEF IsSummon, MastersPlaced, Typed
<1>2. v.attacked[m] # Nobody => v.attacked[m] \in Creatures /\ Placed(v, v.attacked[m])
  BY <1>0 DEF PointersSafe, Pointers, Safe, Typed
<1>3. CASE v.attacked[m] # Nobody
  <2> DEFINE c == IF v.attacked[m] = m THEN Nobody ELSE v.attacked[m]
  <2>1. u = SetFollowCreature(v, m, c) /\ c \in Creatures \cup {Nobody}
        /\ (c # Nobody => Placed(v, c))
    BY <1>2, <1>3 DEF SummonThinks
  <2> HIDE DEF c
  <2> QED BY <1>0, <2>1, SetFollowBound
<1>4. CASE v.attacked[m] = Nobody /\ v.attacked[v.master[m]] # Nobody
  <2>1. u = SelectTarget(v, m, v.attacked[v.master[m]])
    BY <1>4 DEF SummonThinks
  <2> QED BY <1>0, <2>1, SelectTargetSound, BoundSound
<1>5. CASE v.attacked[m] = Nobody /\ v.attacked[v.master[m]] = Nobody
  <2>1. u = SetFollowCreature(v, m, v.master[m])
    BY <1>5 DEF SummonThinks
  <2> QED BY <1>0, <1>1, <2>1, SetFollowBound
<1> QED BY <1>3, <1>4, <1>5

\* A monster looks for a target.
LEMMA SearchedBound ==
  ASSUME NEW v, Bound(v), NEW m \in Monsters, Placed(v, m), NEW u \in Searched(v, m)
  PROVE  Bound(u) /\ Placed(u, m)
<1>0. m \in Creatures /\ Core(v) /\ Used(v, m)
  BY Hands DEF Bound, Used, Placed
<1>1. CASE u = v
  BY <1>1
<1>2. ASSUME NEW c \in v.targets[m], u = SelectTarget(v, m, c) PROVE Bound(u) /\ Placed(u, m)
  <2>1. Sound(v, u, {}, {})
    BY <1>0, <1>2, SelectTargetSound
  <2> QED BY <1>0, <2>1, BoundSound DEF Sound, Stays
<1> QED BY <1>1, <1>2 DEF Searched

\* A monster summons another.
LEMMA DefendedBound ==
  ASSUME NEW v, Bound(v), NEW m \in Monsters, Placed(v, m), NEW u \in Defended(v, m)
  PROVE  Bound(u)
<1>0. m \in Creatures /\ v \in State /\ Typed(v)
  BY Hands, StateIs DEF Bound, Core, Loose
<1>1. CASE u = v
  BY <1>1
<1>2. ASSUME NEW s \in Free(v), ~IsSummon(v, m), u = SetMaster(PlaceCreature(v, s, v.at[m]), s, m)
      PROVE  Bound(u)
  <2> DEFINE a == PlaceCreature(v, s, v.at[m])
  <2>1. s \in Monsters /\ s \in Creatures /\ v.status[s] = "free" /\ v.at[m] \in Places /\ s # m
        /\ v.master[m] = Nobody
    BY <1>0, <1>2, Hands DEF Free, Typed, Placed, IsSummon
  <2>2. /\ Bound(a) /\ a.master[s] = Nobody /\ a.summons[s] = {}
        /\ \A x \in Creatures : Placed(a, x) <=> Placed(v, x) \/ x = s
        /\ \A x \in Creatures : Placed(v, x) => a.master[x] = v.master[x]
    BY <2>1, PlacedBound
  <2>3. u = SetMaster(a, s, m)
    BY <1>2
  <2> HIDE DEF a
  <2>4. CanHand(a, s, m) /\ Placed(a, s)
    BY <1>0, <2>1, <2>2, Hands DEF CanHand
  <2> QED BY <1>0, <2>1, <2>2, <2>3, <2>4, HandedBound
<1> QED BY <1>1, <1>2 DEF Defended

\* What a monster that is awake may do.
LEMMA ThoughtsBound ==
  ASSUME NEW v, Bound(v), NEW m \in Monsters, Placed(v, m), NEW u \in Thoughts(v, m)
  PROVE  Bound(u)
<1>1. CASE u = v
  BY <1>1
<1>2. CASE IsSummon(v, m) /\ u = SummonThinks(v, m)
  BY <1>2, SummonThinksBound
<1>3. ASSUME NEW t \in Searched(v, m), u \in Defended(t, m) PROVE Bound(u)
  <2>1. Bound(t) /\ Placed(t, m)
    BY SearchedBound
  <2> QED BY <1>3, <2>1, DefendedBound
<1>4. \/ u = v
      \/ IsSummon(v, m) /\ u = SummonThinks(v, m)
      \/ \E t \in Searched(v, m) : u \in Defended(t, m)
  <2>1. CASE v.idle[m]
    BY <2>1 DEF Thoughts
  <2>2. CASE ~v.idle[m] /\ IsSummon(v, m)
    BY <2>2 DEF Thoughts
  <2>3. CASE ~v.idle[m] /\ ~IsSummon(v, m)
    BY <2>3, Zenon DEF Thoughts
  <2> QED BY <2>1, <2>2, <2>3
<1> QED BY <1>1, <1>2, <1>3, <1>4

\* Monster::onThink.
LEMMA OnThinkBound ==
  ASSUME NEW v, Bound(v), NEW m \in Monsters, Placed(v, m), NEW u \in OnThink(v, m)
  PROVE  Bound(u)
<1>0. m \in Creatures /\ Core(v)
  BY Hands DEF Bound
<1> DEFINE a == UpdateIdleStatus(v, m)
<1>1. (\E before : u = RemoveCreature(v, m, before)) \/ u = SentHome(v, m) \/ u \in Thoughts(a, m)
  BY DEF OnThink
<1>2. Sound(v, a, {}, {})
  BY <1>0, UpdateIdleStatusSound DEF Mild
<1> HIDE DEF a
<1>3. Bound(a) /\ Placed(a, m)
  BY <1>0, <1>2, BoundSound DEF Sound, Stays
<1>4. CASE \E before : u = RemoveCreature(v, m, before)
  BY <1>0, <1>4, BoundRemoved
<1>5. CASE u = SentHome(v, m)
  BY <1>5, SentHomeBound
<1>6. CASE u \in Thoughts(a, m)
  BY <1>3, <1>6, ThoughtsBound
<1> QED BY <1>1, <1>4, <1>5, <1>6

\* A creature that is not to be checked any more leaves the list.
Unlisted(v, c) == ReleaseCreature([v EXCEPT !.inVector[c] = FALSE], c)

\* Its reference goes from the check list to the release list.
LEMMA UnlistedBound ==
  ASSUME NEW v, Bound(v), NEW c \in Creatures, v.inVector[c], ~v.checked[c], NEW u,
         u = Unlisted(v, c)
  PROVE  Bound(u)
<1>0. v \in State /\ Loose(v) /\ Core(v) /\ Shaped(v) /\ Typed(v) /\ Orderly(v) /\ SpawnWatched(v)
  BY StateIs DEF Core, Loose, Bound, Settled
<1>1. u = [v EXCEPT !.inVector[c] = FALSE, !.toRelease[c] = @ + 1]
  BY <1>0 DEF Unlisted, ReleaseCreature, Shaped, Fields
<1>2. Shaped(u)
  BY <1>0, <1>1 DEF Shaped
<1>3. /\ u.status = v.status /\ u.at = v.at /\ u.alive = v.alive /\ u.refs = v.refs
      /\ u.checked = v.checked /\ u.master = v.master /\ u.summons = v.summons
      /\ u.attacked = v.attacked /\ u.follow = v.follow /\ u.idle = v.idle /\ u.targets = v.targets
      /\ u.friends = v.friends /\ u.spawned = v.spawned /\ u.checkSpawnEvent = v.checkSpawnEvent
      /\ u.scheduled = v.scheduled /\ u.forgotten = v.forgotten /\ u.filled = v.filled
      /\ u.inVector = [v.inVector EXCEPT ![c] = FALSE]
      /\ u.toRelease = [v.toRelease EXCEPT ![c] = @ + 1]
  BY <1>0, <1>1 DEF Shaped, Fields
<1>4. u \in State
  <2>1. Typed(u)
    BY <1>0, <1>3 DEF Typed
  <2> QED BY <1>2, <2>1, StateIs
<1>5. \A x \in Creatures : /\ u.inVector[x] <=> v.inVector[x] /\ x # c
                           /\ u.toRelease[x] = IF x = c THEN v.toRelease[x] + 1 ELSE v.toRelease[x]
  BY <1>0, <1>3 DEF Typed
<1>6. SameWorld(v, u)
  BY <1>3, <1>5 DEF SameWorld, Awake
<1>7. Exact(u)
  <2> SUFFICES ASSUME NEW x \in Creatures PROVE u.refs[x] = References(u, x)
    BY DEF Exact
  <2>1. u.refs[x] = References(v, x)
    BY <1>0, <1>3 DEF Loose, Exact
  <2>2. u.toRelease[x] + Count(u.inVector[x]) = v.toRelease[x] + Count(v.inVector[x])
    BY <1>0, <1>5 DEF Typed, Count
  <2>3. Placed(u, x) <=> Placed(v, x)
    BY <1>3 DEF Placed
  <2>4. /\ v.toRelease[x] \in Nat /\ u.toRelease[x] \in Nat
        /\ Cardinality(Within(Slots, v.spawned, x)) \in Nat
        /\ Cardinality(Within(Creatures, v.targets, x)) \in Nat
        /\ Cardinality(Within(Creatures, v.friends, x)) \in Nat
        /\ Count(u.inVector[x]) \in Nat /\ Count(v.inVector[x]) \in Nat
        /\ Count(Placed(v, x)) \in Nat
        /\ Count(v.master[x] # Nobody) \in Nat
    BY <1>0, <1>4, Hands, WithinCounts, StateIs DEF Typed, Count
  <2>5. Count(Placed(u, x)) = Count(Placed(v, x))
    BY <2>3 DEF Count
  <2> DEFINE others == Cardinality(Within(Slots, v.spawned, x)) + Count(v.master[x] # Nobody)
                       + Cardinality(Within(Creatures, v.targets, x)) + Cardinality(Within(Creatures, v.friends, x))
  <2>6. References(v, x) = Count(Placed(v, x)) + v.toRelease[x] + Count(v.inVector[x]) + others
    BY <2>4, ReferencesAre
  <2>7. References(u, x) = Count(Placed(v, x)) + u.toRelease[x] + Count(u.inVector[x]) + others
    <3>1. References(u, x) =
            Count(Placed(u, x)) + u.toRelease[x] + Count(u.inVector[x])
            + Cardinality(Within(Slots, u.spawned, x)) + Count(u.master[x] # Nobody)
            + Cardinality(Within(Creatures, u.targets, x)) + Cardinality(Within(Creatures, u.friends, x))
      BY ReferencesAre
    <3>2. u.spawned = v.spawned /\ u.master = v.master /\ u.targets = v.targets
          /\ u.friends = v.friends
      BY <1>3
    <3>3. References(u, x) =
            Count(Placed(v, x)) + u.toRelease[x] + Count(u.inVector[x])
            + Cardinality(Within(Slots, v.spawned, x)) + Count(v.master[x] # Nobody)
            + Cardinality(Within(Creatures, v.targets, x)) + Cardinality(Within(Creatures, v.friends, x))
      BY <3>1, <3>2, <2>5
    <3> QED BY <3>3, <2>4
  <2>8. others \in Nat
    BY <2>4
  <2> HIDE DEF others
  <2> QED BY <2>1, <2>2, <2>4, <2>6, <2>7, <2>8
<1>8. \A x \in Creatures : Live(v, x) => Live(u, x)
  BY <1>0, <1>3, <1>5 DEF Live, Placed, Typed
<1>9. MastersLive(u)
  BY <1>0, <1>3, <1>8 DEF Loose, MastersLive, Placed, Typed
<1>10. Loose(u)
  <2>1. \A x \in Creatures : v.status[x] = "free" => u.refs[x] = 0
    BY <1>0, <1>3 DEF Loose
  <2> QED BY <1>0, <1>4, <1>6, <1>7, <1>9, <2>1, LooseSame
<1>11. Core(u)
  BY <1>0, <1>3, <1>10 DEF Core
<1>12. Orderly(u)
  BY <1>0, <1>6, OrderlySame
<1>13. SpawnWatched(u)
  BY <1>0, <1>3 DEF SpawnWatched, Placed
<1> QED BY <1>11, <1>12, <1>13 DEF Bound, Settled

\* A turn of Game::checkCreatures, with the cleanup at its end, keeps the invariant.
LEMMA CheckCreatureKeeps ==
  ASSUME Bound(w), NEW c \in Creatures, CheckCreature(c)
  PROVE  Bound(w')
<1>0. w.inVector[c] /\ (w.checked[c] => Placed(w, c))
  BY DEF Bound, Core, Loose, Awake, CheckCreature
<1>1. PICK v : w' = Cleanup(v) /\ v \in IF ~w.checked[c] THEN {ReleaseCreature([w EXCEPT !.inVector[c] = FALSE], c)}
                                         ELSE IF ~w.alive[c] THEN OnDeath(w, c)
                                         ELSE IF c \in Monsters THEN OnThink(w, c) ELSE {w}
  BY DEF CheckCreature
<1>2. CASE ~w.checked[c]
  <2>1. v = Unlisted(w, c)
    BY <1>1, <1>2 DEF Unlisted
  <2> QED BY <1>0, <1>1, <1>2, <2>1, UnlistedBound, CleanupBound
<1>3. CASE w.checked[c] /\ ~w.alive[c]
  BY <1>0, <1>1, <1>3, OnDeathBound, CleanupBound
<1>4. CASE w.checked[c] /\ w.alive[c] /\ c \in Monsters
  BY <1>0, <1>1, <1>4, OnThinkBound, CleanupBound
<1>5. CASE w.checked[c] /\ w.alive[c] /\ c \notin Monsters
  BY <1>1, <1>5, CleanupBound
<1> QED BY <1>2, <1>3, <1>4, <1>5

-----------------------------------------------------------------------------
(* The theorems *)

\* The state in which the server is up.
StartedAs(u, slots, m) ==
  /\ u \in State /\ u.filled = slots /\ u.scheduled = {}
  /\ \A s \in slots : u.spawned[s] = {m[s]} /\ Placed(u, m[s]) /\ u.refs[m[s]] = 2
  /\ \A s \in Slots \ slots : u.spawned[s] = {}
  /\ \A c \in Creatures : (\A s \in slots : c # m[s]) => u.status[c] = "free" /\ u.refs[c] = 0
  /\ \A c \in Creatures :
       /\ u.alive[c] /\ u.toRelease[c] = 0 /\ ~u.checked[c] /\ ~u.inVector[c]
       /\ u.master[c] = Nobody /\ u.summons[c] = {} /\ u.attacked[c] = Nobody
       /\ u.follow[c] = Nobody
       /\ u.targets[c] = {} /\ u.friends[c] = {}

\* Spawn::startup, field by field.
LEMMA StartedIs ==
  ASSUME NEW slots \in SUBSET Slots, NEW m \in [slots -> Monsters], NEW u,
         u = StartedWith(Nowhere, slots, m)
  PROVE  StartedAs(u, slots, m)
<1> DEFINE placed == {m[s] : s \in slots}
<1>1. \A c : c \in placed <=> \E s \in slots : c = m[s]
  OBVIOUS
<1>2. Shaped(u)
  BY DEF StartedWith, Nowhere, Shaped, Fields
<1>3. /\ u.status = [c \in Creatures |-> IF c \in placed THEN "placed" ELSE "free"]
      /\ u.at = [c \in Creatures |-> Home] /\ u.alive = [c \in Creatures |-> TRUE]
      /\ u.refs = [c \in Creatures |-> IF c \in placed THEN 2 ELSE 0]
      /\ u.toRelease = [c \in Creatures |-> 0] /\ u.checked = [c \in Creatures |-> FALSE]
      /\ u.inVector = [c \in Creatures |-> FALSE] /\ u.master = [c \in Creatures |-> Nobody]
      /\ u.summons = [c \in Creatures |-> {}] /\ u.attacked = [c \in Creatures |-> Nobody]
      /\ u.follow = [c \in Creatures |-> Nobody] /\ u.idle = [c \in Creatures |-> TRUE]
      /\ u.targets = [c \in Creatures |-> {}] /\ u.friends = [c \in Creatures |-> {}]
      /\ u.spawned = [s \in Slots |-> IF s \in slots THEN {m[s]} ELSE {}]
      /\ u.checkSpawnEvent = FALSE /\ u.scheduled = {} /\ u.forgotten = {} /\ u.filled = slots
  BY DEF StartedWith, Nowhere
<1> HIDE DEF placed
<1>4. Typed(u)
  <2>1. u.at \in [Creatures -> Places] /\ u.alive \in [Creatures -> BOOLEAN]
        /\ u.toRelease \in [Creatures -> Nat]
    BY <1>3, Hands
  <2>2. u.spawned \in [Slots -> SUBSET Monsters]
    BY <1>3
  <2>3. u.status \in [Creatures -> {"free", "placed", "removed"}] /\ u.refs \in [Creatures -> Int]
    BY <1>3
  <2>4. /\ u.checked \in [Creatures -> BOOLEAN] /\ u.inVector \in [Creatures -> BOOLEAN]
        /\ u.idle \in [Creatures -> BOOLEAN]
    BY <1>3
  <2>5. /\ u.master \in [Creatures -> Creatures \cup {Nobody}]
        /\ u.attacked \in [Creatures -> Creatures \cup {Nobody}]
        /\ u.follow \in [Creatures -> Creatures \cup {Nobody}]
    BY <1>3
  <2>6. /\ u.summons \in [Creatures -> SUBSET Creatures]
        /\ u.targets \in [Creatures -> SUBSET Creatures]
        /\ u.friends \in [Creatures -> SUBSET Creatures]
    BY <1>3
  <2>7. /\ u.checkSpawnEvent \in BOOLEAN /\ u.scheduled \in SUBSET Slots
        /\ u.forgotten \in SUBSET (Creatures \X Creatures) /\ u.filled \in SUBSET Slots
    BY <1>3
  <2> QED BY <2>1, <2>2, <2>3, <2>4, <2>5, <2>6, <2>7 DEF Typed
<1>5. u \in State
  BY <1>2, <1>4, StateIs
<1>6. (\A s \in slots : u.spawned[s] = {m[s]}) /\ (\A s \in Slots \ slots : u.spawned[s] = {})
  BY <1>3
<1>7. ASSUME NEW s \in slots PROVE Placed(u, m[s]) /\ u.refs[m[s]] = 2
  <2>1. m[s] \in Creatures /\ m[s] \in placed
    BY <1>1, Hands
  <2> QED BY <1>3, <2>1 DEF Placed
<1>8. ASSUME NEW c \in Creatures, \A s \in slots : c # m[s]
      PROVE  u.status[c] = "free" /\ u.refs[c] = 0
  <2>1. c \notin placed
    BY <1>1, <1>8
  <2> QED BY <1>3, <2>1
<1>9. ASSUME NEW c \in Creatures
      PROVE  /\ u.alive[c] /\ u.toRelease[c] = 0 /\ ~u.checked[c] /\ ~u.inVector[c]
             /\ u.master[c] = Nobody /\ u.summons[c] = {} /\ u.attacked[c] = Nobody
             /\ u.follow[c] = Nobody
             /\ u.targets[c] = {} /\ u.friends[c] = {}
  BY <1>3
<1> QED BY <1>3, <1>5, <1>6, <1>7, <1>8, <1>9 DEF StartedAs

\* Each monster that was placed has two references: the game and one slot.
LEMMA StartedExact ==
  ASSUME NEW slots \in SUBSET Slots, NEW m \in [slots -> Monsters],
         \A s, t \in slots : m[s] = m[t] => s = t,
         NEW u, StartedAs(u, slots, m)
  PROVE  Exact(u)
<1> SUFFICES ASSUME NEW c \in Creatures PROVE u.refs[c] = References(u, c)
  BY DEF Exact
<1>1. Within(Creatures, u.targets, c) = {} /\ Within(Creatures, u.friends, c) = {}
  BY DEF StartedAs, Within
<1>2. References(u, c) = Count(Placed(u, c)) + Cardinality(Within(Slots, u.spawned, c))
  <2>1. u.toRelease[c] = 0 /\ Count(u.inVector[c]) = 0 /\ Count(u.master[c] # Nobody) = 0
    BY DEF StartedAs, Count
  <2>2. Cardinality(Within(Slots, u.spawned, c)) \in Nat /\ Count(Placed(u, c)) \in Nat
    BY Hands, WithinCounts DEF Count
  <2>3. Cardinality(Within(Creatures, u.targets, c)) = 0
        /\ Cardinality(Within(Creatures, u.friends, c)) = 0
    BY <1>1, FS_EmptySet
  <2>4. References(u, c) =
          Count(Placed(u, c)) + u.toRelease[c] + Count(u.inVector[c])
          + Cardinality(Within(Slots, u.spawned, c)) + Count(u.master[c] # Nobody)
          + Cardinality(Within(Creatures, u.targets, c)) + Cardinality(Within(Creatures, u.friends, c))
    BY ReferencesAre
  <2> QED BY <2>1, <2>2, <2>3, <2>4
<1>3. \A t \in Slots : c \in u.spawned[t] <=> t \in slots /\ m[t] = c
  <2> SUFFICES ASSUME NEW t \in Slots PROVE c \in u.spawned[t] <=> t \in slots /\ m[t] = c
    OBVIOUS
  <2>1. CASE t \in slots
    BY <2>1 DEF StartedAs
  <2>2. CASE t \notin slots
    BY <2>2 DEF StartedAs
  <2> QED BY <2>1, <2>2
<1>4. ASSUME NEW s \in slots, c = m[s] PROVE u.refs[c] = References(u, c)
  <2>1. Within(Slots, u.spawned, c) = {s}
    BY <1>3, <1>4 DEF Within
  <2>2. Cardinality(Within(Slots, u.spawned, c)) = 1
    BY <2>1, FS_Singleton
  <2>3. u.refs[c] = 2 /\ Placed(u, c)
    BY <1>4 DEF StartedAs
  <2> QED BY <1>2, <2>2, <2>3 DEF Count
<1>5. ASSUME \A s \in slots : c # m[s] PROVE u.refs[c] = References(u, c)
  <2>1. Within(Slots, u.spawned, c) = {}
    BY <1>3, <1>5 DEF Within
  <2>2. Cardinality(Within(Slots, u.spawned, c)) = 0
    BY <2>1, FS_EmptySet
  <2>3. u.refs[c] = 0 /\ ~Placed(u, c)
    BY <1>5 DEF StartedAs, Placed
  <2> QED BY <1>2, <2>2, <2>3 DEF Count
<1> QED BY <1>4, <1>5

\* The invariant holds when the server is up.
LEMMA InitBound ==
  ASSUME CreaturesInit
  PROVE  Bound(w)
<1>0. PICK slots \in SUBSET Slots : \E m \in [slots -> Monsters] :
        (\A s, t \in slots : m[s] = m[t] => s = t) /\ w = StartedWith(Nowhere, slots, m)
  BY DEF CreaturesInit
<1>1. PICK m \in [slots -> Monsters] : (\A s, t \in slots : m[s] = m[t] => s = t) /\ w = StartedWith(Nowhere, slots, m)
  BY <1>0
<1>2. StartedAs(w, slots, m)
  BY <1>1, StartedIs
<1>3. Exact(w)
  BY <1>1, <1>2, StartedExact
<1>4. Lines(w) /\ Blank(w) /\ MastersLive(w)
  BY <1>2, Hands DEF StartedAs, Lines, Blank, MastersLive
<1>5. \A c \in Creatures : w.status[c] = "free" <=> w.refs[c] = 0
  BY <1>2 DEF StartedAs, Placed
<1>6. Core(w)
  BY <1>2, <1>3, <1>4, <1>5 DEF StartedAs, Core, Loose, Awake
<1>7. \A p \in Players : ~Placed(w, p)
  BY <1>2, Hands DEF StartedAs, Placed
<1>8. Orderly(w)
  <2>1. PointersSafe(w) /\ MastersPlaced(w)
    BY <1>2 DEF StartedAs, PointersSafe, Pointers, MastersPlaced
  <2>2. Sight(w) /\ AllMinded(w)
    BY <1>2, <1>7 DEF StartedAs, Sight, Sees, AllMinded, Minded
  <2> QED BY <2>1, <2>2 DEF Orderly
<1>9. SpawnWatched(w)
  <2>1. ASSUME NEW s \in Slots, NEW x \in w.spawned[s], NEW y \in w.spawned[s] PROVE x = y
    <3>1. CASE s \in slots
      BY <1>2, <3>1, <2>1 DEF StartedAs
    <3>2. CASE s \notin slots
      BY <1>2, <3>2, <2>1 DEF StartedAs
    <3> QED BY <3>1, <3>2
  <2>2. ASSUME NEW s \in w.filled PROVE \E x \in w.spawned[s] : Placed(w, x)
    BY <1>2 DEF StartedAs
  <2>3. w.scheduled = {}
    BY <1>2 DEF StartedAs
  <2> QED BY <2>1, <2>2, <2>3 DEF SpawnWatched
<1> QED BY <1>6, <1>8, <1>9 DEF Bound, Settled

\* Every step keeps it.
LEMMA StepBound ==
  ASSUME Bound(w), [CreaturesNext]_w
  PROVE  Bound(w')
<1>1. CASE UNCHANGED w
  BY <1>1
<1>2. CASE CheckSpawn
  BY <1>2, CheckSpawnKeeps
<1>3. ASSUME NEW s \in Slots, ScheduleSpawn(s) PROVE Bound(w')
  BY <1>3, ScheduleSpawnKeeps
<1>4. ASSUME NEW p \in Players, NEW place \in Places, Login(p, place) PROVE Bound(w')
  BY <1>4, LoginKeeps
<1>5. ASSUME NEW p \in Players, Logout(p) PROVE Bound(w')
  BY <1>5, LogoutKeeps
<1>6. ASSUME NEW c \in Creatures, NEW place \in Places, NEW far \in SUBSET Monsters,
             NEW before, Move(c, place, far, before)
      PROVE  Bound(w')
  BY <1>6, MoveKeeps
<1>7. ASSUME NEW p \in Players, NEW c \in Creatures \cup {Nobody}, NEW chase \in BOOLEAN,
             PlayerSetAttackedCreature(p, c, chase)
      PROVE  Bound(w')
  BY <1>7, AttackKeeps
<1>8. ASSUME NEW p \in Players, NEW c \in Creatures, PlayerFollowCreature(p, c) PROVE Bound(w')
  BY <1>8, FollowKeeps
<1>9. ASSUME NEW p \in Players, NEW m \in Monsters, AddSummon(p, m) PROVE Bound(w')
  BY <1>9, AddSummonKeeps
<1>10. ASSUME NEW c \in Creatures, LoseHealth(c) PROVE Bound(w')
  BY <1>10, LoseHealthKeeps
<1>11. ASSUME NEW c \in Creatures, CheckCreature(c) PROVE Bound(w')
  BY <1>11, CheckCreatureKeeps
<1> QED BY <1>1, <1>2, <1>3, <1>4, <1>5, <1>6, <1>7, <1>8, <1>9, <1>10, <1>11 DEF CreaturesNext

(***************************************************************************)
(* The inductive invariant: in every state between two tasks of the        *)
(* dispatcher the counters and the lines of masters are right (Core), the  *)
(* pointers are safe, masters are there, monsters know whom they see, what *)
(* must be checked is checked (Orderly), and the spawn is looked after.    *)
(***************************************************************************)
THEOREM AlwaysBound == CreaturesSpec => []Bound(w)
<1>1. CreaturesInit => Bound(w)
  BY InitBound
<1>2. Bound(w) /\ [CreaturesNext]_w => Bound(w)'
  BY StepBound
<1> QED BY <1>1, <1>2, PTL DEF CreaturesSpec

\* Every field of the state of creatures keeps its type: no counter of released references
\* is negative, lists hold creatures, and a master is a creature or nobody.
THEOREM CreaturesTyped == CreaturesSpec => [](w \in State)
<1>1. Bound(w) => w \in State
  BY DEF Bound, Core, Loose
<1> QED BY <1>1, AlwaysBound, PTL

\* ReferencesExact, for any number of players, monsters, places and slots: referenceCounter is
\* always the number of those who will decrement it, and an object is deleted when it is 0.
THEOREM CountersExact == CreaturesSpec => []ReferencesExact
<1>1. Bound(w) => ReferencesExact
  BY DEF Bound, Core, Loose, Exact, ReferencesExact
<1> QED BY <1>1, AlwaysBound, PTL

\* PointersAreLive: attackedCreature, followCreature and master, which are not counted, never
\* point to a creature that is out of the world or out of view.
THEOREM PointersAlwaysLive == CreaturesSpec => []PointersAreLive
<1>1. Bound(w) => PointersAreLive
  <2> SUFFICES ASSUME Bound(w) PROVE PointersAreLive
    OBVIOUS
  <2>1. Lines(w) /\ PointersSafe(w) /\ MastersPlaced(w)
    BY DEF Bound, Core, Loose, Settled, Orderly
  <2> QED BY <2>1 DEF PointersAreLive, Lines, PointersSafe, Pointers, Safe, MastersPlaced
<1> QED BY <1>1, AlwaysBound, PTL

\* AwakeInSight: a monster that sees a player is in the list of creatures to check, whatever
\* brought one into the other's view, unless it was sent home and forgot whom it saw there.
THEOREM NobodyPassesAsleep == CreaturesSpec => []AwakeInSight
<1>1. Bound(w) => AwakeInSight
  BY DEF Bound, Settled, Orderly, Sight, Sees, Knows, Awake, AwakeInSight
<1> QED BY <1>1, AlwaysBound, PTL

\* SpawnLooksAfter: Spawn::checkSpawn is scheduled as long as a slot that had a monster has none.
THEOREM SpawnAlwaysLooksAfter == CreaturesSpec => []SpawnLooksAfter
<1>1. Bound(w) => SpawnLooksAfter
  BY DEF Bound, Settled, SpawnWatched, SpawnLooksAfter
<1> QED BY <1>1, AlwaysBound, PTL

\* DyingIsChecked: a creature without health stays in the check list until it is buried.
THEOREM DyingAlwaysChecked == CreaturesSpec => []DyingIsChecked
<1>1. Bound(w) => DyingIsChecked
  BY DEF Bound, Settled, Orderly, AllMinded, Minded, Awake, DyingIsChecked
<1> QED BY <1>1, AlwaysBound, PTL
=============================================================================
