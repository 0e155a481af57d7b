---------------------------- MODULE ServerProofs ----------------------------
(***************************************************************************)
(* The database queue by itself, for every number of callers and queries,  *)
(* and then the threads together: nothing is lost when the process exits,  *)
(* for any packets, events and queries.                                    *)
(*                                                                         *)
(* Every step of the server is one step of each queue, or leaves it alone; *)
(* what the shutdown adds is an order: the database queue is flushed       *)
(* before the dispatcher gets its last task, and main() joins the threads  *)
(* when they have ended.                                                   *)
(***************************************************************************)
EXTENDS Server, DatabaseTasks, TLAPS

-----------------------------------------------------------------------------
(* The database queue: the invariant *)

\* An executor takes one task at a time.
Singles == \A x \in Executors : held[x] # {} => \E t \in Tasks : held[x] = {t}

\* How many accepted tasks were taken from the list.
Gone == Len(accepted) - Len(tasks)

\* The list is the end of what was accepted, in the same order.
Suffix ==
    /\ Len(tasks) <= Len(accepted)
    /\ \A i \in 1 .. Len(tasks) : tasks[i] = accepted[Gone + i]

\* No task is submitted twice.
Distinct == \A i, j \in DOMAIN accepted : accepted[i] = accepted[j] => i = j

\* What was taken from the list is executed or about to be.
Front ==
    {accepted[i] : i \in 1 .. Gone} = Taken("thread") \cup Taken("flush") \cup Elements(executed)

Count ==
    Len(executed) = Gone - (IF Taken("thread") = {} THEN 0 ELSE 1)
                         - (IF Taken("flush") = {} THEN 0 ELSE 1)

\* The inductive invariant.
Inv == TypeOK /\ Singles /\ Suffix /\ Distinct /\ Front /\ Count

-----------------------------------------------------------------------------
(* Sequences *)

\* What Append does to the elements.
LEMMA AppendElements ==
    ASSUME NEW T, NEW s \in Seq(T), NEW x \in T
    PROVE  /\ Append(s, x) \in Seq(T) /\ Len(Append(s, x)) = Len(s) + 1
           /\ Elements(Append(s, x)) = Elements(s) \cup {x}
           /\ \A i \in 1 .. Len(s) : Append(s, x)[i] = s[i]
           /\ Append(s, x)[Len(s) + 1] = x
<1>1. /\ Append(s, x) \in Seq(T) /\ Len(Append(s, x)) = Len(s) + 1 /\ Len(s) \in Nat
      /\ DOMAIN s = 1 .. Len(s) /\ DOMAIN Append(s, x) = 1 .. (Len(s) + 1)
      /\ \A i \in 1 .. Len(s) : Append(s, x)[i] = s[i]
      /\ Append(s, x)[Len(s) + 1] = x
  OBVIOUS
<1>2. Elements(Append(s, x)) = Elements(s) \cup {x}
  BY <1>1 DEF Elements
<1> QED
  BY <1>1, <1>2

\* What Head and Tail are.
LEMMA TailElements ==
    ASSUME NEW T, NEW s \in Seq(T), s # <<>>
    PROVE  /\ Tail(s) \in Seq(T) /\ Len(Tail(s)) = Len(s) - 1 /\ Len(s) \in Nat \ {0}
           /\ Head(s) = s[1] /\ Head(s) \in T
           /\ \A i \in 1 .. Len(s) - 1 : Tail(s)[i] = s[i + 1]
  OBVIOUS

-----------------------------------------------------------------------------
(* The database queue: the steps *)

\* A step that moves no task.
LEMMA NoTaskMoves ==
    ASSUME Inv, TypeOK', UNCHANGED <<tasks, held, accepted, executed>>,
           pc = "querying" <=> pc' = "querying", flushAt = "querying" <=> flushAt' = "querying"
    PROVE  Inv'
<1>1. Taken("thread")' = Taken("thread") /\ Taken("flush")' = Taken("flush") /\ Gone' = Gone
  BY DEF Taken, Gone
<1>2. Singles' /\ Suffix' /\ Distinct'
  BY DEF Inv, Singles, Suffix, Distinct, Gone
<1>3. Front' /\ Count'
  BY <1>1 DEF Inv, Front, Count, Elements, Gone
<1> QED
  BY <1>2, <1>3 DEF Inv

\* The steps of the threads between two tasks, and those of stop and shutdown.
LEMMA StepControl ==
    ASSUME Inv,
           \/ Start \/ TestState \/ Wait \/ SpuriousWakeup \/ NothingToTake
           \/ Flush \/ FlushEnd \/ Stop \/ CloseDispatcher \/ Shutdown \/ ShutdownNotify
           \/ \E c \in Callers : NotifyOne(c)
    PROVE  Inv'
<1>1. CASE Start
  BY <1>1, NoTaskMoves DEF Inv, TypeOK, PCs, FlushPCs, Start
<1>2. CASE TestState
  BY <1>2, NoTaskMoves DEF Inv, TypeOK, PCs, FlushPCs, TestState
<1>3. CASE Wait
  BY <1>3, NoTaskMoves DEF Inv, TypeOK, PCs, FlushPCs, Wait
<1>4. CASE SpuriousWakeup
  BY <1>4, NoTaskMoves DEF Inv, TypeOK, PCs, FlushPCs, SpuriousWakeup
<1>5. CASE NothingToTake
  BY <1>5, NoTaskMoves DEF Inv, TypeOK, PCs, FlushPCs, NothingToTake
<1>6. CASE Flush
  BY <1>6, NoTaskMoves DEF Inv, TypeOK, PCs, FlushPCs, Flush
<1>7. CASE FlushEnd
  BY <1>7, NoTaskMoves DEF Inv, TypeOK, PCs, FlushPCs, FlushEnd
<1>8. CASE Stop
  BY <1>8, NoTaskMoves DEF Inv, TypeOK, PCs, FlushPCs, Stop
<1>9. CASE CloseDispatcher
  BY <1>9, NoTaskMoves DEF Inv, TypeOK, PCs, FlushPCs, CloseDispatcher
<1>10. CASE Shutdown
  BY <1>10, NoTaskMoves DEF Inv, TypeOK, PCs, FlushPCs, Shutdown
<1>11. CASE ShutdownNotify
  BY <1>11, NoTaskMoves DEF Inv, TypeOK, PCs, FlushPCs, ShutdownNotify, WakeWaiting
<1>12. CASE \E c \in Callers : NotifyOne(c)
  BY <1>12, NoTaskMoves DEF Inv, TypeOK, PCs, FlushPCs, NotifyOne, WakeWaiting
<1> QED
  BY <1>1, <1>2, <1>3, <1>4, <1>5, <1>6, <1>7, <1>8, <1>9, <1>10, <1>11, <1>12

\* The list gets a new last task.
LEMMA StepAddTask ==
    ASSUME Inv, NEW c \in Callers, NEW t \in Tasks, AddTask(c, t)
    PROVE  Inv'
<1>1. /\ tasks' = Append(tasks, t) /\ accepted' = Append(accepted, t)
      /\ t \notin Elements(accepted) /\ signalling' \subseteq Callers
      /\ UNCHANGED <<threadState, pc, flushAt, inShutdown, held, dispatcherOpen, executed, called>>
      /\ tasks \in Seq(Tasks) /\ accepted \in Seq(Tasks)
  BY DEF AddTask, PushBack, Inv, TypeOK
<1>2. /\ Len(tasks') = Len(tasks) + 1 /\ Len(accepted') = Len(accepted) + 1
      /\ tasks' \in Seq(Tasks) /\ accepted' \in Seq(Tasks)
      /\ \A i \in 1 .. Len(tasks) : tasks'[i] = tasks[i]
      /\ tasks'[Len(tasks) + 1] = t
      /\ \A i \in 1 .. Len(accepted) : accepted'[i] = accepted[i]
      /\ accepted'[Len(accepted) + 1] = t
      /\ Len(tasks) \in Nat /\ Len(accepted) \in Nat /\ Len(tasks) <= Len(accepted)
  BY <1>1, AppendElements DEF Inv, Suffix
<1>3. Gone' = Gone /\ Gone \in Nat /\ Gone + Len(tasks) = Len(accepted)
  BY <1>2 DEF Gone
<1>4. TypeOK'
  BY <1>1, <1>2 DEF Inv, TypeOK
<1>5. Singles'
  BY <1>1 DEF Inv, Singles
<1>6. Suffix'
  <2>1. ASSUME NEW i \in 1 .. Len(tasks') PROVE tasks'[i] = accepted'[Gone' + i]
    <3>1. CASE i \in 1 .. Len(tasks)
      <4>1. tasks[i] = accepted[Gone + i] /\ Gone + i \in 1 .. Len(accepted)
        BY <1>2, <1>3, <3>1 DEF Inv, Suffix
      <4> QED
        BY <1>2, <1>3, <3>1, <4>1
    <3>2. CASE i = Len(tasks) + 1
      <4>1. Gone + i = Len(accepted) + 1
        BY <1>2, <1>3, <3>2
      <4> QED
        BY <1>2, <1>3, <3>2, <4>1
    <3> QED
      BY <1>2, <3>1, <3>2
  <2> QED
    BY <1>2, <2>1 DEF Suffix
<1>7. Distinct'
  <2>1. DOMAIN accepted = 1 .. Len(accepted) /\ DOMAIN accepted' = 1 .. (Len(accepted) + 1)
    BY <1>1, <1>2
  <2>2. \A i \in 1 .. Len(accepted) : accepted[i] # t
    BY <1>1, <2>1 DEF Elements
  <2> QED
    BY <1>2, <2>1, <2>2 DEF Inv, Distinct
<1>8. Front' /\ Count'
  <2>1. {accepted'[i] : i \in 1 .. Gone'} = {accepted[i] : i \in 1 .. Gone}
    <3>1. ASSUME NEW i \in 1 .. Gone PROVE accepted'[i] = accepted[i]
      <4>1. i \in 1 .. Len(accepted)
        BY <1>2, <1>3
      <4> QED
        BY <1>2, <4>1
    <3> QED
      BY <1>3, <3>1
  <2>2. Taken("thread")' = Taken("thread") /\ Taken("flush")' = Taken("flush")
    BY <1>1 DEF Taken
  <2> QED
    BY <1>1, <1>3, <2>1, <2>2 DEF Inv, Front, Count, Elements
<1> QED
  BY <1>4, <1>5, <1>6, <1>7, <1>8 DEF Inv

\* An executor takes the first task of the list.
LEMMA PopTakes ==
    ASSUME Inv, TypeOK', NEW x \in Executors, Pop(x), Taken(x) = {}, Taken(x)' = held'[x],
           \A y \in Executors \ {x} : Taken(y)' = Taken(y)
    PROVE  Inv'
<1>1. /\ tasks # <<>> /\ held' = [held EXCEPT ![x] = {Head(tasks)}] /\ tasks' = Tail(tasks)
      /\ accepted' = accepted /\ executed' = executed
      /\ tasks \in Seq(Tasks) /\ accepted \in Seq(Tasks) /\ held \in [Executors -> SUBSET Tasks]
  BY DEF Pop, PopFront, Inv, TypeOK
<1>2. /\ Len(tasks') = Len(tasks) - 1 /\ Len(tasks) \in Nat \ {0} /\ Len(accepted) \in Nat
      /\ Head(tasks) = tasks[1] /\ Head(tasks) \in Tasks /\ Len(tasks) <= Len(accepted)
      /\ \A i \in 1 .. Len(tasks) - 1 : tasks'[i] = tasks[i + 1]
  BY <1>1, TailElements DEF Inv, Suffix
<1>3. Gone' = Gone + 1 /\ Gone \in Nat /\ Gone + Len(tasks) = Len(accepted)
  BY <1>1, <1>2 DEF Gone
<1>4. Head(tasks) = accepted[Gone + 1] /\ Taken(x)' = {Head(tasks)}
  BY <1>1, <1>2, <1>3 DEF Inv, Suffix
<1>5. Singles'
  BY <1>1, <1>2 DEF Inv, Singles
<1>6. Suffix'
  <2>1. ASSUME NEW i \in 1 .. Len(tasks') PROVE tasks'[i] = accepted[Gone' + i]
    <3>1. i \in 1 .. Len(tasks) - 1 /\ i + 1 \in 1 .. Len(tasks) /\ Gone' + i = Gone + (i + 1)
      BY <1>2, <1>3
    <3> QED
      BY <1>2, <3>1 DEF Inv, Suffix
  <2> QED
    BY <1>1, <1>2, <2>1 DEF Suffix
<1>7. Distinct'
  BY <1>1 DEF Inv, Distinct
<1>8. Front' /\ Count'
  <2>1. {accepted[i] : i \in 1 .. Gone'} = {accepted[i] : i \in 1 .. Gone} \cup {Head(tasks)}
    BY <1>3, <1>4
  <2>2. x = "thread" \/ x = "flush"
    BY DEF Executors
  <2>3. Elements(executed)' = Elements(executed)
    BY <1>1 DEF Elements
  <2>4. Len(executed) \in Nat /\ Len(executed') = Len(executed)
    BY <1>1 DEF Inv, TypeOK
  <2>5. CASE x = "thread"
    <3>1. /\ Taken("flush")' = Taken("flush")
          /\ Taken("thread") = {} /\ Taken("thread")' = {Head(tasks)}
      BY <1>4, <2>5 DEF Executors
    <3>2. Front'
      BY <1>1, <2>1, <2>3, <3>1 DEF Inv, Front
    <3>3. Count'
      <4>1. Taken("thread")' # {}
        BY <3>1
      <4> QED
        BY <1>3, <2>4, <3>1, <4>1 DEF Inv, Count
    <3> QED
      BY <3>2, <3>3
  <2>6. CASE x = "flush"
    <3>1. /\ Taken("thread")' = Taken("thread")
          /\ Taken("flush") = {} /\ Taken("flush")' = {Head(tasks)}
      BY <1>4, <2>6 DEF Executors
    <3>2. Front'
      BY <1>1, <2>1, <2>3, <3>1 DEF Inv, Front
    <3>3. Count'
      <4>1. Taken("flush")' # {}
        BY <3>1
      <4> QED
        BY <1>3, <2>4, <3>1, <4>1 DEF Inv, Count
    <3> QED
      BY <3>2, <3>3
  <2> QED
    BY <2>2, <2>5, <2>6
<1> QED
  BY <1>5, <1>6, <1>7, <1>8 DEF Inv

\* An executor executes the query of the task that it has taken.
LEMMA QueryExecutes ==
    ASSUME Inv, TypeOK', NEW x \in Executors, Query(x), Taken(x) = held[x], Taken(x)' = {},
           \A y \in Executors \ {x} : Taken(y)' = Taken(y)
    PROVE  Inv'
<1>1. PICK t \in held[x] : executed' = Append(executed, t)
  BY DEF Query
<1>2. /\ held[x] = {t} /\ t \in Tasks /\ executed \in Seq(Tasks)
      /\ UNCHANGED <<tasks, held, accepted>>
  BY <1>1 DEF Inv, Singles, TypeOK, Query
<1>3. /\ Len(executed') = Len(executed) + 1 /\ Len(executed) \in Nat
      /\ Elements(executed') = Elements(executed) \cup {t}
  BY <1>1, <1>2, AppendElements
<1>4. Singles' /\ Suffix' /\ Distinct' /\ Gone' = Gone
  BY <1>2 DEF Inv, Singles, Suffix, Distinct, Gone
<1>5. Front' /\ Count'
  <2>1. x = "thread" \/ x = "flush"
    BY DEF Executors
  <2>2. Elements(executed)' = Elements(executed) \cup {t}
    BY <1>3 DEF Elements
  <2>3. {accepted[i] : i \in 1 .. Gone}' = {accepted[i] : i \in 1 .. Gone} /\ Gone \in Nat
    BY <1>2, <1>4 DEF Gone, Inv, TypeOK, Suffix
  <2>4. CASE x = "thread"
    <3>1. Taken("flush")' = Taken("flush") /\ Taken("thread") = {t} /\ Taken("thread")' = {}
      BY <1>2, <2>4 DEF Executors
    <3>2. Front'
      BY <2>2, <2>3, <3>1 DEF Inv, Front
    <3>3. Count'
      <4>1. {t} # {}
        OBVIOUS
      <4> QED
        BY <1>3, <1>4, <2>3, <3>1, <4>1 DEF Inv, Count
    <3> QED
      BY <3>2, <3>3
  <2>5. CASE x = "flush"
    <3>1. Taken("thread")' = Taken("thread") /\ Taken("flush") = {t} /\ Taken("flush")' = {}
      BY <1>2, <2>5 DEF Executors
    <3>2. Front'
      BY <2>2, <2>3, <3>1 DEF Inv, Front
    <3>3. Count'
      <4>1. {t} # {}
        OBVIOUS
      <4> QED
        BY <1>3, <1>4, <2>3, <3>1, <4>1 DEF Inv, Count
    <3> QED
      BY <3>2, <3>3
  <2> QED
    BY <2>1, <2>4, <2>5
<1> QED
  BY <1>4, <1>5 DEF Inv

\* What an executor holds when it posts the callback has been executed.
LEMMA PostReleases ==
    ASSUME Inv, TypeOK', NEW x \in Executors, Post(x), \A y \in Executors : Taken(y)' = Taken(y)
    PROVE  Inv'
<1>1. /\ UNCHANGED <<tasks, accepted, executed>>
      /\ held' = [held EXCEPT ![x] = {}] /\ held \in [Executors -> SUBSET Tasks]
  BY DEF Post, Released, Inv, TypeOK
<1>2. Singles' /\ Suffix' /\ Distinct' /\ Gone' = Gone
  BY <1>1 DEF Inv, Singles, Suffix, Distinct, Gone
<1>3. Taken("thread")' = Taken("thread") /\ Taken("flush")' = Taken("flush")
  BY DEF Executors
<1>4. Front' /\ Count'
  BY <1>1, <1>2, <1>3 DEF Inv, Front, Count, Elements
<1> QED
  BY <1>2, <1>4 DEF Inv

\* The thread takes a task, executes its query and posts its callback.
LEMMA StepThread ==
    ASSUME Inv, TakeTask \/ ThreadQuery \/ ThreadPost
    PROVE  Inv'
<1> USE DEF Executors
<1>1. CASE TakeTask
  <2>1. tasks' \in Seq(Tasks) /\ Head(tasks) \in Tasks
    BY <1>1, TailElements DEF TakeTask, Pop, PopFront, Inv, TypeOK
  <2>2. TypeOK'
    BY <1>1, <2>1 DEF TakeTask, Pop, Inv, TypeOK, PCs
  <2>3. /\ Taken("thread") = {} /\ Taken("thread")' = held'["thread"]
        /\ Taken("flush")' = Taken("flush")
    BY <1>1 DEF TakeTask, Pop, Taken, Inv, TypeOK
  <2> QED
    BY <1>1, <2>2, <2>3, PopTakes DEF TakeTask
<1>2. CASE ThreadQuery
  <2>1. executed' \in Seq(Tasks)
    BY <1>2, AppendElements DEF ThreadQuery, Query, Inv, TypeOK
  <2>2. TypeOK'
    BY <1>2, <2>1 DEF ThreadQuery, Query, Inv, TypeOK, PCs
  <2>3. /\ Taken("thread") = held["thread"] /\ Taken("thread")' = {}
        /\ Taken("flush")' = Taken("flush")
    BY <1>2 DEF ThreadQuery, Query, Taken
  <2> QED
    BY <1>2, <2>2, <2>3, QueryExecutes DEF ThreadQuery
<1>3. CASE ThreadPost
  <2>1. TypeOK'
    BY <1>3 DEF ThreadPost, Post, Released, Inv, TypeOK, PCs
  <2>2. Taken("thread")' = Taken("thread") /\ Taken("flush")' = Taken("flush")
    BY <1>3 DEF ThreadPost, Post, Taken, Inv, TypeOK
  <2> QED
    BY <1>3, <2>1, <2>2, PostReleases DEF ThreadPost
<1> QED
  BY <1>1, <1>2, <1>3

\* So does flush(), on the dispatcher thread.
LEMMA StepFlush ==
    ASSUME Inv, FlushPop \/ FlushQuery \/ FlushPost
    PROVE  Inv'
<1> USE DEF Executors
<1>1. CASE FlushPop
  <2>1. tasks' \in Seq(Tasks) /\ Head(tasks) \in Tasks
    BY <1>1, TailElements DEF FlushPop, Pop, PopFront, Inv, TypeOK
  <2>2. TypeOK'
    BY <1>1, <2>1 DEF FlushPop, Pop, Inv, TypeOK, FlushPCs
  <2>3. /\ Taken("flush") = {} /\ Taken("flush")' = held'["flush"]
        /\ Taken("thread")' = Taken("thread")
    BY <1>1 DEF FlushPop, Pop, Taken, Inv, TypeOK
  <2> QED
    BY <1>1, <2>2, <2>3, PopTakes DEF FlushPop
<1>2. CASE FlushQuery
  <2>1. executed' \in Seq(Tasks)
    BY <1>2, AppendElements DEF FlushQuery, Query, Inv, TypeOK
  <2>2. TypeOK'
    BY <1>2, <2>1 DEF FlushQuery, Query, Inv, TypeOK, FlushPCs
  <2>3. /\ Taken("flush") = held["flush"] /\ Taken("flush")' = {}
        /\ Taken("thread")' = Taken("thread")
    BY <1>2 DEF FlushQuery, Query, Taken
  <2> QED
    BY <1>2, <2>2, <2>3, QueryExecutes DEF FlushQuery
<1>3. CASE FlushPost
  <2>1. TypeOK'
    BY <1>3 DEF FlushPost, Post, Released, Inv, TypeOK, FlushPCs
  <2>2. Taken("thread")' = Taken("thread") /\ Taken("flush")' = Taken("flush")
    BY <1>3 DEF FlushPost, Post, Taken, Inv, TypeOK
  <2> QED
    BY <1>3, <2>1, <2>2, PostReleases DEF FlushPost
<1> QED
  BY <1>1, <1>2, <1>3

-----------------------------------------------------------------------------
(* The database queue: the theorems *)

\* The first state.
LEMMA Initially == Init => Inv
<1> SUFFICES ASSUME Init PROVE Inv
  OBVIOUS
<1>1. TypeOK
  <2>1. tasks \in Seq(Tasks) /\ accepted \in Seq(Tasks) /\ executed \in Seq(Tasks)
    BY DEF Init
  <2>2. held \in [Executors -> SUBSET Tasks] /\ held["thread"] = {} /\ held["flush"] = {}
    BY DEF Init, Executors
  <2> QED
    BY <2>1, <2>2 DEF Init, TypeOK, PCs, FlushPCs
<1>2. Taken("thread") = {} /\ Taken("flush") = {}
  BY DEF Init, Taken
<1>3. Len(tasks) = 0 /\ Len(accepted) = 0 /\ Len(executed) = 0 /\ Gone = 0
      /\ Elements(executed) = {} /\ DOMAIN accepted = {}
  BY DEF Init, Gone, Elements
<1>4. Singles /\ Suffix /\ Distinct
  BY <1>3 DEF Init, Singles, Suffix, Distinct
<1>5. Front
  <2>1. {accepted[i] : i \in 1 .. Gone} = {}
    BY <1>3
  <2> QED
    BY <1>2, <1>3, <2>1 DEF Front
<1>6. Count
  <2>1. (IF Taken("thread") = {} THEN 0 ELSE 1) = 0 /\ (IF Taken("flush") = {} THEN 0 ELSE 1) = 0
    BY <1>2
  <2> QED
    BY <1>3, <2>1 DEF Count
<1> QED
  BY <1>1, <1>4, <1>5, <1>6 DEF Inv

\* Inv holds in every state.
THEOREM Inductive == Spec => []Inv
<1>1. Inv /\ [Next]_vars => Inv'
  <2> SUFFICES ASSUME Inv, [Next]_vars PROVE Inv'
    OBVIOUS
  <2>1. CASE \/ Start \/ Stop \/ CloseDispatcher \/ Shutdown \/ Flush \/ SpuriousWakeup
             \/ \E c \in Callers : NotifyOne(c)
    BY <2>1, StepControl
  <2>2. CASE ThreadMain
    BY <2>2, StepControl, StepThread DEF ThreadMain
  <2>3. CASE FlushMain
    BY <2>3, StepControl, StepFlush DEF FlushMain
  <2>4. ASSUME NEW c \in Callers, NEW t \in Tasks, AddTask(c, t) PROVE Inv'
    BY <2>4, StepAddTask
  <2>5. CASE UNCHANGED vars
    <3>1. TypeOK'
      BY <2>5 DEF vars, Inv, TypeOK
    <3> QED
      BY <2>5, <3>1, NoTaskMoves DEF vars
  <2> QED
    BY <2>1, <2>2, <2>3, <2>4, <2>5 DEF Next
<1> QED
  BY Initially, <1>1, PTL DEF Spec

\* Every variable keeps its type, and an executor holds a task exactly while runTask runs.
THEOREM TypeCorrect == Spec => []TypeOK
  BY Inductive, PTL DEF Inv

\* Every accepted query is in one place and executed once, although the thread and flush() take
\* tasks from the same list.
THEOREM OnceHolds == Spec => []ExactlyOnce
<1>1. Inv => ExactlyOnce
  <2> SUFFICES ASSUME Inv PROVE ExactlyOnce
    OBVIOUS
  <2>1. /\ tasks \in Seq(Tasks) /\ accepted \in Seq(Tasks)
        /\ Len(tasks) \in Nat /\ Len(accepted) \in Nat /\ Len(tasks) <= Len(accepted)
        /\ DOMAIN tasks = 1 .. Len(tasks) /\ DOMAIN accepted = 1 .. Len(accepted)
    BY DEF Inv, TypeOK, Suffix
  <2>2. Gone \in Nat /\ Gone + Len(tasks) = Len(accepted)
    BY <2>1 DEF Gone
  <2>3. Elements(accepted) = {accepted[i] : i \in 1 .. Gone} \cup Elements(tasks)
    <3>1. ASSUME NEW i \in 1 .. Len(accepted)
          PROVE  i \in 1 .. Gone \/ \E j \in 1 .. Len(tasks) : accepted[i] = tasks[j]
      <4>1. CASE i > Gone
        <5>1. i - Gone \in 1 .. Len(tasks) /\ Gone + (i - Gone) = i
          BY <2>1, <2>2, <4>1
        <5> QED
          BY <5>1 DEF Inv, Suffix
      <4> QED
        BY <2>2, <4>1
    <3>2. ASSUME NEW j \in 1 .. Len(tasks)
          PROVE  tasks[j] \in Elements(accepted)
      <4>1. Gone + j \in 1 .. Len(accepted) /\ tasks[j] = accepted[Gone + j]
        BY <2>1, <2>2 DEF Inv, Suffix
      <4> QED
        BY <2>1, <4>1 DEF Elements
    <3>3. 1 .. Gone \subseteq 1 .. Len(accepted)
      BY <2>1, <2>2
    <3> QED
      BY <2>1, <3>1, <3>2, <3>3 DEF Elements
  <2> QED
    BY <2>3 DEF Inv, Front, Count, Gone, ExactlyOnce
<1> QED
  BY <1>1, Inductive, PTL

\* A query that is executed before an earlier one finds it in the hands of the other executor.
THEOREM OrderHolds == Spec => OvertakesOnlyTaken
<1> DEFINE Ordered ==
             \A u \in Elements(executed') \ Elements(executed) : \A t \in Elements(accepted) :
                Before(t, u) /\ t \notin Elements(executed) =>
                    t \in Taken("thread") \cup Taken("flush")
<1>1. Inv /\ [Next]_vars => [Ordered]_vars
  <2> SUFFICES ASSUME Inv, Next,
                      NEW u \in Elements(executed') \ Elements(executed), NEW t \in Elements(accepted),
                      Before(t, u), t \notin Elements(executed)
               PROVE  t \in Taken("thread") \cup Taken("flush")
    OBVIOUS
  <2>1. u \in Taken("thread") \cup Taken("flush")
    <3>1. ASSUME NEW x \in Executors, Query(x), Taken(x) = held[x] PROVE u \in Taken(x)
      <4>1. PICK r \in held[x] : executed' = Append(executed, r)
        BY <3>1 DEF Query
      <4>2. Elements(executed') = Elements(executed) \cup {r}
        BY <4>1, AppendElements DEF Inv, TypeOK
      <4> QED
        BY <3>1, <4>1, <4>2
    <3>2. CASE ThreadQuery
      BY <3>1, <3>2 DEF ThreadQuery, Taken, Executors
    <3>3. CASE FlushQuery
      BY <3>1, <3>3 DEF FlushQuery, Taken, Executors
    <3>4. executed' # executed
      OBVIOUS
    <3> QED
      BY <3>2, <3>3, <3>4
      DEF Next, ThreadMain, FlushMain, Start, Stop, CloseDispatcher, Shutdown, Flush, SpuriousWakeup,
          TestState, Wait, NothingToTake, TakeTask, ThreadPost, FlushPop, FlushPost, FlushEnd,
          ShutdownNotify, NotifyOne, AddTask, Pop, Post
  <2>2. PICK i, j \in DOMAIN accepted : i < j /\ accepted[i] = t /\ accepted[j] = u
    BY DEF Before
  <2>3. DOMAIN accepted = 1 .. Len(accepted) /\ Len(accepted) \in Nat /\ Len(tasks) \in Nat
    BY DEF Inv, TypeOK
  <2>4. PICK k \in 1 .. Gone : accepted[k] = u
    BY <2>1 DEF Inv, Front
  <2>5. k \in DOMAIN accepted /\ Gone \in Nat
    BY <2>3 DEF Inv, Suffix, Gone
  <2>6. j = k
    BY <2>2, <2>4, <2>5 DEF Inv, Distinct
  <2>7. i \in 1 .. Gone
    BY <2>2, <2>3, <2>5, <2>6
  <2> QED
    BY <2>2, <2>7 DEF Inv, Front
<1> QED
  BY <1>1, Inductive, PTL DEF Spec, OvertakesOnlyTaken

-----------------------------------------------------------------------------
(* The server: what each queue does in a step of it *)

SchedulerStep ==
    \/ UNCHANGED sVars
    \/ \E e \in Events, at \in Cycles : S!AddEvent(Disp, e, at)
    \/ \E e \in Events : S!StopEvent(e) \/ S!ExecuteEvent(e)
    \/ S!NotifyOne(Disp) \/ S!ReadEventId(Disp)
    \/ S!Stop \/ S!CloseDispatcher \/ S!ShutdownState \/ S!ShutdownClear \/ S!ShutdownNotify
    \/ S!TestState \/ S!Wait \/ S!Timeout \/ S!PopEvent \/ S!NoTimeout \/ S!HandOver
    \/ S!SpuriousWakeup \/ S!Tick

DatabaseStep ==
    \/ UNCHANGED bVars
    \/ \E c \in {Disp, Main} : B!NotifyOne(c) \/ \E q \in Queries : B!AddTask(c, q)
    \/ B!Flush \/ B!FlushPop \/ B!FlushQuery \/ B!FlushPost \/ B!FlushEnd
    \/ B!Stop \/ B!CloseDispatcher \/ B!Shutdown \/ B!ShutdownNotify
    \/ B!TestState \/ B!Wait \/ B!NothingToTake \/ B!TakeTask \/ B!ThreadQuery \/ B!ThreadPost
    \/ B!SpuriousWakeup

\* Only Game::shutdown, after the database queue was flushed, calls Dispatcher::shutdown.
DispatcherStep ==
    \/ UNCHANGED dVars
    \/ \E c \in {Disp, Sched, DbThread, Main} :
          D!NotifyOne(c) \/ \E t \in DispatcherTasks : D!AddTask(c, t)
    \/ D!Stop
    \/ D!Shutdown(Disp) /\ bFlushAt = "over"
    \/ D!TestState \/ D!Wait \/ D!NothingToTake \/ D!TakeTask \/ D!BeginTask \/ D!FinishTask
    \/ D!SpuriousWakeup

MainStep ==
    \/ mainAt' = mainAt
    \/ mainAt = "run" /\ mainAt' = "joinScheduler"
    \/ MainJoins

\* The scheduler handles its events only.
Scheduled == sList \subseteq Events /\ sTask \subseteq Events

\* The database queue loses nothing: what was accepted is in the list, taken or executed.
Stored ==
    /\ bTasks \in Seq(Queries) /\ bAccepted \in Seq(Queries) /\ bExecuted \in Seq(Queries)
    /\ bHeld \in [B!Executors -> SUBSET Queries]
    /\ \A x \in B!Executors : \A q, r \in bHeld[x] : q = r
    /\ B!Elements(bAccepted) =
         B!Elements(bTasks) \cup B!Taken("thread") \cup B!Taken("flush") \cup B!Elements(bExecuted)

\* The flush of the shutdown is the last one, and leaves an empty list that stays empty.
Flushed ==
    /\ bInShutdown => bState = "TERMINATED" /\ bFlushAt # "idle"
    /\ bFlushAt \in {"notifying", "over"} => bInShutdown /\ bTasks = <<>>

\* The dispatcher ends with the task of Dispatcher::shutdown only, and so after the flush.
LastAfterFlush ==
    /\ dList \in Seq(DispatcherTasks \cup {LastTask})
    /\ DOMAIN dFate = DispatcherTasks \cup {LastTask}
    /\ (\/ LastTask \in B!Elements(dList) \/ dTask = LastTask
        \/ dState = "TERMINATED" \/ dpc = "ended") => dFate[LastTask] # "new"
    /\ dFate[LastTask] # "new" => bFlushAt = "over"

\* main() has joined the threads that it is past.
Joined ==
    /\ mainAt \in {"joinDatabaseTasks", "joinDispatcher", "returned"} => spc = "ended"
    /\ mainAt \in {"joinDispatcher", "returned"} => bpc = "ended"
    /\ mainAt = "returned" => dpc = "ended"

\* The inductive invariant of the server.
ServerInv == Scheduled /\ Stored /\ Flushed /\ LastAfterFlush /\ Joined

-----------------------------------------------------------------------------
(* The server: the steps *)

\* A step of the server is one of the scheduler, the database queue and the dispatcher, or
\* leaves them alone.
LEMMA ServerSteps ==
    ASSUME Scheduled, Stored, ServerNext
    PROVE  SchedulerStep /\ DatabaseStep /\ DispatcherStep /\ MainStep
<1>1. CASE Play
  BY <1>1 DEF Play, SchedulerStep, DatabaseStep, DispatcherStep, MainStep, mainVars
<1>2. CASE NetworkInput
  BY <1>2 DEF NetworkInput, SchedulerStep, DatabaseStep, DispatcherStep, MainStep, mainVars,
              DispatcherTasks
<1>3. CASE SpuriousWakeups
  BY <1>3 DEF SpuriousWakeups, SchedulerStep, DatabaseStep, DispatcherStep, MainStep, mainVars
<1>4. CASE Tick
  BY <1>4 DEF Tick, SchedulerStep, DatabaseStep, DispatcherStep, MainStep, mainVars
<1>5. CASE DispatcherLoop
  BY <1>5 DEF DispatcherLoop, SchedulerStep, DatabaseStep, DispatcherStep, MainStep, mainVars
<1>6. CASE ContinueCall
  <2>1. CASE \E q \in bHeld["flush"] : D!AddTask(Disp, q)
    BY <1>6, <2>1 DEF ContinueCall, SchedulerStep, DatabaseStep, DispatcherStep, MainStep, mainVars,
                DispatcherTasks, Stored, B!Executors
  <2>2. CASE ~\E q \in bHeld["flush"] : D!AddTask(Disp, q)
    BY <1>6, <2>2 DEF ContinueCall, SchedulerStep, DatabaseStep, DispatcherStep, MainStep, mainVars
  <2> QED
    BY <2>1, <2>2
<1>7. CASE ShutdownSteps
  BY <1>7 DEF ShutdownSteps, PostGameShutdown, StopScheduler, StopDatabaseTasks, StopDispatcher,
              ShutdownScheduler, ShutdownDatabaseTasks, ShutdownDispatcher, StopServices,
              SchedulerStep, DatabaseStep, DispatcherStep, MainStep, mainVars, DispatcherTasks
<1>8. CASE SchedulerThread
  BY <1>8 DEF SchedulerThread, SchedulerStep, DatabaseStep, DispatcherStep, MainStep, mainVars,
              DispatcherTasks, Scheduled
<1>9. CASE DatabaseThread
  BY <1>9 DEF DatabaseThread, SchedulerStep, DatabaseStep, DispatcherStep, MainStep, mainVars,
              DispatcherTasks, Stored, B!Executors
<1>10. CASE MainThread
  BY <1>10 DEF MainThread, NetworkNotify, MainLeavesRun, SchedulerStep, DatabaseStep, DispatcherStep,
               MainStep, mainVars
<1> QED
  BY <1>1, <1>2, <1>3, <1>4, <1>5, <1>6, <1>7, <1>8, <1>9, <1>10 DEF ServerNext

\* The scheduler hands over what was added to it, and its thread ends once.
LEMMA SchedulerKeeps ==
    ASSUME Scheduled, SchedulerStep
    PROVE  Scheduled' /\ (spc = "ended" => spc' = "ended")
<1>1. CASE UNCHANGED sVars
  BY <1>1 DEF sVars, Scheduled
<1>2. ASSUME NEW e \in Events, NEW at \in Cycles, S!AddEvent(Disp, e, at)
      PROVE  Scheduled' /\ spc' = spc
  BY <1>2 DEF S!AddEvent, S!listVars, S!threadVars, Scheduled
<1>3. CASE \/ \E e \in Events : S!StopEvent(e) \/ S!ExecuteEvent(e)
           \/ S!ReadEventId(Disp) \/ S!Stop \/ S!CloseDispatcher \/ S!ShutdownState \/ S!Tick
  BY <1>3 DEF S!StopEvent, S!ExecuteEvent, S!ReadEventId, S!Stop, S!CloseDispatcher, S!ShutdownState,
              S!Tick, S!listVars, S!threadVars, Scheduled
<1>4. CASE S!NotifyOne(Disp) \/ S!ShutdownNotify \/ S!ShutdownClear
  BY <1>4 DEF S!NotifyOne, S!ShutdownNotify, S!ShutdownClear, S!WakeWaiting, S!listVars, S!threadVars,
              Scheduled
<1>5. CASE S!TestState \/ S!Wait \/ S!Timeout \/ S!NoTimeout \/ S!SpuriousWakeup
  BY <1>5 DEF S!TestState, S!Wait, S!Timeout, S!NoTimeout, S!SpuriousWakeup, S!listVars, Scheduled
<1>6. CASE S!PopEvent
  BY <1>6 DEF S!PopEvent, S!Earliest, Scheduled
<1>7. CASE S!HandOver
  BY <1>7 DEF S!HandOver, S!listVars, Scheduled
<1> QED
  BY <1>1, <1>2, <1>3, <1>4, <1>5, <1>6, <1>7 DEF SchedulerStep

\* The elements of a list that gets a new end, ...
LEMMA ListAppends ==
    ASSUME NEW T, NEW s \in Seq(T), NEW x \in T
    PROVE  Append(s, x) \in Seq(T) /\ B!Elements(Append(s, x)) = B!Elements(s) \cup {x}
<1>1. /\ Append(s, x) \in Seq(T) /\ Len(Append(s, x)) = Len(s) + 1 /\ Len(s) \in Nat
      /\ DOMAIN s = 1 .. Len(s) /\ DOMAIN Append(s, x) = 1 .. (Len(s) + 1)
      /\ \A i \in 1 .. Len(s) : Append(s, x)[i] = s[i]
      /\ Append(s, x)[Len(s) + 1] = x
  OBVIOUS
<1>2. B!Elements(Append(s, x)) = B!Elements(s) \cup {x}
  BY <1>1 DEF B!Elements
<1> QED
  BY <1>1, <1>2

\* ... a new front, ...
LEMMA ListPushes ==
    ASSUME NEW T, NEW s \in Seq(T), NEW x \in T
    PROVE  <<x>> \o s \in Seq(T) /\ B!Elements(<<x>> \o s) = B!Elements(s) \cup {x}
<1>1. Len(s) \in Nat /\ DOMAIN s = 1 .. Len(s)
  OBVIOUS
<1>3. /\ <<x>> \o s \in Seq(T) /\ DOMAIN (<<x>> \o s) = 1 .. (Len(s) + 1)
      /\ (<<x>> \o s)[1] = x
      /\ \A i \in 1 .. Len(s) : (<<x>> \o s)[i + 1] = s[i]
  OBVIOUS
<1> DEFINE t == <<x>> \o s
<1> HIDE DEF t
<1>4. B!Elements(t) = B!Elements(s) \cup {x}
  <2>1. ASSUME NEW i \in DOMAIN t PROVE t[i] \in B!Elements(s) \cup {x}
    <3>1. i = 1 \/ (i - 1 \in 1 .. Len(s) /\ (i - 1) + 1 = i)
      BY <1>1, <1>3 DEF t
    <3>2. CASE i - 1 \in 1 .. Len(s) /\ (i - 1) + 1 = i
      <4>1. t[i] = s[i - 1] /\ i - 1 \in DOMAIN s
        BY <1>1, <1>3, <3>2 DEF t
      <4> QED
        BY <4>1 DEF B!Elements
    <3> QED
      BY <1>3, <3>1, <3>2 DEF t
  <2>2. ASSUME NEW i \in DOMAIN s PROVE s[i] \in B!Elements(t)
    <3>1. t[i + 1] = s[i] /\ i + 1 \in DOMAIN t
      BY <1>1, <1>3 DEF t
    <3> QED
      BY <3>1 DEF B!Elements
  <2>3. x \in B!Elements(t)
    <3>1. t[1] = x /\ 1 \in DOMAIN t
      BY <1>1, <1>3 DEF t
    <3> QED
      BY <3>1 DEF B!Elements
  <2> QED
    BY <2>1, <2>2, <2>3 DEF B!Elements
<1> QED
  BY <1>3, <1>4 DEF t

\* ... or loses its front.
LEMMA ListShrinks ==
    ASSUME NEW T, NEW s \in Seq(T), s # <<>>
    PROVE  /\ Tail(s) \in Seq(T) /\ Head(s) \in T
           /\ B!Elements(s) = {Head(s)} \cup B!Elements(Tail(s))
<1>1. /\ Tail(s) \in Seq(T) /\ Len(Tail(s)) = Len(s) - 1 /\ Len(s) \in Nat \ {0}
      /\ DOMAIN s = 1 .. Len(s) /\ Head(s) = s[1] /\ Head(s) \in T
      /\ \A i \in 1 .. Len(s) - 1 : Tail(s)[i] = s[i + 1]
  OBVIOUS
<1>2. DOMAIN Tail(s) = 1 .. (Len(s) - 1)
  BY <1>1
<1> DEFINE t == Tail(s)
<1> HIDE DEF t
<1>3. ASSUME NEW i \in DOMAIN s PROVE s[i] \in {Head(s)} \cup B!Elements(t)
  <2>1. i = 1 \/ (i - 1 \in 1 .. (Len(s) - 1) /\ (i - 1) + 1 = i)
    BY <1>1
  <2>2. CASE i - 1 \in 1 .. (Len(s) - 1) /\ (i - 1) + 1 = i
    <3>1. t[i - 1] = s[i] /\ i - 1 \in DOMAIN t
      BY <1>1, <1>2, <2>2 DEF t
    <3> QED
      BY <3>1 DEF B!Elements
  <2> QED
    BY <1>1, <2>1, <2>2
<1>4. ASSUME NEW i \in DOMAIN t PROVE t[i] \in B!Elements(s)
  <2>1. t[i] = s[i + 1] /\ i + 1 \in DOMAIN s
    BY <1>1, <1>2 DEF t
  <2> QED
    BY <2>1 DEF B!Elements
<1>5. Head(s) \in B!Elements(s)
  <2>1. 1 \in DOMAIN s
    BY <1>1
  <2> QED
    BY <1>1, <2>1 DEF B!Elements
<1>6. B!Elements(s) = {Head(s)} \cup B!Elements(t)
  BY <1>3, <1>4, <1>5 DEF B!Elements
<1> QED
  BY <1>1, <1>6 DEF t

\* The executors move queries from the list to what is executed and lose none.
LEMMA DatabaseStores ==
    ASSUME Stored, DatabaseStep
    PROVE  Stored'
<1> DEFINE Takes == B!Taken("thread") \cup B!Taken("flush")
<1>0. /\ bTasks \in Seq(Queries) /\ bAccepted \in Seq(Queries) /\ bExecuted \in Seq(Queries)
      /\ bHeld \in [B!Executors -> SUBSET Queries]
      /\ \A x \in B!Executors : \A q, r \in bHeld[x] : q = r
      /\ B!Elements(bAccepted) = B!Elements(bTasks) \cup Takes \cup B!Elements(bExecuted)
  BY DEF Stored
<1>1. ASSUME bTasks' \in Seq(Queries), bAccepted' \in Seq(Queries), bExecuted' \in Seq(Queries),
             bHeld' \in [B!Executors -> SUBSET Queries],
             \A x \in B!Executors : \A q, r \in bHeld'[x] : q = r,
             B!Elements(bAccepted') = B!Elements(bTasks') \cup Takes' \cup B!Elements(bExecuted')
      PROVE  Stored'
  <2>1. /\ B!Elements(bAccepted)' = B!Elements(bAccepted')
        /\ B!Elements(bTasks)' = B!Elements(bTasks')
        /\ B!Elements(bExecuted)' = B!Elements(bExecuted')
    BY DEF B!Elements
  <2> QED
    BY <1>1, <2>1 DEF Stored
<1>2. ASSUME UNCHANGED <<bTasks, bAccepted, bExecuted, bHeld>>, Takes' = Takes
      PROVE  Stored'
  BY <1>0, <1>1, <1>2
<1>3. ASSUME NEW c, NEW q \in Queries, B!AddTask(c, q) PROVE Stored'
  <2>1. /\ bTasks' = Append(bTasks, q) /\ bAccepted' = Append(bAccepted, q)
        /\ UNCHANGED <<bExecuted, bHeld>> /\ Takes' = Takes
    BY <1>3 DEF B!AddTask, B!PushBack, B!Taken
  <2>2. bTasks' \in Seq(Queries) /\ B!Elements(bTasks') = B!Elements(bTasks) \cup {q}
    BY <1>0, <2>1, ListAppends
  <2>3. bAccepted' \in Seq(Queries) /\ B!Elements(bAccepted') = B!Elements(bAccepted) \cup {q}
    BY <1>0, <2>1, ListAppends
  <2> HIDE DEF Takes
  <2> QED
    BY <1>0, <1>1, <2>1, <2>2, <2>3
<1>4. ASSUME NEW x \in B!Executors, B!Pop(x), B!Taken(x) = {}, B!Taken(x)' = bHeld'[x],
             \A y \in B!Executors \ {x} : B!Taken(y)' = B!Taken(y)
      PROVE  Stored'
  <2>1. /\ bTasks # <<>> /\ bTasks' = Tail(bTasks) /\ bHeld' = [bHeld EXCEPT ![x] = {Head(bTasks)}]
        /\ UNCHANGED <<bAccepted, bExecuted>>
    BY <1>4 DEF B!Pop, B!PopFront
  <2>2. /\ bTasks' \in Seq(Queries) /\ Head(bTasks) \in Queries
        /\ B!Elements(bTasks) = {Head(bTasks)} \cup B!Elements(bTasks')
    BY <1>0, <2>1, ListShrinks
  <2>3. /\ bHeld' \in [B!Executors -> SUBSET Queries]
        /\ \A y \in B!Executors : \A q, r \in bHeld'[y] : q = r
        /\ bHeld'[x] = {Head(bTasks)}
    BY <1>0, <2>1, <2>2
  <2>4. Takes' = {Head(bTasks)} \cup Takes
    BY <1>4, <2>3 DEF B!Executors
  <2> HIDE DEF Takes
  <2> QED
    BY <1>0, <1>1, <2>1, <2>2, <2>3, <2>4
<1>5. ASSUME NEW x \in B!Executors, B!Query(x), B!Taken(x) = bHeld[x], B!Taken(x)' = {},
             \A y \in B!Executors \ {x} : B!Taken(y)' = B!Taken(y)
      PROVE  Stored'
  <2>1. PICK q \in bHeld[x] : bExecuted' = Append(bExecuted, q)
    BY <1>5 DEF B!Query
  <2>2. q \in Queries /\ B!Taken(x) = {q} /\ UNCHANGED <<bTasks, bAccepted, bHeld>>
    BY <1>0, <1>5, <2>1 DEF B!Query
  <2>3. bExecuted' \in Seq(Queries) /\ B!Elements(bExecuted') = B!Elements(bExecuted) \cup {q}
    BY <1>0, <2>1, <2>2, ListAppends
  <2>4. Takes = {q} \cup Takes'
    BY <1>5, <2>2 DEF B!Executors
  <2> HIDE DEF Takes
  <2> QED
    BY <1>0, <1>1, <2>2, <2>3, <2>4
<1>15. ASSUME NEW x \in B!Executors, B!Post(x), Takes' = Takes
      PROVE  Stored'
  <2>1. bHeld' = [bHeld EXCEPT ![x] = {}] /\ UNCHANGED <<bTasks, bAccepted, bExecuted>>
    BY <1>15 DEF B!Post, B!Released
  <2> HIDE DEF Takes
  <2> QED
    BY <1>0, <1>1, <1>15, <2>1
<1> USE DEF B!Executors
<1>6. CASE UNCHANGED bVars
  BY <1>2, <1>6 DEF bVars, B!Taken
<1>7. ASSUME NEW c \in {Disp, Main}, B!NotifyOne(c) PROVE Stored'
  BY <1>2, <1>7 DEF B!NotifyOne, B!WakeWaiting, B!Taken
<1>8. CASE B!Flush \/ B!FlushEnd \/ B!Stop \/ B!CloseDispatcher \/ B!Shutdown \/ B!ShutdownNotify
  BY <1>2, <1>8 DEF B!Flush, B!FlushEnd, B!Stop, B!CloseDispatcher, B!Shutdown, B!ShutdownNotify,
                    B!WakeWaiting, B!Taken
<1>9. CASE B!TestState \/ B!Wait \/ B!NothingToTake \/ B!SpuriousWakeup
  BY <1>2, <1>9 DEF B!TestState, B!Wait, B!NothingToTake, B!SpuriousWakeup, B!Taken
<1>10. CASE B!TakeTask
  <2>1. /\ B!Taken("thread") = {} /\ B!Taken("thread")' = bHeld'["thread"]
        /\ B!Taken("flush")' = B!Taken("flush")
    BY <1>0, <1>10 DEF B!TakeTask, B!Taken, B!Pop
  <2> QED
    BY <1>4, <1>10, <2>1 DEF B!TakeTask
<1>11. CASE B!ThreadQuery
  BY <1>5, <1>11 DEF B!ThreadQuery, B!Taken, B!Query
<1>12. CASE B!ThreadPost
  <2>1. Takes' = Takes
    BY <1>12 DEF B!ThreadPost, B!Taken, B!Post
  <2> QED
    BY <1>12, <1>15, <2>1 DEF B!ThreadPost
<1>13. CASE B!FlushPop
  <2>1. /\ B!Taken("flush") = {} /\ B!Taken("flush")' = bHeld'["flush"]
        /\ B!Taken("thread")' = B!Taken("thread")
    BY <1>0, <1>13 DEF B!FlushPop, B!Taken, B!Pop
  <2> QED
    BY <1>4, <1>13, <2>1 DEF B!FlushPop
<1>14. CASE B!FlushQuery
  BY <1>5, <1>14 DEF B!FlushQuery, B!Taken, B!Query
<1>16. CASE B!FlushPost
  <2>1. Takes' = Takes
    BY <1>16, <1>0 DEF B!FlushPost, B!Taken, B!Post
  <2> QED
    BY <1>16, <1>15, <2>1 DEF B!FlushPost
<1> QED
  BY <1>3, <1>6, <1>7, <1>8, <1>9, <1>10, <1>11, <1>12, <1>13, <1>14, <1>16 DEF DatabaseStep

\* No query is accepted and no flush begins once shutdown() was called.
LEMMA DatabaseFlushes ==
    ASSUME Flushed, DatabaseStep
    PROVE  /\ Flushed'
           /\ bFlushAt = "over" => bFlushAt' = "over"
           /\ bpc = "ended" => bpc' = "ended"
<1> USE DEF Flushed
<1>1. CASE UNCHANGED bVars
  BY <1>1 DEF bVars
<1>2. ASSUME NEW c \in {Disp, Main}, B!NotifyOne(c) \/ \E q \in Queries : B!AddTask(c, q)
      PROVE  /\ Flushed' /\ bFlushAt' = bFlushAt
             /\ bpc = "ended" => bpc' = "ended"
  BY <1>2 DEF B!NotifyOne, B!AddTask, B!Accepting, B!WakeWaiting
<1>3. CASE B!Flush \/ B!FlushPop \/ B!FlushQuery \/ B!FlushPost \/ B!FlushEnd
  BY <1>3 DEF B!Flush, B!FlushPop, B!FlushQuery, B!FlushPost, B!FlushEnd, B!FlushDone, B!Pop, B!Query,
              B!Post
<1>4. CASE B!Stop \/ B!CloseDispatcher \/ B!Shutdown \/ B!ShutdownNotify
  BY <1>4 DEF B!Stop, B!CloseDispatcher, B!Shutdown, B!ShutdownNotify, B!WakeWaiting
<1>5. CASE B!TestState \/ B!Wait \/ B!NothingToTake \/ B!SpuriousWakeup
  BY <1>5 DEF B!TestState, B!Wait, B!NothingToTake, B!SpuriousWakeup
<1>6. CASE B!TakeTask \/ B!ThreadQuery \/ B!ThreadPost
  BY <1>6 DEF B!TakeTask, B!ThreadQuery, B!ThreadPost, B!Pop, B!Query, B!Post
<1> QED
  BY <1>1, <1>2, <1>3, <1>4, <1>5, <1>6 DEF DatabaseStep

\* The dispatcher's last task is posted once, behind the flush, and only it ends the loop.
LEMMA DispatcherEnds ==
    ASSUME LastAfterFlush, DispatcherStep, bFlushAt = "over" => bFlushAt' = "over"
    PROVE  LastAfterFlush' /\ (dpc = "ended" => dpc' = "ended")
<1> DEFINE Ending == \/ LastTask \in B!Elements(dList) \/ dTask = LastTask
                     \/ dState = "TERMINATED" \/ dpc = "ended"
           All == DispatcherTasks \cup {LastTask}
<1>0. /\ dList \in Seq(All) /\ DOMAIN dFate = All /\ (Ending => dFate[LastTask] # "new")
      /\ dFate[LastTask] # "new" => bFlushAt = "over"
  BY DEF LastAfterFlush
<1>1. ASSUME dList' \in Seq(All), DOMAIN dFate' = All, Ending' => dFate'[LastTask] # "new",
             dFate'[LastTask] # "new" => dFate[LastTask] # "new" \/ bFlushAt = "over",
             dpc = "ended" => dpc' = "ended"
      PROVE  LastAfterFlush' /\ (dpc = "ended" => dpc' = "ended")
  BY <1>0, <1>1 DEF LastAfterFlush
<1> HIDE DEF All
<1>2. CASE UNCHANGED dVars
  BY <1>0, <1>1, <1>2 DEF dVars, B!Elements
<1>3. ASSUME NEW c, NEW t \in DispatcherTasks, D!AddTask(c, t)
      PROVE  LastAfterFlush' /\ (dpc = "ended" => dpc' = "ended")
  <2>1. t # LastTask /\ t \in All /\ LastTask \in All
    BY ServerAssumption DEF All
  <2>2. /\ dFate' = [dFate EXCEPT ![t] = dFate'[t]] /\ UNCHANGED <<dState, dpc, dTask>>
        /\ dList' = dList \/ dList' = <<t>> \o dList \/ dList' = Append(dList, t)
    BY <1>0, <1>3, <2>1 DEF D!AddTask, D!Pushed
  <2>3. dList' \in Seq(All) /\ (LastTask \in B!Elements(dList)' => LastTask \in B!Elements(dList))
    <3>1. CASE dList' = dList
      BY <1>0, <3>1 DEF B!Elements
    <3>2. CASE dList' = <<t>> \o dList \/ dList' = Append(dList, t)
      <4>1. B!Elements(dList') = B!Elements(dList) \cup {t} /\ dList' \in Seq(All)
        <5>1. CASE dList' = Append(dList, t)
          BY <1>0, <2>1, <5>1, ListAppends
        <5>2. CASE dList' = <<t>> \o dList
          BY <1>0, <2>1, <5>2, ListPushes
        <5> QED
          BY <3>2, <5>1, <5>2
      <4>2. B!Elements(dList)' = B!Elements(dList')
        BY DEF B!Elements
      <4> QED
        BY <2>1, <4>1, <4>2
    <3> QED
      BY <2>2, <3>1, <3>2
  <2>4. dFate'[LastTask] = dFate[LastTask] /\ DOMAIN dFate' = All
    BY <1>0, <2>1, <2>2
  <2> QED
    BY <1>0, <1>1, <2>2, <2>3, <2>4
<1>4. ASSUME NEW c, D!NotifyOne(c) PROVE LastAfterFlush' /\ (dpc = "ended" => dpc' = "ended")
  BY <1>0, <1>1, <1>4 DEF D!NotifyOne, D!WakeWaiting, B!Elements
<1>5. CASE D!Stop
  BY <1>0, <1>1, <1>5 DEF D!Stop, B!Elements
<1>6. CASE D!Shutdown(Disp) /\ bFlushAt = "over"
  <2>1. /\ dList' = Append(dList, LastTask) /\ dFate' = [dFate EXCEPT ![LastTask] = "queued"]
        /\ LastTask \in All /\ (dpc = "ended" => dpc' = "ended")
    BY <1>6 DEF D!Shutdown, D!WithLastTask, D!WakeWaiting, All
  <2>2. dList' \in Seq(All)
    BY <1>0, <2>1, ListAppends
  <2>3. dFate'[LastTask] # "new" /\ DOMAIN dFate' = All
    BY <1>0, <2>1
  <2> QED
    BY <1>1, <1>6, <2>1, <2>2, <2>3
<1>7. CASE D!TestState \/ D!Wait \/ D!NothingToTake \/ D!SpuriousWakeup
  BY <1>0, <1>1, <1>7 DEF D!TestState, D!Wait, D!NothingToTake, D!SpuriousWakeup, B!Elements
<1>8. CASE D!TakeTask
  <2>1. /\ dList # <<>> /\ dTask' = Head(dList) /\ dList' = Tail(dList) /\ dpc # "ended"
        /\ dFate' = [dFate EXCEPT ![Head(dList)] = "taken"] /\ dState' = dState /\ dpc' = "taken"
    BY <1>8 DEF D!TakeTask, D!PopFront
  <2>2. /\ dList' \in Seq(All) /\ Head(dList) \in All
        /\ B!Elements(dList) = {Head(dList)} \cup B!Elements(dList')
    BY <1>0, <2>1, ListShrinks
  <2>3. B!Elements(dList)' = B!Elements(dList')
    BY DEF B!Elements
  <2>4. Ending' => Ending
    BY <2>1, <2>2, <2>3
  <2>5. /\ DOMAIN dFate' = All
        /\ dFate'[LastTask] = dFate[LastTask] \/ (Head(dList) = LastTask /\ dFate'[LastTask] = "taken")
    BY <1>0, <2>1, <2>2 DEF All
  <2>6. Head(dList) = LastTask => dFate[LastTask] # "new"
    BY <1>0, <2>2
  <2> QED
    BY <1>0, <1>1, <2>1, <2>2, <2>4, <2>5, <2>6
<1>9. CASE D!BeginTask \/ D!FinishTask
  <2>1. /\ dFate' = [dFate EXCEPT ![dTask] = dFate'[dTask]] /\ dList' = dList
        /\ dTask' = dTask \/ dTask' = NoTask
        /\ dState' = dState \/ dTask = LastTask
        /\ dpc # "ended" /\ dpc' # "ended"
        /\ dTask = LastTask /\ dFate[LastTask] # "new" => dFate'[LastTask] # "new"
        /\ LastTask \in All
    BY <1>0, <1>9 DEF D!BeginTask, D!FinishTask, D!AfterDelete, All
  <2>2. NoTask # LastTask
    BY ServerAssumption
  <2>3. DOMAIN dFate' = All /\ (dTask # LastTask => dFate'[LastTask] = dFate[LastTask])
    BY <1>0, <2>1
  <2>4. Ending' => Ending
    BY <2>1, <2>2 DEF B!Elements
  <2>5. dTask = LastTask => dFate[LastTask] # "new"
    BY <1>0
  <2> QED
    BY <1>0, <1>1, <2>1, <2>3, <2>4, <2>5
<1> QED
  BY <1>2, <1>3, <1>4, <1>5, <1>6, <1>7, <1>8, <1>9 DEF DispatcherStep

-----------------------------------------------------------------------------
(* The server: the theorem *)

\* The first state.
LEMMA ServerStarts == ServerInit => ServerInv
<1> SUFFICES ASSUME ServerInit PROVE ServerInv
  OBVIOUS
<1>1. bTasks \in Seq(Queries) /\ bAccepted \in Seq(Queries) /\ bExecuted \in Seq(Queries)
      /\ dList \in Seq(DispatcherTasks \cup {LastTask})
  BY DEF ServerInit
<1>2. /\ B!Elements(bTasks) = {} /\ B!Elements(bAccepted) = {} /\ B!Elements(bExecuted) = {}
      /\ B!Elements(dList) = {}
  BY DEF ServerInit, B!Elements
<1>3. B!Taken("thread") = {} /\ B!Taken("flush") = {}
  BY DEF ServerInit, B!Taken
<1>4. Stored
  BY <1>1, <1>2, <1>3 DEF ServerInit, Stored, B!Executors
<1>5. LastAfterFlush
  BY <1>1, <1>2, ServerAssumption DEF ServerInit, LastAfterFlush
<1> QED
  BY <1>4, <1>5 DEF ServerInit, ServerInv, Scheduled, Flushed, Joined

\* ServerInv holds in every state.
THEOREM ServerInvHolds == ServerSpec => []ServerInv
<1>1. ServerInv /\ [ServerNext]_serverVars => ServerInv'
  <2> SUFFICES ASSUME ServerInv, [ServerNext]_serverVars PROVE ServerInv'
    OBVIOUS
  <2>1. SchedulerStep /\ DatabaseStep /\ DispatcherStep /\ MainStep
    <3>1. CASE ServerNext
      BY <3>1, ServerSteps DEF ServerInv
    <3>2. CASE UNCHANGED serverVars
      BY <3>2 DEF serverVars, mainVars, SchedulerStep, DatabaseStep, DispatcherStep, MainStep
    <3> QED
      BY <3>1, <3>2
  <2>2. Scheduled' /\ (spc = "ended" => spc' = "ended")
    BY <2>1, SchedulerKeeps DEF ServerInv
  <2>3. Stored' /\ Flushed' /\ (bpc = "ended" => bpc' = "ended")
        /\ (bFlushAt = "over" => bFlushAt' = "over")
    BY <2>1, DatabaseStores, DatabaseFlushes DEF ServerInv
  <2>4. LastAfterFlush' /\ (dpc = "ended" => dpc' = "ended")
    BY <2>1, <2>3, DispatcherEnds DEF ServerInv
  <2>5. Joined'
    BY <2>1, <2>2, <2>3, <2>4 DEF ServerInv, Joined, MainStep, MainJoins
  <2> QED
    BY <2>2, <2>3, <2>4, <2>5 DEF ServerInv
<1> QED
  BY ServerStarts, <1>1, PTL DEF ServerSpec

\* When the process exits every thread has ended and every accepted query was executed.
THEOREM NothingLostHolds == ServerSpec => []NothingLostAtExit
<1>1. ServerInv => NothingLostAtExit
  <2> SUFFICES ASSUME ServerInv, mainAt = "returned" PROVE NothingLostAtExit
    BY DEF NothingLostAtExit
  <2>1. dpc = "ended" /\ spc = "ended" /\ bpc = "ended"
    BY DEF ServerInv, Joined
  <2>2. bFlushAt = "over" /\ bTasks = <<>>
    BY <2>1 DEF ServerInv, LastAfterFlush, Flushed
  <2>3. B!Taken("thread") = {} /\ B!Taken("flush") = {} /\ B!Elements(bTasks) = {}
    BY <2>1, <2>2 DEF B!Taken, B!Elements
  <2> QED
    BY <2>1, <2>3 DEF NothingLostAtExit, ServerInv, Stored
<1> QED
  BY <1>1, ServerInvHolds, PTL

=============================================================================
