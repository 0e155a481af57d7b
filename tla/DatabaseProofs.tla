--------------------------- MODULE DatabaseProofs ---------------------------
(***************************************************************************)
(* The invariants of the database connection, for every number of saves,   *)
(* lost connections and refused statements.                                *)
(*                                                                         *)
(* First, what the procedures look like: where each begins and ends its    *)
(* transaction and which statement writes which table (Fits).  Then Inv,   *)
(* which says who holds the lock at which statement, and with it the types *)
(* and UncommittedIsLocked.  Last, Rest, which says what a transaction     *)
(* that went well so far has made of its tables, and with it               *)
(* StoredIsWhole.                                                          *)
(***************************************************************************)
EXTENDS Database, TLAPS

-----------------------------------------------------------------------------
(* The procedures *)

Ops == {"select", "update", "delete", "insert", "begin", "lock", "commit"}

\* Where the transaction of the procedure u begins and ends.
BeginAt(u) == IF u = "savePlayer" THEN 3 ELSE IF u \in {"coinTransfer", "updateOnlineStatus"} THEN 2 ELSE 1
LockAt(u) == BeginAt(u) + 1
CommitAt(u) == IF u = "savePlayer" THEN 10 ELSE IF u = "saveHouseItems" THEN 5 ELSE 6

\* What it writes.
TxTables(u) ==
    IF u \in Rewriting THEN Written[u] ELSE IF u = "coinTransfer" THEN {"paid", "received"} ELSE {}

\* Where the table t gets its new rows, and where it is emptied before (0: nowhere).
PutAt(t) ==
    IF t = "player_inboxitems" THEN 9
    ELSE IF t = "player_items" THEN 7
    ELSE IF t \in {"players", "house_lists", "received"} THEN 5 ELSE 4
DelAt(t) ==
    IF t = "player_inboxitems" THEN 8
    ELSE IF t = "player_items" THEN 6
    ELSE IF t \in {"house_lists", "tile_store"} THEN 3 ELSE 0

\* How a procedure is laid out.
Shape(u) ==
    /\ Len(Program[u]) \in Nat \ {0}
    /\ BeginAt(u) <= Len(Program[u]) => CommitAt(u) <= Len(Program[u])
    /\ u \in Rewriting => CommitAt(u) = Len(Program[u])

\* s fits as the statement at position i of u: what it writes, by its place in the transaction.
Fits(u, i, s) ==
    LET inside == LockAt(u) < i /\ i < CommitAt(u)
    IN  /\ s.op \in Ops /\ s.checked \in BOOLEAN
        /\ s.op = "begin" <=> i = BeginAt(u)
        /\ s.op = "lock" <=> i = LockAt(u)
        /\ s.op = "commit" <=> i = CommitAt(u)
        /\ s.op \in {"select", "begin", "lock", "commit"} => s.table = "none"
        /\ s.checked => i <= CommitAt(u)
        /\ s.op = "begin" => s.checked
        /\ u \in Rewriting /\ CommitAt(u) \in {i, i + 1} => s.checked
        /\ ~inside /\ s.op \in {"update", "delete", "insert"} =>
               s.table \in {"players_online", "player_preytimes", "store_history"}
        /\ inside => /\ s.table \in TxTables(u)
                     /\ s.op = "update" \/ s.op = "insert" => i = PutAt(s.table)
                     /\ s.op = "delete" => i = DelAt(s.table) /\ i < PutAt(s.table)
                     /\ s.op = "insert" /\ u # "coinTransfer" => DelAt(s.table) > 0
                     /\ s.op = "update" => DelAt(s.table) = 0
                     /\ u = "coinTransfer" => s.op = "insert"
                     /\ s.op \in {"update", "insert", "delete"}
                     /\ \A t \in TxTables(u) : i = PutAt(t) \/ i = DelAt(t) => t = s.table

\* Every procedure has a statement, and a transaction that it begins it also ends; those that
\* rewrite tables end with it.
LEMMA Shapes == \A u \in Units : Shape(u)
<1>1. Shape("savePlayer")
  BY DEF Shape, Program, SavePlayer, BeginAt, CommitAt, Rewriting
<1>2. Shape("coinTransfer")
  BY DEF Shape, Program, CoinTransfer, BeginAt, CommitAt, Rewriting
<1>3. Shape("updateOnlineStatus")
  BY DEF Shape, Program, BeginAt, CommitAt, Rewriting
<1>4. Shape("saveHouseInfo")
  BY DEF Shape, Program, SaveHouseInfo, BeginAt, CommitAt, Rewriting
<1>5. Shape("saveHouseItems")
  BY DEF Shape, Program, SaveHouseItems, BeginAt, CommitAt, Rewriting
<1> QED
  BY <1>1, <1>2, <1>3, <1>4, <1>5 DEF Units, Program

\* Statement by statement: nothing but the tables of the transaction is written in it, each once,
\* and emptied before rows are inserted.
LEMMA StatementFits ==
    \A u \in Units : \A i \in 1..Len(Program[u]) : Fits(u, i, Program[u][i])
<1> USE DEF Ops, BeginAt, LockAt, CommitAt, PutAt, DelAt, TxTables, Written, Rewriting,
        Checked, Ignored
<1>1. \A i \in 1..Len(Program["savePlayer"]) : Fits("savePlayer", i, Program["savePlayer"][i])
  <2> DEFINE p == Program["savePlayer"]
  <2>1. Len(p) = 10 /\ 1..10 = {1, 2, 3, 4, 5, 6, 7, 8, 9, 10}
    BY DEF Program, SavePlayer
  <2>2. /\ p[1] = Ignored("update", "player_preytimes")
        /\ p[2] = Checked("select", "none")
        /\ p[3] = Begin
        /\ p[4] = Lock
        /\ p[5] = Checked("update", "players")
        /\ p[6] = Checked("delete", "player_items")
        /\ p[7] = Checked("insert", "player_items")
        /\ p[8] = Checked("delete", "player_inboxitems")
        /\ p[9] = Checked("insert", "player_inboxitems")
        /\ p[10] = Commit
    BY DEF Program, SavePlayer, SavePlayerPrey, UpdatePlayer, SaveItems
  <2>3. /\ Fits("savePlayer", 1, Ignored("update", "player_preytimes"))
        /\ Fits("savePlayer", 2, Checked("select", "none"))
        /\ Fits("savePlayer", 3, Begin)
        /\ Fits("savePlayer", 4, Lock)
        /\ Fits("savePlayer", 5, Checked("update", "players"))
        /\ Fits("savePlayer", 6, Checked("delete", "player_items"))
        /\ Fits("savePlayer", 7, Checked("insert", "player_items"))
        /\ Fits("savePlayer", 8, Checked("delete", "player_inboxitems"))
        /\ Fits("savePlayer", 9, Checked("insert", "player_inboxitems"))
        /\ Fits("savePlayer", 10, Commit)
    BY DEF Fits, Begin, Commit, Lock
  <2> QED
    BY <2>1, <2>2, <2>3
<1>2. \A i \in 1..Len(Program["saveHouseInfo"]) : Fits("saveHouseInfo", i, Program["saveHouseInfo"][i])
  <2> DEFINE p == Program["saveHouseInfo"]
  <2>1. Len(p) = 6 /\ 1..6 = {1, 2, 3, 4, 5, 6}
    BY DEF Program, SaveHouseInfo
  <2>2. /\ p[1] = Begin
        /\ p[2] = Lock
        /\ p[3] = Checked("delete", "house_lists")
        /\ p[4] = Ignored("update", "houses")
        /\ p[5] = Checked("insert", "house_lists")
        /\ p[6] = Commit
    BY DEF Program, SaveHouseInfo
  <2>3. /\ Fits("saveHouseInfo", 1, Begin)
        /\ Fits("saveHouseInfo", 2, Lock)
        /\ Fits("saveHouseInfo", 3, Checked("delete", "house_lists"))
        /\ Fits("saveHouseInfo", 4, Ignored("update", "houses"))
        /\ Fits("saveHouseInfo", 5, Checked("insert", "house_lists"))
        /\ Fits("saveHouseInfo", 6, Commit)
    BY DEF Fits, Begin, Commit, Lock
  <2> QED
    BY <2>1, <2>2, <2>3
<1>3. \A i \in 1..Len(Program["saveHouseItems"]) : Fits("saveHouseItems", i, Program["saveHouseItems"][i])
  <2> DEFINE p == Program["saveHouseItems"]
  <2>1. Len(p) = 5 /\ 1..5 = {1, 2, 3, 4, 5}
    BY DEF Program, SaveHouseItems
  <2>2. /\ p[1] = Begin
        /\ p[2] = Lock
        /\ p[3] = Checked("delete", "tile_store")
        /\ p[4] = Checked("insert", "tile_store")
        /\ p[5] = Commit
    BY DEF Program, SaveHouseItems
  <2>3. /\ Fits("saveHouseItems", 1, Begin)
        /\ Fits("saveHouseItems", 2, Lock)
        /\ Fits("saveHouseItems", 3, Checked("delete", "tile_store"))
        /\ Fits("saveHouseItems", 4, Checked("insert", "tile_store"))
        /\ Fits("saveHouseItems", 5, Commit)
    BY DEF Fits, Begin, Commit, Lock
  <2> QED
    BY <2>1, <2>2, <2>3
<1>4. \A i \in 1..Len(Program["coinTransfer"]) : Fits("coinTransfer", i, Program["coinTransfer"][i])
  <2> DEFINE p == Program["coinTransfer"]
  <2>1. Len(p) = 8 /\ 1..8 = {1, 2, 3, 4, 5, 6, 7, 8}
    BY DEF Program, CoinTransfer
  <2>2. /\ p[1] = Checked("select", "none")
        /\ p[2] = Begin
        /\ p[3] = Lock
        /\ p[4] = Ignored("insert", "paid")
        /\ p[5] = Ignored("insert", "received")
        /\ p[6] = Ignored("commit", "none")
        /\ p[7] = Ignored("insert", "store_history")
        /\ p[8] = Ignored("insert", "store_history")
    BY DEF Program, CoinTransfer
  <2>3. /\ Fits("coinTransfer", 1, Checked("select", "none"))
        /\ Fits("coinTransfer", 2, Begin)
        /\ Fits("coinTransfer", 3, Lock)
        /\ Fits("coinTransfer", 4, Ignored("insert", "paid"))
        /\ Fits("coinTransfer", 5, Ignored("insert", "received"))
        /\ Fits("coinTransfer", 6, Ignored("commit", "none"))
        /\ Fits("coinTransfer", 7, Ignored("insert", "store_history"))
        /\ Fits("coinTransfer", 8, Ignored("insert", "store_history"))
    BY DEF Fits, Begin, Lock
  <2> QED
    BY <2>1, <2>2, <2>3
<1>5. \A i \in 1..Len(Program["updateOnlineStatus"]) : Fits("updateOnlineStatus", i, Program["updateOnlineStatus"][i])
  <2> DEFINE p == Program["updateOnlineStatus"]
  <2>1. Len(p) = 1 /\ 1..1 = {1}
    BY DEF Program
  <2>2. /\ p[1] = Ignored("delete", "players_online")
    BY DEF Program
  <2>3. /\ Fits("updateOnlineStatus", 1, Ignored("delete", "players_online"))
    BY DEF Fits
  <2> QED
    BY <2>1, <2>2, <2>3
<1> QED
  BY <1>1, <1>2, <1>3, <1>4, <1>5 DEF Units, Program

\* BEGIN, the lock and the commit come in this order.
LEMMA Numbers ==
    \A u \in Units : /\ BeginAt(u) \in Nat \ {0} /\ LockAt(u) = BeginAt(u) + 1
                     /\ CommitAt(u) \in Nat /\ CommitAt(u) > LockAt(u)
  BY DEF BeginAt, LockAt, CommitAt

-----------------------------------------------------------------------------
(* The invariant *)

\* The next statement is one of the transaction.
Inside == LockAt(unit) < at /\ at <= CommitAt(unit)

\* The lock is held inside a transaction and until its rollback, and nowhere else.
Position ==
    /\ inTx => conn = "open"
    /\ job = "none" => ~undoing /\ owner # "dispatcher" /\ ~inTx
    /\ job # "none" /\ ~undoing => /\ owner = "dispatcher" <=> Inside
                                   /\ inTx => LockAt(unit) <= at /\ at <= CommitAt(unit)
    /\ undoing => \/ Inside /\ owner = "dispatcher"
                  \/ at = BeginAt(unit) /\ owner # "dispatcher" /\ ~inTx

\* What is not committed belongs to an open transaction, under the lock.
Hidden == view # rows => inTx /\ owner = "dispatcher"

\* What TypeOK says of the call.
CallOK ==
    \/ job = "none" /\ unit = "none" /\ at = 0 /\ tries = 0
    \/ job \in DOMAIN FirstUnit /\ unit \in Units
       /\ at \in 1..Len(Program[unit]) /\ tries \in 1..3

\* The procedure that runs and its next statement.
LEMMA Now ==
    ASSUME TypeOK, job # "none"
    PROVE  /\ unit \in Units /\ at \in 1..Len(Program[unit]) /\ at \in Nat
           /\ job \in DOMAIN FirstUnit /\ tries \in 1..3
           /\ Shape(unit) /\ Fits(unit, at, Statement)
           /\ BeginAt(unit) \in Nat \ {0} /\ LockAt(unit) = BeginAt(unit) + 1
           /\ CommitAt(unit) \in Nat /\ CommitAt(unit) > LockAt(unit)
           /\ Len(Program[unit]) \in Nat \ {0}
<1>1. /\ unit \in Units /\ at \in 1..Len(Program[unit]) /\ job \in DOMAIN FirstUnit /\ tries \in 1..3
  BY DEF TypeOK
<1>2. Shape(unit)
  BY <1>1, Shapes
<1> QED
  BY <1>1, <1>2, StatementFits, Numbers DEF Statement, Shape

\* What Return(ok) leaves: nothing, or the first statement of a procedure.
Returned(ok) ==
    /\ CallOK' /\ undoing' = FALSE
    /\ job' # "none" => at' = 1
    /\ reported' = IF ok THEN [reported EXCEPT ![unit] = version] ELSE reported

\* Return does that.
LEMMA ReturnReturns ==
    ASSUME TypeOK, job # "none", NEW ok \in BOOLEAN, Return(ok)
    PROVE  Returned(ok)
<1>1. /\ unit \in Units /\ job \in DOMAIN FirstUnit /\ tries \in 1..3
      /\ \A u \in Units : 1 \in 1..Len(Program[u])
  <2>1. \A u \in Units : Len(Program[u]) \in Nat \ {0}
    BY Shapes DEF Shape
  <2> QED
    BY <2>1, Now
<1>2. Tries(job, unit) \in {1, 3} /\ Follows(job, unit, ok) \subseteq Units
  BY DEF Tries, Follows, Units, Program
<1>3. CASE ~ok /\ tries < Tries(job, unit) /\ at' = 1 /\ tries' = tries + 1 /\ UNCHANGED <<job, unit>>
  BY <1>1, <1>2, <1>3 DEF Return, Returned, CallOK
<1>4. CASE unit' \in Follows(job, unit, ok) /\ at' = 1 /\ tries' = 1 /\ UNCHANGED job
  BY <1>1, <1>2, <1>4 DEF Return, Returned, CallOK
<1>5. CASE job' = "none" /\ unit' = "none" /\ at' = 0 /\ tries' = 0
  BY <1>1, <1>5 DEF Return, Returned, CallOK
<1> QED
  BY <1>3, <1>4, <1>5 DEF Return

\* After a statement: the next one of the procedure, or its end.
LEMMA GoOnGoesOn ==
    ASSUME TypeOK, job # "none", ~undoing, GoOn
    PROVE  \/ /\ at < Len(Program[unit]) /\ at' = at + 1
              /\ UNCHANGED <<job, unit, undoing, tries, reported>> /\ CallOK'
           \/ at = Len(Program[unit]) /\ Returned(TRUE)
<1>1. CASE at < Len(Program[unit])
  <2>1. at' = at + 1 /\ UNCHANGED <<job, unit, undoing, tries, reported>>
    BY <1>1 DEF GoOn
  <2>2. at + 1 \in 1..Len(Program[unit])
    BY <1>1, Now
  <2>3. CallOK'
    BY <2>1, <2>2, Now DEF CallOK
  <2> QED
    BY <1>1, <2>1, <2>3
<1>2. CASE ~(at < Len(Program[unit]))
  <2>1. Return(TRUE)
    BY <1>2 DEF GoOn
  <2>2. Returned(TRUE)
    BY <2>1, ReturnReturns
  <2>3. at = Len(Program[unit])
    BY <1>2, Now
  <2> QED
    BY <2>2, <2>3
<1> QED
  BY <1>1, <1>2

\* An early return: a rollback comes first when the transaction was begun.
LEMMA ReturnFalseReturns ==
    ASSUME TypeOK, job # "none", ~undoing, ReturnFalse
    PROVE  \/ BeginAt(unit) <= at /\ undoing' = TRUE /\ UNCHANGED <<job, unit, at, tries, reported>>
           \/ at < BeginAt(unit) /\ Returned(FALSE)
<1>1. \A i \in 1..at : Program[unit][i].op = "begin" <=> i = BeginAt(unit)
  BY Now, StatementFits DEF Fits
<1>2. (\E i \in 1..at : Program[unit][i].op = "begin") <=> BeginAt(unit) <= at
  BY <1>1, Now
<1>3. CASE BeginAt(unit) <= at
  BY <1>2, <1>3 DEF ReturnFalse
<1>4. CASE ~(BeginAt(unit) <= at)
  <2>1. Return(FALSE)
    BY <1>2, <1>4 DEF ReturnFalse
  <2>2. Returned(FALSE)
    BY <2>1, ReturnReturns
  <2>3. at < BeginAt(unit)
    BY <1>4, Now
  <2> QED
    BY <2>2, <2>3
<1> QED
  BY <1>3, <1>4
\* What TypeOK says but for the call.
Values ==
    /\ rows \in [Tables -> [Versions -> Nat]]
    /\ view \in [Tables -> [Versions -> Nat]]
    /\ inTx \in BOOLEAN /\ undoing \in BOOLEAN /\ slipped \in BOOLEAN
    /\ conn \in {"open", "lost", "dropped"}
    /\ owner \in {"nobody", "dispatcher", "network"}
    /\ version \in Versions
    /\ torn \subseteq Units
    /\ reported \in [Units -> Versions]
    /\ losses \in 0..MaxLosses /\ refusals \in 0..MaxRefusals

\* The two halves of TypeOK.
LEMMA TypeParts == (TypeOK <=> Values /\ CallOK) /\ (TypeOK' <=> Values' /\ CallOK')
  BY DEF TypeOK, Values, CallOK

\* The invariant that the lock follows from.
Inv == TypeOK /\ Position /\ Hidden

\* A statement that neither begins, locks nor commits, executed, refused or ignored.
LEMMA NextStatement ==
    ASSUME Inv, job # "none", ~undoing, Statement.op \in {"select", "update", "delete", "insert"},
           GoOn, owner' = owner, inTx' = inTx, conn' = conn
    PROVE  Position' /\ CallOK' /\ undoing' \in BOOLEAN /\ reported' \in [Units -> Versions]
<1>1. /\ at # BeginAt(unit) /\ at # LockAt(unit) /\ at # CommitAt(unit)
      /\ at \in 1..Len(Program[unit]) /\ at \in Nat /\ Len(Program[unit]) \in Nat
      /\ BeginAt(unit) \in Nat /\ LockAt(unit) = BeginAt(unit) + 1 /\ CommitAt(unit) \in Nat
      /\ CommitAt(unit) > LockAt(unit)
      /\ BeginAt(unit) <= Len(Program[unit]) => CommitAt(unit) <= Len(Program[unit])
  BY Now DEF Inv, Fits, Shape
<1>2. /\ inTx => conn = "open"
      /\ owner = "dispatcher" <=> Inside
      /\ inTx => Inside
  BY <1>1 DEF Inv, Position, Inside
<1>3. CASE /\ at < Len(Program[unit]) /\ at' = at + 1
           /\ UNCHANGED <<job, unit, undoing, tries, reported>> /\ CallOK'
  <2>1. Inside' <=> Inside
    BY <1>1, <1>3 DEF Inside, LockAt, BeginAt, CommitAt
  <2> QED
    BY <1>1, <1>2, <1>3, <2>1 DEF Position, Inside, Inv, TypeOK
<1>4. CASE at = Len(Program[unit]) /\ Returned(TRUE)
  <2>1. ~Inside
    BY <1>1, <1>4 DEF Inside
  <2>2. ~Inside'
    <3>1. at' = 0 \/ at' = 1
      BY <1>4 DEF Returned, CallOK, FirstUnit
    <3> QED
      BY <3>1 DEF Inside, LockAt, BeginAt
  <2> QED
    BY <1>2, <1>4, <2>1, <2>2, Now DEF Position, Returned, Inv, TypeOK
<1> QED
  BY <1>3, <1>4, GoOnGoesOn DEF Inv

\* A procedure has returned, and what it held is given back.
LEMMA AfterReturn ==
    ASSUME Inv, NEW ok \in BOOLEAN, Returned(ok), owner' # "dispatcher", ~inTx', job # "none"
    PROVE  Position' /\ CallOK' /\ undoing' \in BOOLEAN /\ reported' \in [Units -> Versions]
<1>1. at' = 0 \/ at' = 1
  BY DEF Returned, CallOK, FirstUnit
<1>2. ~Inside'
  BY <1>1 DEF Inside, LockAt, BeginAt
<1>3. reported' \in [Units -> Versions]
  BY Now DEF Returned, Inv, TypeOK
<1> QED
  BY <1>2, <1>3 DEF Returned, Position

\* What Execute makes of the tables.
LEMMA Executed ==
    ASSUME Inv, Sending, conn = "open", Execute
    PROVE  /\ rows' \in [Tables -> [Versions -> Nat]] /\ view' \in [Tables -> [Versions -> Nat]]
           /\ inTx' \in BOOLEAN /\ torn' \subseteq Units /\ slipped' \in BOOLEAN
           /\ view' # rows' => inTx /\ Inside /\ owner = "dispatcher"
           /\ inTx' = (inTx \/ Statement.op = "begin")
<1>1. /\ Statement.op \in {"select", "begin", "update", "delete", "insert"}
      /\ Statement.table = "none" \/ Statement.op \in {"update", "delete", "insert"}
      /\ unit \in Units /\ job # "none"
  BY Now DEF Inv, Sending, IsQuery, Fits
<1>2. /\ version \in Versions /\ Versions \subseteq Nat
      /\ view \in [Tables -> [Versions -> Nat]] /\ rows \in [Tables -> [Versions -> Nat]]
  BY DatabaseAssumption DEF Inv, TypeOK, Versions
<1>3. \A t \in Tables : t = Statement.table => Effect(view[t]) \in [Versions -> Nat]
  <2>1. "none" \notin Tables
    BY DEF Tables
  <2>2. Empty \in [Versions -> Nat] /\ Only(version) \in [Versions -> Nat]
    BY <1>2 DEF Empty, Only
  <2>3. \A h \in [Versions -> Nat] : [h EXCEPT ![version] = @ + 1] \in [Versions -> Nat]
    BY <1>2
  <2> QED
    BY <1>1, <1>2, <2>1, <2>2, <2>3 DEF Effect
<1>4. view' \in [Tables -> [Versions -> Nat]]
  BY <1>2, <1>3 DEF Execute
<1>5. rows' = IF inTx THEN rows ELSE view'
  BY DEF Execute
<1>6. inTx => Inside /\ owner = "dispatcher"
  BY <1>1, Now DEF Inv, Position, Inside, Fits, Sending
<1> QED
  BY <1>1, <1>2, <1>4, <1>5, <1>6 DEF Execute, Inv, TypeOK

\* A statement is executed: nothing is written to a transaction without the lock.
LEMMA StepExecuteQuery ==
    ASSUME Inv, ExecuteQuery
    PROVE  Inv'
<1>1. /\ job # "none" /\ ~undoing /\ conn = "open" /\ Sending /\ Execute /\ GoOn
      /\ conn' = conn /\ owner' = owner /\ version' = version
      /\ losses' = losses /\ refusals' = refusals
      /\ Statement.op \in {"select", "begin", "update", "delete", "insert"}
      /\ TypeOK
  BY DEF ExecuteQuery, Sending, IsQuery, faults, Inv
<1>2. /\ rows' \in [Tables -> [Versions -> Nat]] /\ view' \in [Tables -> [Versions -> Nat]]
      /\ inTx' \in BOOLEAN /\ torn' \subseteq Units /\ slipped' \in BOOLEAN
      /\ view' # rows' => inTx /\ Inside /\ owner = "dispatcher"
      /\ inTx' = (inTx \/ Statement.op = "begin")
  BY <1>1, Executed
<1>3. Hidden'
  BY <1>1, <1>2 DEF Hidden
<1>4. Position' /\ CallOK' /\ undoing' \in BOOLEAN /\ reported' \in [Units -> Versions]
  <2>1. CASE Statement.op # "begin"
    <3>1. inTx' = inTx
      BY <1>2, <2>1 DEF Inv, TypeOK
    <3>2. Statement.op \in {"select", "update", "delete", "insert"}
      BY <1>1, <2>1
    <3> QED
      BY <1>1, <3>1, <3>2, NextStatement
  <2>2. CASE Statement.op = "begin"
    <3>1. at = BeginAt(unit) /\ at < Len(Program[unit]) /\ at # Len(Program[unit])
      BY <1>1, <2>2, Now DEF Inv, Fits, Shape
    <3>2. at' = at + 1 /\ UNCHANGED <<job, unit, undoing, tries, reported>> /\ CallOK'
      <4>1. \/ /\ at < Len(Program[unit]) /\ at' = at + 1
               /\ UNCHANGED <<job, unit, undoing, tries, reported>> /\ CallOK'
            \/ at = Len(Program[unit]) /\ Returned(TRUE)
        BY <1>1, GoOnGoesOn
      <4> QED
        BY <3>1, <4>1
    <3>3. at' = LockAt(unit)
      BY <1>1, <3>1, <3>2, Now
    <3>4. /\ LockAt(unit) <= CommitAt(unit) /\ ~Inside /\ ~Inside'
          /\ LockAt(unit') = LockAt(unit) /\ CommitAt(unit') = CommitAt(unit)
      BY <1>1, <3>1, <3>2, <3>3, Now DEF Inside, BeginAt, LockAt, CommitAt
    <3>5. owner # "dispatcher"
      BY <1>1, <3>4 DEF Inv, Position
    <3>6. LockAt(unit) \in Nat
      BY Now, <1>1 DEF Inv
    <3>7. Position'
      BY <1>1, <1>2, <3>2, <3>3, <3>4, <3>5, <3>6 DEF Position
    <3> QED
      BY <3>2, <3>7 DEF Inv, TypeOK
  <2> QED
    BY <2>1, <2>2
<1>5. Values'
  BY <1>1, <1>2, <1>4 DEF Inv, TypeOK, Values, faults
<1> QED
  BY <1>3, <1>4, <1>5, TypeParts DEF Inv

\* A statement is refused: whoever holds the lock returns by way of the rollback.
LEMMA StepQueryRefused ==
    ASSUME Inv, QueryRefused
    PROVE  Inv'
<1>1. /\ job # "none" /\ ~undoing /\ conn = "open"
      /\ UNCHANGED <<rows, view, inTx, conn, owner, version, torn, losses>>
      /\ slipped' \in BOOLEAN
      /\ refusals' = refusals \/ (refusals < MaxRefusals /\ refusals' = refusals + 1)
      /\ Statement.op \in {"select", "begin", "update", "delete", "insert"}
  BY DEF QueryRefused, Sending, IsQuery, server, Inv, TypeOK
<1>2. refusals' \in 0..MaxRefusals
  BY <1>1, DatabaseAssumption DEF Inv, TypeOK
<1>3. Position' /\ CallOK' /\ undoing' \in BOOLEAN /\ reported' \in [Units -> Versions]
  <2>1. CASE ~Statement.checked
    <3>1. GoOn /\ Statement.op # "begin"
      BY <1>1, <2>1, Now DEF QueryRefused, Fits, Inv
    <3> QED
      BY <1>1, <3>1, NextStatement
  <2>2. CASE Statement.checked
    <3>1. ReturnFalse
      BY <2>2 DEF QueryRefused
    <3>2. /\ at # LockAt(unit) /\ at # CommitAt(unit) /\ at <= CommitAt(unit)
      BY <1>1, <2>2, Now DEF Fits, Inv
    <3>3. CASE BeginAt(unit) <= at /\ undoing' = TRUE /\ UNCHANGED <<job, unit, at, tries, reported>>
      <4>1. Inside \/ at = BeginAt(unit)
        BY <1>1, <3>2, <3>3, Now DEF Inv, Inside
      <4>2. at = BeginAt(unit) => ~Inside /\ owner # "dispatcher" /\ ~inTx
        BY <1>1, Now DEF Inv, Inside, Position
      <4>3. Inside => owner = "dispatcher"
        BY <1>1 DEF Inv, Position
      <4>4. Position'
        BY <1>1, <3>3, <4>1, <4>2, <4>3 DEF Position, Inside
      <4> QED
        BY <1>1, <3>3, <4>4 DEF CallOK, Inv, TypeOK
    <3>4. CASE at < BeginAt(unit) /\ Returned(FALSE)
      <4>1. ~Inside /\ ~inTx
        BY <1>1, <3>4, Now DEF Inv, Position, Inside
      <4>2. owner' # "dispatcher" /\ ~inTx'
        BY <1>1, <4>1 DEF Inv, Position
      <4>3. Returned(FALSE)
        BY <3>4
      <4> QED
        BY <1>1, <4>2, <4>3, AfterReturn
    <3> QED
      BY <1>1, <3>1, <3>3, <3>4, ReturnFalseReturns DEF Inv
  <2> QED
    BY <2>1, <2>2, <1>1, Now DEF Inv, Fits
<1>4. Values' /\ Hidden'
  BY <1>1, <1>2, <1>3 DEF Inv, TypeOK, Values, Hidden
<1> QED
  BY <1>3, <1>4, TypeParts DEF Inv

\* The lock is taken for what BEGIN has opened.
LEMMA StepTakeLock ==
    ASSUME Inv, TakeLock
    PROVE  Inv'
<1>1. /\ job # "none" /\ ~undoing /\ Statement.op = "lock" /\ GoOn /\ owner' = "dispatcher"
      /\ UNCHANGED <<rows, view, inTx, conn, version, slipped, torn, losses, refusals>>
      /\ TypeOK
  BY DEF TakeLock, server, faults, Inv
<1>2. /\ at = LockAt(unit) /\ at < Len(Program[unit]) /\ at # Len(Program[unit])
      /\ LockAt(unit) \in Nat /\ CommitAt(unit) \in Nat /\ LockAt(unit) < CommitAt(unit)
  BY <1>1, Now DEF Inv, Fits, Shape
<1>3. at' = at + 1 /\ UNCHANGED <<job, unit, undoing, tries, reported>> /\ CallOK'
  <2>1. \/ /\ at < Len(Program[unit]) /\ at' = at + 1
           /\ UNCHANGED <<job, unit, undoing, tries, reported>> /\ CallOK'
        \/ at = Len(Program[unit]) /\ Returned(TRUE)
    BY <1>1, GoOnGoesOn
  <2> QED
    BY <1>2, <2>1
<1>4. unit' = unit /\ LockAt(unit') = LockAt(unit) /\ CommitAt(unit') = CommitAt(unit)
  BY <1>3 DEF LockAt, BeginAt, CommitAt
<1>5. Position'
  BY <1>1, <1>2, <1>3, <1>4 DEF Position, Inside, Inv
<1>6. Values' /\ Hidden'
  BY <1>1, <1>3 DEF Inv, TypeOK, Values, Hidden
<1> QED
  BY <1>3, <1>5, <1>6, TypeParts DEF Inv

\* The transaction has ended and the procedure goes on after it.
LEMMA AfterCommit ==
    ASSUME Inv, job # "none", ~undoing, Statement.op = "commit", GoOn, ~inTx', owner' # "dispatcher"
    PROVE  Position' /\ CallOK' /\ undoing' \in BOOLEAN /\ reported' \in [Units -> Versions]
<1>1. TypeOK /\ at = CommitAt(unit) /\ CommitAt(unit) \in Nat
  BY Now DEF Inv, Fits
<1>2. CASE /\ at < Len(Program[unit]) /\ at' = at + 1
           /\ UNCHANGED <<job, unit, undoing, tries, reported>> /\ CallOK'
  <2>1. ~Inside'
    BY <1>1, <1>2 DEF Inside, CommitAt
  <2> QED
    BY <1>1, <1>2, <2>1 DEF Position, TypeOK
<1>3. CASE at = Len(Program[unit]) /\ Returned(TRUE)
  <2>1. Returned(TRUE)
    BY <1>3
  <2> QED
    BY <2>1, AfterReturn
<1> QED
  BY <1>1, <1>2, <1>3, GoOnGoesOn

\* Committed and rolled back alike leave nothing that is not stored.
LEMMA Ended ==
    ASSUME Inv, Committed \/ RolledBack, unit \in Units
    PROVE  /\ rows' \in [Tables -> [Versions -> Nat]] /\ view' \in [Tables -> [Versions -> Nat]]
           /\ ~inTx' /\ inTx' \in BOOLEAN /\ torn' \subseteq Units /\ view' = rows'
  BY DEF Inv, TypeOK, Committed, RolledBack

\* databaseLock.unlock() leaves the lock to others.
LEMMA Freed ==
    ASSUME Inv, owner' = Unlocked
    PROVE  owner' \in {"nobody", "network"}
  BY DEF Inv, TypeOK, Unlocked

\* The commit gives the lock back when everything is stored.
LEMMA StepCommitTransaction ==
    ASSUME Inv, CommitTransaction
    PROVE  Inv'
<1>1. /\ job # "none" /\ ~undoing /\ Statement.op = "commit" /\ GoOn
      /\ owner' = Unlocked /\ conn' = "open" /\ Committed
      /\ version' = version /\ slipped' = slipped /\ losses' = losses /\ refusals' = refusals
      /\ TypeOK
  BY DEF CommitTransaction, Committing, faults, Inv
<1>2. owner' \in {"nobody", "network"}
  BY <1>1, Freed
<1>3. /\ rows' \in [Tables -> [Versions -> Nat]] /\ view' \in [Tables -> [Versions -> Nat]]
      /\ ~inTx' /\ inTx' \in BOOLEAN /\ torn' \subseteq Units /\ view' = rows'
  BY <1>1, Now, Ended
<1>4. Position' /\ CallOK' /\ undoing' \in BOOLEAN /\ reported' \in [Units -> Versions]
  BY <1>1, <1>2, <1>3, AfterCommit
<1>5. Values' /\ Hidden'
  BY <1>1, <1>2, <1>3, <1>4 DEF TypeOK, Values, Hidden
<1> QED
  BY <1>4, <1>5, TypeParts DEF Inv

\* So does a commit that fails: nothing is left to roll back.
LEMMA StepCommitFails ==
    ASSUME Inv, CommitFails
    PROVE  Inv'
<1>1. /\ job # "none" /\ ~undoing /\ Statement.op = "commit" /\ TypeOK
      /\ owner' = Unlocked /\ version' = version /\ slipped' = slipped
  BY DEF CommitFails, Committing, Inv
<1>2. owner' \in {"nobody", "network"}
  BY <1>1, Freed
<1>3. /\ rows' \in [Tables -> [Versions -> Nat]] /\ view' \in [Tables -> [Versions -> Nat]]
      /\ ~inTx' /\ inTx' \in BOOLEAN /\ torn' \subseteq Units /\ view' = rows'
      /\ conn' \in {"open", "lost"}
      /\ losses' \in 0..MaxLosses /\ refusals' \in 0..MaxRefusals
  <2>1. CASE /\ conn = "open" /\ refusals < MaxRefusals /\ RolledBack
             /\ refusals' = refusals + 1 /\ UNCHANGED <<conn, losses>>
    BY <1>1, <2>1, Now, Ended, DatabaseAssumption DEF TypeOK
  <2>2. CASE conn # "open" /\ conn' = "lost" /\ UNCHANGED <<server, torn, faults>>
    <3>1. ~inTx /\ view = rows
      BY <2>2 DEF Inv, Position, Hidden
    <3> QED
      BY <1>1, <2>2, <3>1 DEF TypeOK, server, faults
  <2>3. CASE /\ conn = "open" /\ losses < MaxLosses /\ Committed
             /\ conn' = "lost" /\ losses' = losses + 1 /\ UNCHANGED refusals
    BY <1>1, <2>3, Now, Ended, DatabaseAssumption DEF TypeOK
  <2> QED
    BY <2>1, <2>2, <2>3 DEF CommitFails
<1>4. Position' /\ CallOK' /\ undoing' \in BOOLEAN /\ reported' \in [Units -> Versions]
  <2>1. CASE Return(FALSE)
    <3>1. Returned(FALSE)
      BY <1>1, <2>1, ReturnReturns
    <3> QED
      BY <1>1, <1>2, <1>3, <3>1, AfterReturn
  <2>2. CASE GoOn
    BY <1>1, <1>2, <1>3, <2>2, AfterCommit
  <2> QED
    BY <2>1, <2>2 DEF CommitFails
<1>5. Values' /\ Hidden'
  BY <1>1, <1>2, <1>3, <1>4 DEF TypeOK, Values, Hidden
<1> QED
  BY <1>4, <1>5, TypeParts DEF Inv

\* And the rollback.
LEMMA StepRollback ==
    ASSUME Inv, Rollback
    PROVE  Inv'
<1>1. /\ undoing /\ job # "none" /\ TypeOK /\ RolledBack /\ Return(FALSE)
      /\ owner' = Unlocked /\ version' = version /\ slipped' = slipped
      /\ losses' = losses /\ refusals' = refusals
      /\ conn' \in {"open", "lost"}
  BY DEF Rollback, Inv, Position, TypeOK, faults
<1>2. owner' \in {"nobody", "network"}
  BY <1>1, Freed
<1>3. /\ rows' \in [Tables -> [Versions -> Nat]] /\ view' \in [Tables -> [Versions -> Nat]]
      /\ ~inTx' /\ inTx' \in BOOLEAN /\ torn' \subseteq Units /\ view' = rows'
  BY <1>1, Now, Ended
<1>4. Position' /\ CallOK' /\ undoing' \in BOOLEAN /\ reported' \in [Units -> Versions]
  <2>1. Returned(FALSE)
    BY <1>1, ReturnReturns
  <2> QED
    BY <1>1, <1>2, <1>3, <2>1, AfterReturn
<1>5. Values' /\ Hidden'
  BY <1>1, <1>2, <1>3, <1>4 DEF TypeOK, Values, Hidden
<1> QED
  BY <1>4, <1>5, TypeParts DEF Inv

\* A handler begins without the lock and without a transaction.
LEMMA StepStartJob ==
    ASSUME Inv, NEW j \in DOMAIN FirstUnit, StartJob(j)
    PROVE  Inv'
<1>1. /\ job = "none" /\ version < MaxVersion /\ version' = version + 1
      /\ job' = j /\ unit' = FirstUnit[j] /\ at' = 1 /\ tries' = 1 /\ undoing' = FALSE
      /\ UNCHANGED <<rows, view, inTx, conn, owner, slipped, torn, reported, losses, refusals>>
  BY DEF StartJob, server, history, faults
<1>2. j # "none" /\ FirstUnit[j] \in Units
  BY DEF FirstUnit, Units, Program
<1>3. 1 \in 1..Len(Program[FirstUnit[j]])
  BY <1>2, Shapes DEF Shape
<1>4. version' \in Versions
  BY <1>1, DatabaseAssumption DEF Inv, TypeOK, Versions
<1>5. ~Inside'
  BY <1>1 DEF Inside, LockAt, BeginAt
<1>6. Position'
  BY <1>1, <1>2, <1>5 DEF Inv, Position
<1>7. Hidden'
  BY <1>1 DEF Inv, Hidden
<1>8. CallOK'
  BY <1>1, <1>2, <1>3 DEF CallOK
<1>9. Values'
  BY <1>1, <1>4 DEF Inv, TypeOK, Values
<1> QED
  BY <1>6, <1>7, <1>8, <1>9, TypeParts DEF Inv

\* A lost connection takes the transaction with it, and only then is it opened again.
LEMMA StepConnection ==
    ASSUME Inv, AnswerLost \/ ConnectionLost \/ Reconnect
    PROVE  Inv'
<1>1. /\ UNCHANGED <<owner, version, job, unit, at, undoing, tries, reported, refusals>>
      /\ losses' = losses \/ (losses < MaxLosses /\ losses' = losses + 1)
      /\ conn' \in {"open", "lost", "dropped"}
  BY DEF AnswerLost, ConnectionLost, Reconnect, server, call, history, faults
<1>2. losses' \in 0..MaxLosses
  BY <1>1, DatabaseAssumption DEF Inv, TypeOK
<1>3. /\ rows' \in [Tables -> [Versions -> Nat]] /\ view' \in [Tables -> [Versions -> Nat]]
      /\ inTx' \in BOOLEAN /\ torn' \subseteq Units /\ slipped' \in BOOLEAN
      /\ inTx' => inTx /\ conn' = "open"
      /\ view' # rows' => inTx' /\ owner = "dispatcher"
  <2>1. CASE AnswerLost
    <3>1. Sending /\ conn = "open" /\ Execute /\ ~inTx /\ Statement.op # "begin"
      BY <2>1 DEF AnswerLost
    <3> QED
      BY <3>1, Executed
  <2>2. CASE ConnectionLost
    BY <2>2 DEF ConnectionLost, history, Inv, TypeOK
  <2>3. CASE Reconnect
    BY <2>3 DEF Reconnect, server, history, Inv, TypeOK, Position, Hidden
  <2> QED
    BY <2>1, <2>2, <2>3
<1>4. CallOK' /\ Inside' = Inside /\ unit' = unit /\ LockAt(unit') = LockAt(unit)
      /\ CommitAt(unit') = CommitAt(unit) /\ BeginAt(unit') = BeginAt(unit)
  BY <1>1 DEF Inv, TypeOK, CallOK, Inside, LockAt, CommitAt, BeginAt
<1>5. Position'
  BY <1>1, <1>3, <1>4 DEF Inv, Position
<1>6. Values' /\ Hidden'
  BY <1>1, <1>2, <1>3 DEF Inv, TypeOK, Values, Hidden
<1> QED
  BY <1>4, <1>5, <1>6, TypeParts DEF Inv

\* The network thread has the lock only when there is no transaction.
LEMMA StepNetwork ==
    ASSUME Inv, NetworkLocks \/ NetworkSelects
    PROVE  Inv'
<1>1. /\ UNCHANGED <<rows, view, inTx, conn, version, job, unit, at, undoing, tries>>
      /\ UNCHANGED <<slipped, torn, reported, losses, refusals>>
      /\ owner \in {"nobody", "network"} /\ owner' \in {"nobody", "network"}
  BY DEF NetworkLocks, NetworkSelects, server, call, history, faults
<1>2. Inside' = Inside /\ LockAt(unit') = LockAt(unit)
      /\ CommitAt(unit') = CommitAt(unit) /\ BeginAt(unit') = BeginAt(unit)
  BY <1>1 DEF Inside, LockAt, CommitAt, BeginAt
<1>3. Position' /\ Hidden' /\ TypeOK'
  BY <1>1, <1>2 DEF Inv, TypeOK, Position, Hidden
<1> QED
  BY <1>3 DEF Inv

\* The first state.
LEMMA Initially == Init => Inv
<1> SUFFICES ASSUME Init PROVE Inv
  OBVIOUS
<1>1. Empty \in [Versions -> Nat] /\ Only(0) \in [Versions -> Nat] /\ 0 \in Versions
  BY DatabaseAssumption DEF Empty, Only, Versions
<1>2. rows \in [Tables -> [Versions -> Nat]] /\ view = rows
  BY <1>1 DEF Init
<1>3. TypeOK
  <2>1. CallOK
    BY DEF Init, CallOK
  <2>2. losses \in 0..MaxLosses /\ refusals \in 0..MaxRefusals
    BY DatabaseAssumption DEF Init
  <2>3. Values
    BY <1>1, <1>2, <2>2 DEF Init, Values
  <2> QED
    BY <2>1, <2>3, TypeParts
<1> QED
  BY <1>2, <1>3 DEF Init, Inv, Position, Hidden

\* Inv holds in every state: who is where in which procedure, with the lock or without it.
THEOREM Inductive == Spec => []Inv
<1>1. Inv /\ [Next]_vars => Inv'
  <2> SUFFICES ASSUME Inv, [Next]_vars PROVE Inv'
    OBVIOUS
  <2>1. CASE UNCHANGED vars
    BY <2>1 DEF vars, server, call, history, faults, Inv, TypeOK, Position, Hidden, Inside, Statement
  <2>2. ASSUME NEW j \in DOMAIN FirstUnit, StartJob(j) PROVE Inv'
    BY <2>2, StepStartJob
  <2>3. CASE Dispatcher
    BY <2>3, StepExecuteQuery, StepQueryRefused, StepTakeLock, StepCommitTransaction,
       StepCommitFails, StepRollback DEF Dispatcher
  <2>4. CASE AnswerLost \/ ConnectionLost \/ Reconnect
    BY <2>4, StepConnection
  <2>5. CASE NetworkLocks \/ NetworkSelects
    BY <2>5, StepNetwork
  <2> QED
    BY <2>1, <2>2, <2>3, <2>4, <2>5 DEF Next
<1> QED
  BY Initially, <1>1, PTL DEF Spec

\* The statement that is next is one of the procedure that runs, whatever it returned from
\* before (GoOn, ReturnFalse, Return), and the history stays within the bounds.
THEOREM TypeCorrect == Spec => []TypeOK
  BY Inductive, PTL DEF Inv

\* What is not committed is under databaseLock: no query of the network thread comes between
\* the statements of a transaction, although BEGIN is sent before the lock is taken.
THEOREM Locked == Spec => []UncommittedIsLocked
<1>1. Inv => UncommittedIsLocked
  BY DEF Inv, Hidden, UncommittedIsLocked
<1> QED
  BY <1>1, Inductive, PTL

-----------------------------------------------------------------------------
(* What is stored is whole *)

\* What is not committed is in the tables of the transaction.
Elsewhere == \A t \in Tables : view[t] # rows[t] => job # "none" /\ t \in TxTables(unit)

\* Every statement of the transaction up to here has been executed in it.
Faultless == job # "none" /\ ~undoing /\ inTx /\ ~slipped

\* A table that was emptied is empty and one that was filled holds the new version.
Rewritten ==
    Faultless /\ unit \in Rewriting =>
        \A t \in Written[unit] :
            /\ PutAt(t) < at => view[t] = Only(version)
            /\ DelAt(t) # 0 /\ DelAt(t) < at /\ at <= PutAt(t) => view[t] = Empty

\* Between the two updates of a transfer one side is ahead by it.
Transferring ==
    Faultless /\ unit = "coinTransfer" /\ unit \notin torn =>
        view["paid"] = IF at = 5 THEN [view["received"] EXCEPT ![version] = @ + 1]
                                 ELSE view["received"]

\* A transaction that is committed when it is gone is one the client library knows to be gone.
Dropped ==
    job # "none" /\ ~undoing /\ ~inTx /\ unit \in Rewriting \ torn /\ at = CommitAt(unit) =>
        conn = "dropped"

\* Nothing newer than the state of the game was reported saved.
Fresh == \A u \in Units : reported[u] <= version

\* No two procedures write the same tables in their transactions, nor any of them outside.
LEMMA Apart ==
    /\ \A u \in Rewriting : u \in Units /\ TxTables(u) = Written[u] /\ Written[u] \subseteq Tables
    /\ \A u, w \in Rewriting : u # w => Written[u] \cap Written[w] = {}
    /\ \A u \in Rewriting : {"paid", "received"} \cap Written[u] = {}
    /\ \A u \in Units : TxTables(u) \cap {"players_online", "player_preytimes", "store_history"} = {}
    /\ \A u \in Units \ Rewriting : TxTables(u) \subseteq {"paid", "received"}
    /\ \A u \in Units : u # "coinTransfer" => {"paid", "received"} \cap TxTables(u) = {}
    /\ "coinTransfer" \notin Rewriting /\ "none" \notin Tables
<1>1. Units = {"updateOnlineStatus", "savePlayer", "saveHouseInfo", "saveHouseItems", "coinTransfer"}
  BY DEF Units, Program
<1> QED
  BY <1>1 DEF TxTables, Written, Rewriting, Tables

\* Where each procedure is when it writes the tables of its transaction.
LEMMA Places ==
    /\ \A u \in Rewriting : \A t \in Written[u] :
          /\ PutAt(t) \in Nat /\ DelAt(t) \in Nat /\ LockAt(u) < PutAt(t) /\ PutAt(t) < CommitAt(u)
          /\ DelAt(t) # 0 => LockAt(u) < DelAt(t) /\ DelAt(t) < PutAt(t)
    /\ \A u \in Rewriting : LockAt(u) + 1 < CommitAt(u)
    /\ \A u \in Units : CommitAt(u) > 1
  BY DEF Written, PutAt, DelAt, LockAt, BeginAt, CommitAt, Rewriting

\* A procedure that has not begun a transaction, or is about to roll it back.
LEMMA NothingWritten ==
    ASSUME Inv', at' = 0 \/ at' = 1 \/ undoing'
    PROVE  ~Faultless' /\ Rewritten' /\ Transferring' /\ Dropped'
<1>1. CASE undoing'
  BY <1>1 DEF Faultless, Rewritten, Transferring, Dropped
<1>2. CASE ~undoing' /\ (at' = 0 \/ at' = 1)
  <2>1. ~Faultless'
    BY <1>2 DEF Inv, Position, Faultless, LockAt, BeginAt
  <2>2. at' # CommitAt(unit')
    BY <1>2 DEF CommitAt
  <2> QED
    BY <2>1, <2>2 DEF Rewritten, Transferring, Dropped
<1> QED
  BY <1>1, <1>2

\* Without a transaction that was faultless so far only Dropped says something.
LEMMA NotFaultless ==
    ASSUME ~inTx' \/ slipped'
    PROVE  Rewritten' /\ Transferring'
  BY DEF Faultless, Rewritten, Transferring

\* A step that leaves alone the tables of the procedures that are not torn after it.
LEMMA StaysWhole ==
    ASSUME StoredIsWhole, torn \subseteq torn',
           \A u \in Rewriting \ torn' : reported'[u] = reported[u],
           \A u \in Rewriting \ torn' : \A t \in Written[u] : rows'[t] = rows[t],
           "coinTransfer" \notin torn' => rows'["paid"] = rows["paid"] /\ rows'["received"] = rows["received"]
    PROVE  StoredIsWhole'
<1>1. ASSUME NEW u \in Rewriting \ torn'
      PROVE  \E v \in Versions : v >= reported'[u] /\ \A t \in Written[u] : rows'[t] = Only(v)
  <2>1. PICK v \in Versions : v >= reported[u] /\ \A t \in Written[u] : rows[t] = Only(v)
    BY DEF StoredIsWhole
  <2> QED
    BY <2>1
<1> QED
  BY <1>1 DEF StoredIsWhole

\* A procedure returns true at its last statement, and for those that rewrite it is the commit.
LEMMA ReportsAtCommit ==
    ASSUME Inv, job # "none", ~undoing, GoOn, unit \in Rewriting, Statement.op # "commit"
    PROVE  reported' = reported
<1>1. TypeOK /\ at # Len(Program[unit])
  BY Now DEF Inv, Fits, Shape
<1> QED
  BY <1>1, GoOnGoesOn

\* A procedure that returns true reports the version it was to save.
LEMMA StaysFresh ==
    ASSUME Inv, Fresh, job # "none",
           version' = version,
           \/ reported' = reported
           \/ reported' = [reported EXCEPT ![unit] = version]
    PROVE  Fresh'
<1>1. TypeOK
  BY DEF Inv
<1>2. unit \in Units
  BY <1>1, Now
<1>3. version \in Nat /\ reported \in [Units -> Versions]
  BY <1>1, DatabaseAssumption DEF TypeOK, Versions
<1> QED
  BY <1>2, <1>3 DEF Fresh, Versions

\* What StoredIsWhole follows from, together with Inv.
Rest == Elsewhere /\ Rewritten /\ Transferring /\ Dropped /\ Fresh /\ StoredIsWhole

\* Nothing is written, begun or ended: what is stored stays as whole as it was.
LEMMA Untouched ==
    ASSUME Inv, Rest, rows' = rows, torn' = torn,
           \/ reported' = reported
           \/ unit \notin Rewriting /\ reported' = [reported EXCEPT ![unit] = version]
    PROVE  StoredIsWhole'
<1>1. \A u \in Rewriting \ torn' : reported'[u] = reported[u]
  BY Apart DEF Inv, TypeOK
<1> QED
  BY <1>1, StaysWhole DEF Rest

\* A statement executed outside a transaction, although it may believe to be in one.
LEMMA OutsideTransaction ==
    ASSUME Inv, Rest, Sending, conn = "open", Execute, ~inTx,
           \/ reported' = reported
           \/ unit \notin Rewriting /\ reported' = [reported EXCEPT ![unit] = version]
    PROVE  StoredIsWhole' /\ (Inside => unit \in torn')
<1>1. /\ TypeOK /\ job # "none" /\ ~undoing /\ unit \in Units
      /\ owner = "dispatcher" <=> Inside
      /\ view = rows /\ rows \in [Tables -> [Versions -> Nat]]
      /\ at # LockAt(unit) /\ at # CommitAt(unit)
      /\ Statement.op \in {"select", "begin", "update", "delete", "insert"}
      /\ Fits(unit, at, Statement)
  BY Now DEF Inv, TypeOK, Sending, IsQuery, Position, Hidden, Fits
<1>2. /\ torn' = IF Inside THEN torn \cup {unit} ELSE torn
      /\ \A t \in Tables : t # Statement.table => rows'[t] = rows[t]
  BY <1>1 DEF Execute
<1>3. Inside => Statement.table \in TxTables(unit)
  BY <1>1, Now DEF Fits, Inside
<1>4. ~Inside => Statement.table \in {"none", "players_online", "player_preytimes", "store_history"}
  BY <1>1, Now DEF Fits, Inside
<1>5. \A u \in Rewriting \ torn' : reported'[u] = reported[u]
  BY <1>1, Apart DEF TypeOK
<1>6. ASSUME NEW u \in Rewriting \ torn', NEW t \in Written[u]
      PROVE  rows'[t] = rows[t]
  <2>1. t \in Tables /\ u \in Units /\ TxTables(u) = Written[u] /\ t \notin {"paid", "received"}
    BY Apart
  <2>2. CASE Inside
    <3>1. u # unit
      BY <1>2, <2>2
    <3>2. t \notin TxTables(unit)
      BY <1>1, <2>1, <3>1, Apart
    <3> QED
      BY <1>2, <1>3, <2>1, <2>2, <3>2
  <2>3. CASE ~Inside
    BY <1>2, <1>4, <2>1, <2>3, Apart
  <2> QED
    BY <2>2, <2>3
<1>7. "coinTransfer" \notin torn' => rows'["paid"] = rows["paid"] /\ rows'["received"] = rows["received"]
  <2>1. {"paid", "received"} \subseteq Tables
    BY DEF Tables
  <2>2. CASE Inside
    BY <1>1, <1>2, <1>3, <2>1, <2>2, Apart
  <2>3. CASE ~Inside
    BY <1>2, <1>4, <2>1, <2>3
  <2> QED
    BY <2>2, <2>3
<1> QED
  BY <1>2, <1>5, <1>6, <1>7, StaysWhole DEF Rest

\* The server commits what the transaction wrote.
LEMMA CommittedIsWhole ==
    ASSUME Inv, Rest, job # "none", ~undoing, Statement.op = "commit", conn # "dropped", Committed,
           \/ reported' = reported
           \/ reported' = [reported EXCEPT ![unit] = version]
    PROVE  StoredIsWhole'
<1>1. /\ TypeOK /\ unit \in Units /\ at = CommitAt(unit) /\ version \in Versions
      /\ reported \in [Units -> Versions] /\ rows' = view
  BY Now DEF Inv, TypeOK, Fits, Committed
<1>2. /\ torn' = IF ~inTx THEN torn
                 ELSE IF slipped THEN torn \cup {unit} ELSE torn \ (Rewriting \cap {unit})
      /\ inTx /\ unit \notin torn' => Faultless
      /\ ~inTx => view = rows
  BY DEF Committed, Faultless, Inv, Hidden
<1>3. ASSUME NEW u \in Rewriting \ torn'
      PROVE  \E v \in Versions : v >= reported'[u] /\ \A t \in Written[u] : rows'[t] = Only(v)
  <2>1. CASE u = unit
    <3>1. inTx
      BY <1>1, <1>2, <2>1 DEF Rest, Dropped
    <3>2. \A t \in Written[u] : view[t] = Only(version)
      BY <1>1, <1>2, <2>1, <3>1, Places DEF Rest, Rewritten
    <3>3. version >= reported'[u]
      BY <1>1, <2>1, DatabaseAssumption DEF Rest, Fresh, Versions
    <3> QED
      BY <1>1, <3>2, <3>3
  <2>2. CASE u # unit
    <3>1. u \notin torn /\ reported'[u] = reported[u] /\ u \in Units
      BY <1>1, <1>2, <2>2, Apart
    <3>2. \A t \in Written[u] : t \in Tables /\ t \notin TxTables(unit)
      BY <1>1, <2>2, Apart
    <3>3. \A t \in Written[u] : rows'[t] = rows[t]
      BY <1>1, <3>2 DEF Rest, Elsewhere
    <3> QED
      BY <3>1, <3>3 DEF Rest, StoredIsWhole
  <2> QED
    BY <2>1, <2>2
<1>4. "coinTransfer" \notin torn' => rows'["paid"] = rows'["received"]
  <2> SUFFICES ASSUME "coinTransfer" \notin torn' PROVE view["paid"] = view["received"]
    BY <1>1
  <2>1. "coinTransfer" \notin torn /\ rows["paid"] = rows["received"]
    BY <1>2, Apart DEF Rest, StoredIsWhole
  <2>2. CASE unit = "coinTransfer" /\ inTx
    <3>1. Faultless /\ at # 5
      BY <1>1, <1>2, <2>2 DEF CommitAt
    <3> QED
      BY <2>1, <2>2, <3>1 DEF Rest, Transferring
  <2>3. CASE unit # "coinTransfer"
    <3>1. {"paid", "received"} \subseteq Tables
      BY DEF Tables
    <3>2. view["paid"] = rows["paid"] /\ view["received"] = rows["received"]
      BY <1>1, <2>3, <3>1, Apart DEF Rest, Elsewhere
    <3> QED
      BY <2>1, <3>2
  <2>4. CASE ~inTx
    BY <1>2, <2>1, <2>4
  <2> QED
    BY <2>2, <2>3, <2>4
<1> QED
  BY <1>3, <1>4 DEF StoredIsWhole

\* What GoOn reports: nothing, or the success of the procedure.
LEMMA GoOnReports ==
    ASSUME Inv, job # "none", ~undoing, GoOn
    PROVE  \/ reported' = reported
           \/ /\ at' = 0 \/ at' = 1
              /\ reported' = [reported EXCEPT ![unit] = version]
<1>1. CASE Returned(TRUE)
  BY <1>1 DEF Returned, CallOK, FirstUnit
<1> QED
  BY <1>1, GoOnGoesOn DEF Inv

\* A statement of the transaction, executed in it.
LEMMA InTransaction ==
    ASSUME Inv, Inv', Rest, ExecuteQuery, inTx
    PROVE  Rest'
<1>1. /\ TypeOK /\ job # "none" /\ ~undoing /\ conn = "open" /\ Execute /\ GoOn /\ ~Duplicate
      /\ conn' = conn /\ version' = version
      /\ Statement.op \in {"select", "begin", "update", "delete", "insert"}
  BY DEF ExecuteQuery, Sending, IsQuery, Inv
<1>2. /\ Inside /\ at # CommitAt(unit) /\ at \in Nat /\ CommitAt(unit) \in Nat
      /\ at < Len(Program[unit]) /\ at # Len(Program[unit]) /\ unit \in Units
      /\ LockAt(unit) < at /\ at < CommitAt(unit) /\ Fits(unit, at, Statement)
      /\ at # BeginAt(unit)
  BY <1>1, Now DEF Inv, Position, Inside, Fits, Shape
<1>3. at' = at + 1 /\ job' = job /\ unit' = unit /\ undoing' = undoing /\ reported' = reported
  BY <1>1, <1>2, GoOnGoesOn
<1>4. /\ Statement.table \in TxTables(unit) /\ Statement.op \in {"update", "insert", "delete"}
      /\ Statement.op \in {"update", "insert"} => at = PutAt(Statement.table)
      /\ Statement.op = "delete" => at = DelAt(Statement.table) /\ at < PutAt(Statement.table)
      /\ Statement.op = "insert" /\ unit # "coinTransfer" => DelAt(Statement.table) > 0
      /\ unit = "coinTransfer" => Statement.op = "insert"
      /\ \A t \in TxTables(unit) : at = PutAt(t) \/ at = DelAt(t) => t = Statement.table
  BY <1>2 DEF Fits
<1>5. /\ rows' = rows /\ inTx' = inTx /\ slipped' = slipped /\ torn' = torn
      /\ view' = [t \in Tables |-> IF t = Statement.table THEN Effect(view[t]) ELSE view[t]]
      /\ version \in Versions /\ view \in [Tables -> [Versions -> Nat]]
  BY <1>1, <1>2, <1>4, Now DEF Execute, TypeOK, Fits
<1>6. Elsewhere'
  BY <1>1, <1>3, <1>4, <1>5 DEF Rest, Elsewhere, TxTables
<1>7. Rewritten'
  <2> SUFFICES ASSUME Faultless', unit \in Rewriting, NEW t \in Written[unit]
               PROVE  /\ PutAt(t) < at' => view'[t] = Only(version)
                      /\ DelAt(t) # 0 /\ DelAt(t) < at' /\ at' <= PutAt(t) => view'[t] = Empty
    BY <1>1, <1>3 DEF Rewritten, Only, Empty
  <2>1. /\ PutAt(t) < at => view[t] = Only(version)
        /\ DelAt(t) # 0 /\ DelAt(t) < at /\ at <= PutAt(t) => view[t] = Empty
    BY <1>1, <1>3, <1>5 DEF Faultless, Rest, Rewritten
  <2>2. /\ PutAt(t) \in Nat /\ DelAt(t) \in Nat /\ t \in Tables /\ t \in TxTables(unit)
        /\ DelAt(t) # 0 => DelAt(t) < PutAt(t)
        /\ unit # "coinTransfer"
    BY Places, Apart
  <2>3. PutAt(t) < at' => view'[t] = Only(version)
    <3>1. CASE PutAt(t) < at
      <4>1. t # Statement.table
        BY <1>2, <1>4, <2>2, <3>1
      <4> QED
        BY <1>5, <2>1, <2>2, <3>1, <4>1
    <3>2. CASE PutAt(t) = at
      <4>1. t = Statement.table /\ Statement.op \in {"update", "insert"}
        BY <1>2, <1>4, <2>2, <3>2
      <4>2. CASE Statement.op = "update"
        BY <1>5, <2>2, <4>1, <4>2 DEF Effect
      <4>3. CASE Statement.op = "insert"
        <5>1. view[t] = Empty
          BY <1>4, <2>1, <2>2, <3>2, <4>1, <4>3
        <5>2. view'[t] = [Empty EXCEPT ![version] = @ + 1]
          BY <1>5, <2>2, <4>1, <4>3, <5>1 DEF Effect
        <5>3. [Empty EXCEPT ![version] = @ + 1] = Only(version)
          BY <1>5 DEF Only, Empty
        <5> QED
          BY <5>2, <5>3
      <4> QED
        BY <4>1, <4>2, <4>3
    <3> QED
      BY <1>2, <1>3, <2>2, <3>1, <3>2
  <2>4. DelAt(t) # 0 /\ DelAt(t) < at' /\ at' <= PutAt(t) => view'[t] = Empty
    <3> SUFFICES ASSUME DelAt(t) # 0, DelAt(t) < at', at' <= PutAt(t) PROVE view'[t] = Empty
      OBVIOUS
    <3>1. CASE DelAt(t) < at
      <4>1. t # Statement.table /\ at <= PutAt(t)
        BY <1>2, <1>3, <1>4, <2>2, <3>1
      <4> QED
        BY <1>5, <2>1, <2>2, <3>1, <4>1
    <3>2. CASE DelAt(t) = at
      <4>1. t = Statement.table /\ Statement.op = "delete"
        BY <1>2, <1>3, <1>4, <2>2, <3>2
      <4> QED
        BY <1>5, <2>2, <4>1 DEF Effect
    <3> QED
      BY <1>2, <1>3, <2>2, <3>1, <3>2
  <2> QED
    BY <2>3, <2>4
<1>8. Transferring'
  <2> SUFFICES ASSUME Faultless', unit = "coinTransfer", unit \notin torn
               PROVE  view'["paid"] = IF at' = 5 THEN [view'["received"] EXCEPT ![version] = @ + 1]
                                                 ELSE view'["received"]
    BY <1>1, <1>3, <1>5 DEF Transferring
  <2>1. view["paid"] = IF at = 5 THEN [view["received"] EXCEPT ![version] = @ + 1]
                                 ELSE view["received"]
    BY <1>1, <1>3, <1>5 DEF Faultless, Rest, Transferring
  <2>2. {"paid", "received"} \subseteq Tables /\ TxTables(unit) = {"paid", "received"}
    BY DEF Tables, TxTables, Rewriting
  <2>3. at = 4 \/ at = 5
    BY <1>2 DEF LockAt, BeginAt, CommitAt
  <2>4. CASE at = 4
    <3>1. Statement.table = "paid" /\ Statement.op = "insert"
      BY <1>4, <2>2, <2>4 DEF PutAt
    <3>2. view'["received"] = view["received"] /\ view'["paid"] = [view["paid"] EXCEPT ![version] = @ + 1]
      BY <1>5, <2>2, <3>1 DEF Effect
    <3> QED
      BY <1>3, <2>1, <2>4, <3>2
  <2>5. CASE at = 5
    <3>1. Statement.table = "received" /\ Statement.op = "insert"
      BY <1>4, <2>2, <2>5 DEF PutAt
    <3>2. view'["paid"] = view["paid"] /\ view'["received"] = [view["received"] EXCEPT ![version] = @ + 1]
      BY <1>5, <2>2, <3>1 DEF Effect
    <3> QED
      BY <1>3, <2>1, <2>5, <3>2
  <2> QED
    BY <2>3, <2>4, <2>5
<1>9. Dropped'
  BY <1>5 DEF Dropped
<1>10. Fresh'
  BY <1>1, <1>3, StaysFresh DEF Rest
<1>11. StoredIsWhole'
  BY <1>3, <1>5, Untouched
<1> QED
  BY <1>6, <1>7, <1>8, <1>9, <1>10, <1>11 DEF Rest

\* Only the last statement reports, which is none of a transaction that rewrites.
LEMMA QueryReports ==
    ASSUME Inv, job # "none", ~undoing, GoOn, Statement.op # "commit"
    PROVE  \/ reported' = reported
           \/ unit \notin Rewriting /\ reported' = [reported EXCEPT ![unit] = version]
  BY GoOnReports, ReportsAtCommit

\* Outside a transaction everything is stored at once.
LEMMA Alone ==
    ASSUME Inv, Inv', Rest, ExecuteQuery, ~inTx
    PROVE  Rest'
<1>1. /\ TypeOK /\ job # "none" /\ ~undoing /\ conn = "open" /\ Sending /\ Execute /\ GoOn
      /\ conn' = conn /\ version' = version /\ Statement.op # "commit"
      /\ Statement.op \in {"select", "begin", "update", "delete", "insert"}
  BY DEF ExecuteQuery, Sending, IsQuery, Inv
<1>2. \/ reported' = reported
      \/ unit \notin Rewriting /\ reported' = [reported EXCEPT ![unit] = version]
  BY <1>1, QueryReports
<1>3. StoredIsWhole' /\ (Inside => unit \in torn')
  BY <1>1, <1>2, OutsideTransaction
<1>4. Fresh'
  BY <1>1, <1>2, StaysFresh DEF Rest
<1>5. view' = rows'
  BY <1>1 DEF Execute
<1>6. /\ Fits(unit, at, Statement) /\ at \in Nat /\ unit \in Units
      /\ CommitAt(unit) \in Nat /\ LockAt(unit) \in Nat /\ Shape(unit)
      /\ BeginAt(unit) \in Nat /\ LockAt(unit) = BeginAt(unit) + 1
  BY <1>1, Now
<1>7. \/ at' = at + 1 /\ unit' = unit
      \/ at = Len(Program[unit]) /\ (at' = 0 \/ at' = 1)
  <2>1. CASE Returned(TRUE) /\ at = Len(Program[unit])
    BY <2>1 DEF Returned, CallOK, FirstUnit
  <2> QED
    BY <1>1, <2>1, GoOnGoesOn
<1>8. Rewritten' /\ Transferring' /\ Dropped'
  <2>1. CASE at' = 0 \/ at' = 1
    BY <2>1, NothingWritten
  <2>2. CASE at' = at + 1 /\ unit' = unit /\ Statement.op = "begin"
    <3>1. at = BeginAt(unit) /\ at' = LockAt(unit) /\ inTx'
      BY <1>1, <1>6, <2>2 DEF Fits, Execute
    <3>2. ~Inside
      BY <1>6, <3>1 DEF Inside
    <3>3. Rewritten'
      <4> SUFFICES ASSUME unit \in Rewriting, NEW t \in Written[unit]
                   PROVE  ~(PutAt(t) < at') /\ ~(DelAt(t) # 0 /\ DelAt(t) < at')
        BY <2>2 DEF Rewritten
      <4> QED
        BY <1>6, <3>1, Places
    <3>4. Transferring'
      <4> SUFFICES ASSUME unit = "coinTransfer", unit \notin torn'
                   PROVE  at' # 5 /\ view'["paid"] = view'["received"]
        BY <2>2 DEF Transferring
      <4>1. at' # 5
        BY <3>1 DEF LockAt, BeginAt
      <4> QED
        BY <1>3, <1>5, <4>1 DEF StoredIsWhole
    <3> QED
      BY <3>1, <3>3, <3>4 DEF Dropped
  <2>3. CASE at' = at + 1 /\ unit' = unit /\ Statement.op # "begin"
    <3>1. ~inTx'
      BY <1>1, <2>3 DEF Execute
    <3>2. ASSUME unit \in Rewriting, at' = CommitAt(unit) PROVE Inside
      BY <1>6, <2>3, <3>2, Places DEF Inside
    <3>3. CommitAt(unit') = CommitAt(unit)
      BY <2>3
    <3>4. Dropped'
      BY <1>3, <2>3, <3>2, <3>3 DEF Dropped
    <3> QED
      BY <3>1, <3>4, NotFaultless
  <2> QED
    BY <1>7, <2>1, <2>2, <2>3
<1>9. Elsewhere'
  BY <1>5 DEF Elsewhere
<1> QED
  BY <1>3, <1>4, <1>8, <1>9 DEF Rest

\* A refused statement ends the transaction or is remembered (slipped).
LEMMA RestQueryRefused ==
    ASSUME Inv, Inv', Rest, QueryRefused
    PROVE  Rest'
<1>1. /\ TypeOK /\ job # "none" /\ ~undoing
      /\ rows' = rows /\ view' = view /\ inTx' = inTx /\ conn' = conn /\ owner' = owner
      /\ version' = version /\ torn' = torn
      /\ slipped' = (slipped \/ (owner = "dispatcher" /\ ~Statement.checked))
      /\ Statement.op \in {"select", "begin", "update", "delete", "insert"}
      /\ Statement.op # "commit"
      /\ IF Statement.checked THEN ReturnFalse ELSE GoOn
  BY DEF QueryRefused, Sending, IsQuery, server, Inv
<1>2. /\ Fits(unit, at, Statement) /\ at \in Nat /\ unit \in Units
      /\ CommitAt(unit) \in Nat /\ LockAt(unit) \in Nat /\ Shape(unit)
  BY <1>1, Now
<1>3. CASE Statement.checked
  <2>1. /\ reported' = reported
        /\ at' = 0 \/ at' = 1 \/ undoing'
    <3>1. CASE Returned(FALSE)
      BY <3>1 DEF Returned, CallOK, FirstUnit
    <3> QED
      BY <1>1, <1>3, <3>1, ReturnFalseReturns
  <2>2. Rewritten' /\ Transferring' /\ Dropped'
    BY <2>1, NothingWritten
  <2>3. Elsewhere'
    <3>1. CASE undoing' = TRUE /\ UNCHANGED <<job, unit, at, tries, reported>>
      BY <1>1, <3>1 DEF Rest, Elsewhere, TxTables
    <3>2. CASE at < BeginAt(unit)
      <4>1. ~Inside /\ view = rows
        BY <1>1, <1>2, <3>2, Now DEF Inside, Inv, Position, Hidden
      <4> QED
        BY <1>1, <4>1 DEF Elsewhere
    <3> QED
      BY <1>1, <1>3, <3>1, <3>2, ReturnFalseReturns
  <2>4. Fresh' /\ StoredIsWhole'
    BY <1>1, <2>1, StaysFresh, Untouched DEF Rest
  <2> QED
    BY <2>2, <2>3, <2>4 DEF Rest
<1>4. CASE ~Statement.checked
  <2>1. GoOn
    BY <1>1, <1>4
  <2>2. \/ reported' = reported
        \/ unit \notin Rewriting /\ reported' = [reported EXCEPT ![unit] = version]
    BY <1>1, <2>1, QueryReports
  <2>3. Fresh' /\ StoredIsWhole'
    BY <1>1, <2>2, StaysFresh, Untouched DEF Rest
  <2>4. inTx => owner = "dispatcher"
    BY <1>1, <1>2 DEF Inv, Position, Inside, Fits
  <2>5. Rewritten' /\ Transferring'
    BY <1>1, <1>4, <2>4, NotFaultless
  <2>6. CASE at' = at + 1 /\ UNCHANGED <<job, unit, undoing, tries, reported>>
    <3>1. Dropped'
      <4>1. unit \in Rewriting => at' # CommitAt(unit)
        BY <1>2, <1>4, <2>6 DEF Fits
      <4> QED
        BY <2>6, <4>1 DEF Dropped, CommitAt
    <3>2. Elsewhere'
      BY <1>1, <2>6 DEF Rest, Elsewhere, TxTables
    <3> QED
      BY <2>3, <2>5, <3>1, <3>2 DEF Rest
  <2>7. CASE at = Len(Program[unit]) /\ Returned(TRUE)
    <3>1. at' = 0 \/ at' = 1
      BY <2>7 DEF Returned, CallOK, FirstUnit
    <3>2. Dropped'
      BY <3>1, NothingWritten
    <3>3. ~inTx'
      BY <2>7, <3>1 DEF Inv, Position, LockAt, BeginAt, Returned
    <3>4. view' = rows'
      BY <3>3 DEF Inv, Hidden
    <3>5. Elsewhere'
      BY <3>4 DEF Elsewhere
    <3> QED
      BY <2>3, <2>5, <3>2, <3>5 DEF Rest
  <2> QED
    BY <1>1, <2>1, <2>6, <2>7, GoOnGoesOn
<1> QED
  BY <1>3, <1>4

\* With the lock taken nothing is written yet.
LEMMA RestTakeLock ==
    ASSUME Inv, Inv', Rest, TakeLock
    PROVE  Rest'
<1>1. /\ TypeOK /\ job # "none" /\ ~undoing /\ Statement.op = "lock" /\ GoOn
      /\ rows' = rows /\ view' = view /\ inTx' = inTx /\ version' = version
      /\ slipped' = slipped /\ torn' = torn
  BY DEF TakeLock, server, Inv
<1>2. /\ at = LockAt(unit) /\ at < Len(Program[unit]) /\ at # Len(Program[unit])
      /\ LockAt(unit) \in Nat /\ CommitAt(unit) \in Nat /\ LockAt(unit) < CommitAt(unit)
      /\ unit \in Units
  BY <1>1, Now DEF Fits, Shape
<1>3. at' = at + 1 /\ UNCHANGED <<job, unit, undoing, tries, reported>>
  BY <1>1, <1>2, GoOnGoesOn
<1>4. Faultless' => Faultless
  BY <1>1, <1>3 DEF Faultless
<1>5. Rewritten'
  <2> SUFFICES ASSUME unit \in Rewriting, NEW t \in Written[unit]
               PROVE  ~(PutAt(t) < at') /\ ~(DelAt(t) # 0 /\ DelAt(t) < at')
    BY <1>3 DEF Rewritten
  <2> QED
    BY <1>2, <1>3, Places
<1>6. Transferring'
  <2> SUFFICES ASSUME Faultless', unit = "coinTransfer", unit \notin torn
               PROVE  at' # 5 /\ view["paid"] = view["received"]
    BY <1>1, <1>3 DEF Transferring
  <2>1. at = 3
    BY <1>2 DEF LockAt, BeginAt
  <2> QED
    BY <1>3, <1>4, <2>1 DEF Rest, Transferring
<1>7. Dropped'
  <2>1. unit \in Rewriting => at' # CommitAt(unit)
    BY <1>2, <1>3, Places
  <2> QED
    BY <1>3, <2>1 DEF Dropped, CommitAt
<1>8. Elsewhere'
  BY <1>1, <1>3 DEF Rest, Elsewhere, TxTables
<1>9. Fresh' /\ StoredIsWhole'
  BY <1>1, <1>3, StaysFresh, Untouched DEF Rest
<1> QED
  BY <1>5, <1>6, <1>7, <1>8, <1>9 DEF Rest

\* After a commit, whether it succeeded or not, the procedure is not at a commit again.
LEMMA AfterEnd ==
    ASSUME Inv, Inv', Rest, job # "none", ~undoing, Statement.op = "commit", ~inTx', view' = rows',
           version' = version, GoOn \/ Returned(FALSE)
    PROVE  /\ Elsewhere' /\ Rewritten' /\ Transferring' /\ Dropped' /\ Fresh'
           /\ reported' = reported \/ reported' = [reported EXCEPT ![unit] = version]
<1>1. TypeOK /\ at = CommitAt(unit) /\ CommitAt(unit) \in Nat
  BY Now DEF Inv, Fits
<1>2. /\ reported' = reported \/ reported' = [reported EXCEPT ![unit] = version]
      /\ at' = 0 \/ at' = 1 \/ (at' = at + 1 /\ unit' = unit)
  <2>1. CASE Returned(FALSE)
    BY <2>1 DEF Returned, CallOK, FirstUnit
  <2>2. CASE GoOn
    <3>1. CASE Returned(TRUE)
      BY <3>1 DEF Returned, CallOK, FirstUnit
    <3> QED
      BY <1>1, <2>2, <3>1, GoOnGoesOn
  <2> QED
    BY <2>1, <2>2
<1>3. Dropped'
  <2>1. CASE at' = at + 1 /\ unit' = unit
    BY <1>1, <2>1 DEF Dropped, CommitAt
  <2> QED
    BY <1>2, <2>1, NothingWritten
<1>4. Elsewhere' /\ Rewritten' /\ Transferring'
  BY NotFaultless DEF Elsewhere
<1>5. Fresh'
  BY <1>2, StaysFresh DEF Rest
<1> QED
  BY <1>2, <1>3, <1>4, <1>5

\* A commit that succeeds stores a whole, or the procedure counts as torn.
LEMMA RestCommitTransaction ==
    ASSUME Inv, Inv', Rest, CommitTransaction
    PROVE  Rest'
<1>1. /\ job # "none" /\ ~undoing /\ Statement.op = "commit" /\ GoOn /\ Committed
      /\ version' = version /\ conn # "dropped" /\ ~inTx' /\ view' = rows'
  BY DEF CommitTransaction, Committing, Committed
<1>2. /\ Elsewhere' /\ Rewritten' /\ Transferring' /\ Dropped' /\ Fresh'
      /\ reported' = reported \/ reported' = [reported EXCEPT ![unit] = version]
  BY <1>1, AfterEnd
<1>3. StoredIsWhole'
  BY <1>1, <1>2, CommittedIsWhole
<1> QED
  BY <1>2, <1>3 DEF Rest

\* So does one that fails, whether the server committed or not.
LEMMA RestCommitFails ==
    ASSUME Inv, Inv', Rest, CommitFails
    PROVE  Rest'
<1>1. /\ TypeOK /\ job # "none" /\ ~undoing /\ Statement.op = "commit" /\ version' = version
      /\ IF Statement.checked THEN Return(FALSE) ELSE GoOn
      /\ \/ RolledBack
         \/ conn # "open" /\ UNCHANGED <<server, torn, faults>>
         \/ conn = "open" /\ Committed
  BY DEF CommitFails, Committing, Inv
<1>2. (Statement.checked /\ Returned(FALSE)) \/ (~Statement.checked /\ GoOn)
  <2>1. CASE Return(FALSE) /\ Statement.checked
    <3>1. Return(FALSE)
      BY <2>1
    <3>2. Returned(FALSE)
      BY <1>1, <3>1, ReturnReturns
    <3> QED
      BY <2>1, <3>2
  <2> QED
    BY <1>1, <2>1
<1>3. ~inTx' /\ view' = rows'
  BY <1>1 DEF Inv, Position, Hidden, RolledBack, Committed, server
<1>4. /\ Elsewhere' /\ Rewritten' /\ Transferring' /\ Dropped' /\ Fresh'
      /\ reported' = reported \/ reported' = [reported EXCEPT ![unit] = version]
  BY <1>1, <1>2, <1>3, AfterEnd
<1>5. StoredIsWhole'
  <2>1. CASE rows' = rows /\ torn' = torn
    <3>1. unit \notin Rewriting \/ reported' = reported
      <4>1. unit \in Rewriting => Statement.checked
        BY <1>1, Now DEF Fits
      <4> QED
        BY <1>2, <4>1 DEF Returned
    <3> QED
      BY <1>4, <2>1, <3>1, Untouched
  <2>2. CASE conn = "open" /\ Committed
    BY <1>1, <1>4, <2>2, CommittedIsWhole
  <2> QED
    BY <1>1, <2>1, <2>2 DEF RolledBack, server
<1> QED
  BY <1>4, <1>5 DEF Rest

\* A rollback leaves what was stored.
LEMMA RestRollback ==
    ASSUME Inv, Inv', Rest, Rollback
    PROVE  Rest'
<1>1. /\ job # "none" /\ TypeOK /\ Return(FALSE) /\ version' = version
      /\ rows' = rows /\ torn' = torn /\ view' = rows'
  BY DEF Rollback, RolledBack, Inv, Position, TypeOK
<1>2. Returned(FALSE)
  BY <1>1, ReturnReturns
<1>3. reported' = reported /\ (at' = 0 \/ at' = 1)
  BY <1>2 DEF Returned, CallOK, FirstUnit
<1>4. Rewritten' /\ Transferring' /\ Dropped'
  BY <1>3, NothingWritten
<1>5. Elsewhere'
  BY <1>1 DEF Elsewhere
<1>6. Fresh' /\ StoredIsWhole'
  BY <1>1, <1>3, StaysFresh, Untouched DEF Rest
<1> QED
  BY <1>4, <1>5, <1>6 DEF Rest

\* A statement outside a transaction is executed and will be sent again.
LEMMA RestAnswerLost ==
    ASSUME Inv, Inv', Rest, AnswerLost
    PROVE  Rest'
<1>1. /\ job # "none" /\ Sending /\ conn = "open" /\ Execute /\ ~inTx
      /\ UNCHANGED <<job, unit, at, undoing, reported, version>>
      /\ Statement.op \in {"update", "delete", "insert"}
      /\ TypeOK
  BY DEF AnswerLost, Sending, call, Inv
<1>2. StoredIsWhole'
  BY <1>1, OutsideTransaction
<1>3. Fresh'
  BY <1>1, StaysFresh DEF Rest
<1>4. ~inTx' /\ view' = rows'
  BY <1>1 DEF Execute
<1>5. Dropped'
  <2>1. at # CommitAt(unit)
    BY <1>1, Now DEF Fits
  <2> QED
    BY <1>1, <2>1 DEF Dropped, CommitAt
<1> QED
  BY <1>2, <1>3, <1>4, <1>5, NotFaultless DEF Rest, Elsewhere

\* The transaction is gone; at its commit the client library will know it (Dropped).
LEMMA RestConnectionLost ==
    ASSUME Inv, Inv', Rest, ConnectionLost
    PROVE  Rest'
<1>1. /\ conn = "open" /\ conn' = IF inTx THEN "dropped" ELSE "lost"
      /\ ~inTx' /\ view' = rows /\ rows' = rows
      /\ UNCHANGED <<job, unit, at, undoing, reported, version, torn>>
  BY DEF ConnectionLost, call, history
<1>2. Dropped'
  BY <1>1 DEF Rest, Dropped, CommitAt
<1>3. Fresh' /\ StoredIsWhole'
  BY <1>1, Untouched DEF Rest, Fresh
<1> QED
  BY <1>1, <1>2, <1>3, NotFaultless DEF Rest, Elsewhere

\* Connecting again does not happen at a commit.
LEMMA RestReconnect ==
    ASSUME Inv, Inv', Rest, Reconnect
    PROVE  Rest'
<1>1. /\ conn # "open"
      /\ Sending \/ owner = "network"
      /\ UNCHANGED <<rows, view, inTx, job, unit, at, undoing, reported, version, torn, slipped>>
  BY DEF Reconnect, server, call, history
<1>2. ~inTx /\ view = rows
  <2>1. ~inTx
    BY <1>1 DEF Inv, Position
  <2> QED
    BY <2>1 DEF Inv, Hidden
<1>3. Dropped'
  <2> SUFFICES ASSUME job # "none", ~undoing PROVE at # CommitAt(unit)
    BY <1>1 DEF Dropped, CommitAt
  <2>1. TypeOK /\ (owner = "dispatcher" <=> Inside)
    BY DEF Inv, Position
  <2>2. CASE Sending
    BY <2>1, <2>2, Now DEF Sending, IsQuery, Fits
  <2>3. CASE owner = "network"
    BY <2>1, <2>3, Now DEF Inside
  <2> QED
    BY <1>1, <2>2, <2>3
<1>4. Fresh' /\ StoredIsWhole'
  BY <1>1, Untouched DEF Rest, Fresh
<1> QED
  BY <1>1, <1>2, <1>3, <1>4, NotFaultless DEF Rest, Elsewhere

\* A new version is to be saved; nothing is stored yet.
LEMMA RestStartJob ==
    ASSUME Inv, Inv', Rest, NEW j \in DOMAIN FirstUnit, StartJob(j)
    PROVE  Rest'
<1>1. /\ job = "none" /\ version' = version + 1 /\ at' = 1
      /\ rows' = rows /\ view' = view /\ reported' = reported /\ torn' = torn
  BY DEF StartJob, server, history
<1>2. view = rows
  BY <1>1 DEF Inv, Position, Hidden
<1>3. Fresh'
  BY <1>1, DatabaseAssumption DEF Inv, TypeOK, Rest, Fresh, Versions
<1>4. StoredIsWhole'
  BY <1>1, Untouched
<1>5. Rewritten' /\ Transferring' /\ Dropped'
  BY <1>1, NothingWritten
<1> QED
  BY <1>1, <1>2, <1>3, <1>4, <1>5 DEF Rest, Elsewhere

\* Steps that touch neither tables nor the procedure.
LEMMA RestUnchanged ==
    ASSUME Inv, Rest, NetworkLocks \/ NetworkSelects \/ UNCHANGED vars
    PROVE  Rest'
<1>1. /\ UNCHANGED <<rows, view, inTx, conn, version, job, unit, at, undoing>>
      /\ UNCHANGED <<slipped, torn, reported>>
  BY DEF NetworkLocks, NetworkSelects, vars, server, call, history, faults
<1>2. Elsewhere'
  BY <1>1 DEF Rest, Elsewhere, TxTables
<1>3. Rewritten' /\ Transferring' /\ Dropped'
  BY <1>1 DEF Rest, Rewritten, Transferring, Dropped, Faultless, CommitAt
<1>4. Fresh' /\ StoredIsWhole'
  BY <1>1, Untouched DEF Rest, Fresh
<1> QED
  BY <1>2, <1>3, <1>4 DEF Rest

\* The first state.
LEMMA RestInitially == Init => Rest
<1> SUFFICES ASSUME Init PROVE Rest
  OBVIOUS
<1>1. Elsewhere /\ Rewritten /\ Transferring /\ Dropped
  BY DEF Init, Elsewhere, Rewritten, Transferring, Dropped, Faultless
<1>2. Fresh
  BY DEF Init, Fresh
<1>3. StoredIsWhole
  <2>1. 0 \in Versions /\ 0 >= 0
    BY DatabaseAssumption DEF Versions
  <2>2. \A u \in Rewriting : reported[u] = 0 /\ \A t \in Written[u] : rows[t] = Only(0)
    BY Apart DEF Init
  <2>3. rows["paid"] = rows["received"]
    BY DEF Init, Tables
  <2> QED
    BY <2>1, <2>2, <2>3 DEF StoredIsWhole
<1> QED
  BY <1>1, <1>2, <1>3 DEF Rest

\* A player, the houses, their items and a transfer of coins are stored whole or not at all,
\* for any number of saves, lost connections and refused statements, as long as no statement of
\* theirs was executed after its transaction was lost and no failure was ignored (torn).
THEOREM Whole == Spec => []StoredIsWhole
<1>1. Inv /\ Inv' /\ Rest /\ [Next]_vars => Rest'
  <2> SUFFICES ASSUME Inv, Inv', Rest, [Next]_vars PROVE Rest'
    OBVIOUS
  <2>1. ASSUME NEW j \in DOMAIN FirstUnit, StartJob(j) PROVE Rest'
    BY <2>1, RestStartJob
  <2>2. CASE ExecuteQuery
    BY <2>2, InTransaction, Alone
  <2>3. CASE QueryRefused \/ TakeLock \/ CommitTransaction \/ CommitFails \/ Rollback
    BY <2>3, RestQueryRefused, RestTakeLock, RestCommitTransaction, RestCommitFails, RestRollback
  <2>4. CASE AnswerLost \/ ConnectionLost \/ Reconnect
    BY <2>4, RestAnswerLost, RestConnectionLost, RestReconnect
  <2>5. CASE NetworkLocks \/ NetworkSelects \/ UNCHANGED vars
    BY <2>5, RestUnchanged
  <2> QED
    BY <2>1, <2>2, <2>3, <2>4, <2>5 DEF Next, Dispatcher
<1>2. Rest => StoredIsWhole
  BY DEF Rest
<1> QED
  BY RestInitially, <1>1, <1>2, Inductive, PTL DEF Spec

=============================================================================
