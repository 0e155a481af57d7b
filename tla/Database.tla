------------------------------ MODULE Database ------------------------------
(***************************************************************************)
(* The connection that the dispatcher thread and the network thread share  *)
(* (src/database.cpp) and what the dispatcher saves through it: players    *)
(* (IOLoginData::savePlayer), houses (Map::save) and transfers of store    *)
(* coins.  What is hard is that everything may fail on the way: a          *)
(* statement is refused, the connection is lost with the transaction that  *)
(* was open on it while the statement under way is simply sent again, and  *)
(* the answer to a statement that was executed gets lost.                  *)
(*                                                                         *)
(* A procedure that saves is a sequence of statements; "checked" says      *)
(* whether the code returns when the statement fails.  A table holds, for  *)
(* every version of the game's state, how many copies of its rows of that  *)
(* version there are.  Several tables that are written in the same way are *)
(* one table here.                                                         *)
(***************************************************************************)
EXTENDS Naturals, Sequences

CONSTANTS MaxVersion,    \* bound: how often something is saved
          MaxLosses,     \* bound: how often the connection is lost
          MaxRefusals    \* bound: how many statements the server refuses

ASSUME DatabaseAssumption == MaxVersion \in Nat /\ MaxLosses \in Nat /\ MaxRefusals \in Nat

VARIABLES rows,          \* what is committed
          view,          \* what the connection sees: also what its transaction wrote
          inTx,          \* a transaction is open on the server
          conn,          \* the connection as the client library sees it
          owner,         \* who holds databaseLock
          version,       \* the state of the game that is to be saved
          job, unit, at, \* what the dispatcher does: procedure and next statement
          undoing,       \* ~DBTransaction is about to roll back
          tries,         \* how often the procedure has been tried
          slipped,       \* history: a refused statement was ignored since BEGIN
          torn,          \* history: procedures of which a part was committed without the rest
          reported,      \* history: the version a procedure last returned true for
          losses, refusals

server == <<rows, view, inTx>>
call == <<job, unit, at, undoing, tries>>
history == <<slipped, torn, reported>>
faults == <<losses, refusals>>
vars == <<server, conn, owner, version, call, history, faults>>

-----------------------------------------------------------------------------

Versions == 0..MaxVersion

\* player_items stands also for the other tables of a player without a unique key,
\* player_inboxitems for those with one; paid and received are the additions to and
\* subtractions from two rows of accounts.
Tables == {"players_online", "player_preytimes", "players", "player_items", "player_inboxitems",
           "houses", "house_lists", "tile_store", "paid", "received", "store_history"}

\* Tables in which old and new rows have the same key (player_id, sid).
Unique == {"player_inboxitems"}

Checked(op, table) == [op |-> op, table |-> table, checked |-> TRUE]
Ignored(op, table) == [op |-> op, table |-> table, checked |-> FALSE]

\* beginTransaction(): BEGIN is executed as any statement, then the lock is taken.
Begin == Checked("begin", "none")
Lock == Checked("lock", "none")
Commit == Checked("commit", "none")

\* savePlayerPreyById(): its result is not looked at.
SavePlayerPrey == Ignored("update", "player_preytimes")

\* The row of the player itself, with its conditions serialized.
UpdatePlayer == Checked("update", "players")

\* saveItems(): the items and what they contain, row by row, in one INSERT (DBInsert).
SaveItems(table) == Checked("insert", table)

Mut_SavePlayer ==
    <<SavePlayerPrey, Checked("select", "none"),
      UpdatePlayer, Begin, Lock,
      Checked("delete", "player_items"), SaveItems("player_items"),
      Checked("delete", "player_inboxitems"), SaveItems("player_inboxitems"),
      Commit>>

\* Prey times first, outside the transaction and whatever becomes of it; then the
\* player, and table after table emptied and filled again.
SavePlayer ==
    <<SavePlayerPrey, Checked("select", "none"),
      Begin, Lock, UpdatePlayer,
      Checked("delete", "player_items"), SaveItems("player_items"),
      Checked("delete", "player_inboxitems"), SaveItems("player_inboxitems"),
      Commit>>

\* The houses themselves are written with db.executeQuery(), result ignored.
SaveHouseInfo ==
    <<Begin, Lock,
      Checked("delete", "house_lists"), Ignored("update", "houses"),
      Checked("insert", "house_lists"),
      Commit>>

SaveHouseItems ==
    <<Begin, Lock, Checked("delete", "tile_store"), Checked("insert", "tile_store"), Commit>>

\* playerCoinTransfer(): neither the two updates nor the commit are checked.
CoinTransfer ==
    <<Checked("select", "none"),
      Begin, Lock, Ignored("insert", "paid"), Ignored("insert", "received"),
      Ignored("commit", "none"),
      Ignored("insert", "store_history"), Ignored("insert", "store_history")>>

Program ==
    [updateOnlineStatus |-> <<Ignored("delete", "players_online")>>,
     savePlayer         |-> SavePlayer,
     saveHouseInfo      |-> SaveHouseInfo,
     saveHouseItems     |-> SaveHouseItems,
     coinTransfer       |-> CoinTransfer]

Units == DOMAIN Program

\* What a handler calls, in this order: a player leaves the game, saveGameState(),
\* a transfer.
FirstUnit == [logout        |-> "updateOnlineStatus",
              saveGameState |-> "savePlayer",
              transfer      |-> "coinTransfer"]

\* Map::save() gives up when the houses are not saved.
Follows(j, u, ok) ==
    CASE u = "updateOnlineStatus"                    -> {"savePlayer"}
      [] u = "savePlayer" /\ j = "saveGameState"     -> {"saveHouseInfo"}
      [] u = "saveHouseInfo" /\ ok                   -> {"saveHouseItems"}
      [] OTHER                                       -> {}

\* Player::onRemoveCreature and Map::save try three times, the others once.
Tries(j, u) ==
    IF (j = "logout" /\ u = "savePlayer") \/ u \in {"saveHouseInfo", "saveHouseItems"}
    THEN 3 ELSE 1

-----------------------------------------------------------------------------

Empty == [v \in Versions |-> 0]
Only(v) == [Empty EXCEPT ![v] = 1]

Init ==
    /\ rows = [t \in Tables |-> IF t \in {"paid", "received", "store_history"} THEN Empty ELSE Only(0)]
    /\ view = rows
    /\ inTx = FALSE
    /\ conn = "open"
    /\ owner = "nobody"
    /\ version = 0
    /\ job = "none" /\ unit = "none" /\ at = 0 /\ undoing = FALSE /\ tries = 0
    /\ slipped = FALSE
    /\ torn = {}
    /\ reported = [u \in Units |-> 0]
    /\ losses = 0 /\ refusals = 0

-----------------------------------------------------------------------------
(* The lock and the handlers *)

\* databaseLock is recursive.
MayLock == owner \in {"nobody", "dispatcher"}

Mut_Unlocked == owner

\* databaseLock.unlock(); by a thread that does not hold it, it has no effect.
Unlocked == IF owner = "dispatcher" THEN "nobody" ELSE owner

\* Something has changed since it was saved, and a handler begins to save it.
StartJob(j) ==
    /\ job = "none" /\ version < MaxVersion
    /\ version' = version + 1
    /\ job' = j /\ unit' = FirstUnit[j] /\ at' = 1 /\ tries' = 1 /\ undoing' = FALSE
    /\ UNCHANGED <<server, conn, owner, history, faults>>

\* A procedure returns: it is tried again, or the handler goes on, or it is done.
Return(ok) ==
    /\ \/ /\ ~ok /\ tries < Tries(job, unit)
          /\ at' = 1 /\ tries' = tries + 1
          /\ UNCHANGED <<job, unit>>
       \/ /\ ok \/ tries = Tries(job, unit)
          /\ \/ /\ unit' \in Follows(job, unit, ok)
                /\ at' = 1 /\ tries' = 1
                /\ UNCHANGED job
             \/ /\ Follows(job, unit, ok) = {}
                /\ job' = "none" /\ unit' = "none" /\ at' = 0 /\ tries' = 0
    /\ undoing' = FALSE
    /\ reported' = IF ok THEN [reported EXCEPT ![unit] = version] ELSE reported

Statement == Program[unit][at]

\* After a statement that was not the last one the procedure goes on.
GoOn ==
    IF at < Len(Program[unit])
    THEN at' = at + 1 /\ UNCHANGED <<job, unit, undoing, tries, reported>>
    ELSE Return(TRUE)

\* An early return: a DBTransaction that was begun is rolled back by its destructor.
ReturnFalse ==
    IF \E i \in 1..at : Program[unit][i].op = "begin"
    THEN undoing' = TRUE /\ UNCHANGED <<job, unit, at, tries, reported>>
    ELSE Return(FALSE)

-----------------------------------------------------------------------------
(* executeQuery() and storeQuery() *)

IsQuery == Statement.op \in {"select", "begin", "update", "delete", "insert"}

\* The dispatcher is about to execute a statement, with the lock taken for it.
Sending == job # "none" /\ ~undoing /\ IsQuery /\ MayLock

\* What a statement makes of the rows of its table.
Effect(held) ==
    CASE Statement.op = "update" -> Only(version)
      [] Statement.op = "delete" -> Empty
      [] Statement.op = "insert" -> [held EXCEPT ![version] = @ + 1]

\* An INSERT among rows with the same keys.
Duplicate ==
    /\ Statement.op = "insert" /\ Statement.table \in Unique
    /\ \E v \in Versions : view[Statement.table][v] > 0

\* The server executes the statement; outside a transaction it commits at once,
\* also when the code believes to be in one.
Execute ==
    /\ view' = [t \in Tables |-> IF t = Statement.table THEN Effect(view[t]) ELSE view[t]]
    /\ rows' = IF inTx THEN rows ELSE view'
    /\ inTx' = (inTx \/ Statement.op = "begin")
    /\ torn' = IF owner = "dispatcher" /\ ~inTx THEN torn \cup {unit} ELSE torn
    /\ slipped' = (slipped /\ Statement.op # "begin")

ExecuteQuery ==
    /\ Sending /\ conn = "open" /\ ~Duplicate
    /\ Execute
    /\ GoOn
    /\ UNCHANGED <<conn, owner, version, faults>>

\* Any error but a lost connection ends the loop and is returned.
QueryRefused ==
    /\ Sending /\ conn = "open"
    /\ IF Duplicate THEN UNCHANGED refusals
                    ELSE refusals < MaxRefusals /\ refusals' = refusals + 1
    /\ IF Statement.checked THEN ReturnFalse ELSE GoOn
    /\ slipped' = (slipped \/ (owner = "dispatcher" /\ ~Statement.checked))
    /\ UNCHANGED <<server, conn, owner, version, torn, losses>>

\* The connection is lost after the server executed the statement: it is sent again.
\* Inside a transaction that is no different from losing it before.
AnswerLost ==
    /\ Sending /\ conn = "open" /\ ~inTx /\ ~Duplicate /\ losses < MaxLosses
    /\ Statement.op \in {"update", "delete", "insert"}
    /\ Execute
    /\ conn' = "lost" /\ losses' = losses + 1
    /\ UNCHANGED <<owner, version, call, reported, refusals>>

\* The server rolls the open transaction back.  The client library remembers that it
\* was in one and will fail once before it connects again.
ConnectionLost ==
    /\ conn = "open" /\ losses < MaxLosses
    /\ conn' = IF inTx THEN "dropped" ELSE "lost"
    /\ losses' = losses + 1
    /\ inTx' = FALSE /\ view' = rows
    /\ UNCHANGED <<rows, owner, version, call, history, refusals>>

\* The loop sends the statement again until the library has connected again
\* (MYSQL_OPT_RECONNECT); the transaction is not begun again.
Reconnect ==
    /\ conn # "open"
    /\ Sending \/ owner = "network"
    /\ conn' = "open"
    /\ UNCHANGED <<server, owner, version, call, history, faults>>

-----------------------------------------------------------------------------
(* DBTransaction *)

Mut_TakeLock ==
    /\ job # "none" /\ ~undoing /\ Statement.op = "lock" /\ MayLock
    /\ GoOn
    /\ UNCHANGED <<server, conn, owner, version, slipped, torn, faults>>

\* databaseLock.lock(), after BEGIN.
TakeLock ==
    /\ job # "none" /\ ~undoing /\ Statement.op = "lock" /\ MayLock
    /\ owner' = "dispatcher"
    /\ GoOn
    /\ UNCHANGED <<server, conn, version, slipped, torn, faults>>

\* The procedures that write everything anew, whatever is stored.
Rewriting == {"savePlayer", "saveHouseInfo", "saveHouseItems"}

\* The server commits what the transaction wrote, if it still has one.
Committed ==
    /\ rows' = view /\ inTx' = FALSE
    /\ torn' = IF ~inTx THEN torn
               ELSE IF slipped THEN torn \cup {unit} ELSE torn \ (Rewriting \cap {unit})
    /\ UNCHANGED view

RolledBack ==
    /\ view' = rows /\ inTx' = FALSE
    /\ UNCHANGED <<rows, torn>>

Committing == job # "none" /\ ~undoing /\ Statement.op = "commit"

\* mysql_commit() also connects again, but for a transaction it knows to be lost.
CommitTransaction ==
    /\ Committing /\ conn # "dropped"
    /\ Committed
    /\ conn' = "open" /\ owner' = Unlocked
    /\ GoOn
    /\ UNCHANGED <<version, slipped, faults>>

\* commit() fails: refused, or without a connection, or committed but not answered.
CommitFails ==
    /\ Committing
    /\ \/ /\ conn = "open" /\ refusals < MaxRefusals
          /\ RolledBack
          /\ refusals' = refusals + 1
          /\ UNCHANGED <<conn, losses>>
       \/ /\ conn # "open"
          /\ conn' = "lost"
          /\ UNCHANGED <<server, torn, faults>>
       \/ /\ conn = "open" /\ losses < MaxLosses
          /\ Committed
          /\ conn' = "lost" /\ losses' = losses + 1
          /\ UNCHANGED refusals
    /\ owner' = Unlocked
    /\ IF Statement.checked THEN Return(FALSE) ELSE GoOn
    /\ UNCHANGED <<version, slipped>>

\* ~DBTransaction(): rollback(), also when BEGIN failed and the lock was not taken.
Rollback ==
    /\ undoing
    /\ RolledBack
    /\ conn' = IF conn = "dropped" THEN "lost" ELSE conn
    /\ owner' = Unlocked
    /\ Return(FALSE)
    /\ UNCHANGED <<version, slipped, faults>>

-----------------------------------------------------------------------------
(* The network thread: queries of onRecvFirstMessage, all of them SELECTs *)

NetworkLocks ==
    /\ owner = "nobody"
    /\ owner' = "network"
    /\ UNCHANGED <<server, conn, version, call, history, faults>>

NetworkSelects ==
    /\ owner = "network" /\ conn = "open"
    /\ owner' = "nobody"
    /\ UNCHANGED <<server, conn, version, call, history, faults>>

-----------------------------------------------------------------------------

Dispatcher ==
    ExecuteQuery \/ QueryRefused \/ TakeLock \/ CommitTransaction \/ CommitFails \/ Rollback

Next ==
    \/ \E j \in DOMAIN FirstUnit : StartJob(j)
    \/ Dispatcher
    \/ AnswerLost \/ ConnectionLost \/ Reconnect
    \/ NetworkLocks \/ NetworkSelects

\* The threads go on, and the database server comes back.
Fairness == WF_vars(Dispatcher) /\ WF_vars(NetworkSelects) /\ WF_vars(Reconnect)

Spec == Init /\ [][Next]_vars /\ Fairness

-----------------------------------------------------------------------------

\* The values the variables take: the statement that is next is one of the procedure that runs.
TypeOK ==
    /\ rows \in [Tables -> [Versions -> Nat]]
    /\ view \in [Tables -> [Versions -> Nat]]
    /\ inTx \in BOOLEAN /\ undoing \in BOOLEAN /\ slipped \in BOOLEAN
    /\ conn \in {"open", "lost", "dropped"}
    /\ owner \in {"nobody", "dispatcher", "network"}
    /\ version \in Versions
    /\ \/ job = "none" /\ unit = "none" /\ at = 0 /\ tries = 0
       \/ job \in DOMAIN FirstUnit /\ unit \in Units
          /\ at \in 1..Len(Program[unit]) /\ tries \in 1..3
    /\ torn \subseteq Units
    /\ reported \in [Units -> Versions]
    /\ losses \in 0..MaxLosses /\ refusals \in 0..MaxRefusals

\* The tables that a procedure writes in one transaction.
Written == [savePlayer     |-> {"players", "player_items", "player_inboxitems"},
            saveHouseInfo  |-> {"houses", "house_lists"},
            saveHouseItems |-> {"tile_store"}]

\* A player, the houses and their items are stored whole: the tables a procedure writes hold
\* one and the same version, no older than the one it last returned true for, and a transfer
\* is paid exactly when it is received; through every refused statement, failed commit and
\* lost answer.  The exception is what the code lets through: a statement sent again
\* after its transaction was lost (executeQuery), or an ignored failure; and the next save
\* that has neither mends it.
StoredIsWhole ==
    /\ \A u \in Rewriting \ torn :
          \E v \in Versions : v >= reported[u] /\ \A t \in Written[u] : rows[t] = Only(v)
    /\ "coinTransfer" \notin torn => rows["paid"] = rows["received"]

\* Nobody but the dispatcher sees what is not committed: while there is something to roll back
\* the dispatcher holds databaseLock, which beginTransaction takes after BEGIN, so that no query
\* of the network thread, on the same connection, can fall in between.
UncommittedIsLocked == view # rows => owner = "dispatcher"

\* Whoever holds databaseLock gives it back, whichever way a transaction ends (commit,
\* rollback, their failures, the return after a refused statement) and however often a
\* statement is sent again, as long as the database server comes back.
LockIsReleased == owner # "nobody" ~> owner = "nobody"
=============================================================================
