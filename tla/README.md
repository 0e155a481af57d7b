# TLA+ models of OTServBR-Global

A verification development for the game server in `src/`: TLA+ modules for the parts of the
server where order matters, TLC runs on small instances, and TLAPS proofs of the invariants
of its core for every size. File and line numbers below are relative to the repository root
(`src/tasks.cpp:76`); `PROJECT.json` maps every definition to the lines it models.

    tlc -config MCDispatcher.cfg MCDispatcher      # any run
    tlapm SchedulerProofs.tla                      # any proof module

## 1. The system

The server is one process with four threads.

| thread | code | what it does |
| --- | --- | --- |
| main, network | `src/otserv.cpp`, `server.cpp`, `connection.cpp`, `signals.cpp` | runs `io_service`: accepts connections, reads and writes, times out, handles signals; at the end joins the others |
| dispatcher | `src/tasks.cpp` | runs the game: every task is a closure that changes the world, and tasks run one at a time |
| scheduler | `src/scheduler.cpp` | keeps timed events and hands each, when due, to the *front* of the dispatcher's list |
| database | `src/databasetasks.cpp` | runs queries in the background and posts their callbacks to the dispatcher |

How they interact:

- Network handlers do not touch the world; they post tasks (`addGameTask`, `release`, `login`).
  The exceptions are flags and pointers that they read without a lock.
- The dispatcher adds and stops events, and submits queries. The scheduler and database
  threads call back only by posting tasks.
- SIGINT posts a task; `Game::setGameState(GAME_STATE_SHUTDOWN)` kicks the players,
  posts `Game::shutdown` and then stops the three queues (`stop`: nothing new is accepted);
  `Game::shutdown`
  shuts scheduler, database queue and dispatcher down (`shutdown`: the threads end), stops the
  services, and lets `main()` join the threads.

### Inventory

| component | state | operations | hard because | correct when |
| --- | --- | --- | --- | --- |
| Dispatcher | task list, thread state, signal | addTask (front/back), threadMain, stop, shutdown | signal decided under the lock, sent after it; wait without a predicate; expiring tasks | one owner per task, no lost wakeup, order of service, nothing lost at shutdown |
| Scheduler | heap of events, set of live ids, last id | addEvent, stopEvent, threadMain, stop, shutdown | pops after a timed wait something else than it waited for; ids wrap; ids are read after unlocking | never early, stopped never fires, ids exact, everything pending fires |
| Database queue | list of queries | addTask, threadMain, flush, stop, shutdown | two threads take from one list | each accepted query executed once |
| Shutdown | the thread states, where `main()` is | SIGINT, setGameState, Game::shutdown, join | three queues closed from inside a task of one of them | nothing accepted is lost; `main()` returns |
| Sessions | connection, protocol, player pointers, reference counts | accept, read, write, close, login, connect, release, logout, kick, death, cleanup | three objects with three lifetimes, on two threads, with tasks in between | pointers mutual, counts exact, no clone, no leak |
| Login queue | two lists with timeouts | clientLogin | unsigned times, list sizes, retries in any order | wait once, be let in in order, be forgotten in time |
| Party | leader, members, invitations, ticks, shared-experience flags | invite, join, revoke, pass leadership, leave, disband, share, logout | every fact kept twice; `delete this` inside nested calls | both copies agree; caches are fresh |
| Trade | state, partner and item per player, `Game::tradeItems` | request, accept, close, exchange, move item, logout | nothing is locked; notifications must close the trade | partners agree, offers are as shown, both or neither |
| Market | offers in the database, bank, pocket, depot, inbox, expiry queries | enter, leave, create, cancel, accept, check, select, process expired | rows selected on another thread are applied later; 32 bit totals; ignored failures | money and goods conserved, no offer settled twice, overdue offers end |
| Creatures | status, position, counted and uncounted references, check list, spawn | place, move, attack, follow, summon, think, die, remove, clean up, spawn | handlers remove and delete others in the middle of each other; sleeping monsters are not checked at all | counts exact, pointers live, who matters is awake, the dying are buried, spawns go on |
| Database connection | what is committed, the open transaction, the lock, the statement under way | executeQuery, storeQuery, begin, commit, rollback; the procedures that save | lost connections, statements sent again, results ignored, BEGIN outside the lock, two threads | stored whole or not at all, nothing uncommitted visible, lock given back |
| Decay, chat | see section 7 | | releases delayed by buckets; channels keyed by addresses | planned |
| Map, items, combat, houses, scripts, loading, store, configuration | | | sequential on the dispatcher thread, mostly data | not modelled (section 6) |

`PROJECT.json` lists all components and, under `hazards`, the places where the code can go
wrong in ways that a test hardly reaches, each with the properties that would catch it.

## 2. Modules

    TaskQueue  <--implements--  Dispatcher --+
                                Scheduler  --+--> Server
                            DatabaseTasks  --+
    proofs: DispatcherThreadProofs (Dispatcher and Creatures)  SchedulerProofs
            ServerProofs (with DatabaseTasks)  SessionProofs (with WaitingList)
            TradeProofs  PartyProofs  MarketProofs  DatabaseProofs

    on their own: Session  WaitingList  Party  Trade  Market  Creatures  Database

`MCx.tla` extends `x` with what a run needs (symmetry sets, starting amounts); `MCx*.cfg` gives
constants their values. No configuration replaces a definition. Type invariants
that are in no run (`TypeOK`, `WaitingTypeOK`) are theorems.

**Dispatcher** (`src/tasks.cpp`). `taskList`, `threadState` and `pc` (where `threadMain` is);
`signalling` is the set of callers between `unlock()` and `notify_one()`; `fate` is a history of
each task (new, queued, taken, running, executed, expired, rejected), which is what ownership
is said about. One action per critical section or per unlocked step: `AddTask`, `NotifyOne`,
`TestState`, `Wait`, `TakeTask`, `DeleteExpired`, `BeginTask`, `FinishTask`, `Stop`, `Shutdown`,
and `SpuriousWakeup`, which condition variables allow. The cycle counter is left out.

**TaskQueue** is what the dispatcher promises, without thread, lock or signal: two queues, the
urgent one last-in-first-out (that is what pushing to the front does), the ordinary one in
order, a final item that ends the service, and fairness. `Dispatcher!Queue` is the refinement
mapping: `Urgent` is the longest prefix of `taskList` with the scheduler's tasks only, `Ordinary`
the rest, `Served` comes from `fate`, `Phase` from `pc` and `threadState`. A scheduler task behind
an ordinary one would have no place in it.

**Scheduler** (`src/scheduler.cpp`). `eventList`, `eventIds`, `lastEventId` (wrapping at
`MaxEventId`, any initial value), `cycle` (due time), `now`. `addEvent` is three steps (locked
part, notify, reading the id of an object that others may have deleted); `threadMain` tests,
waits until a deadline, pops the top, hands over. `shutdown` is three steps. Due times are
those in `Cycles`; the clock is monotone.

**DatabaseTasks** (`src/databasetasks.cpp`). Two executors, the thread and `flush()` on the
dispatcher thread, each holding at most one query; `accepted` and `executed` are histories.

**Server** composes the three by INSTANCE: a step that belongs to two queues is the conjunction
of their actions (`D!AddTask /\ S!HandOver`, for instance), and what a queue leaves to its
environment is decided by `main()` and the tasks of the shutdown.

**Session** (`src/connection.cpp`, `protocolgame.cpp`, `game.cpp`). Per connection: state,
socket, pending read and write handlers (these keep the object alive: `Expired` is when a weak
pointer no longer locks), the protocol's player, the id given to the scheduled `connect()`. Per
`Player` address: name, client, reference counter; addresses are reused, `Gone` is the id of a
deleted player. The dispatcher's list appears as `tasks`, with the three kinds that matter. A
login has the outcomes refused, loaded but left unplaced (`stuck`), placed; connects, replaces
or refuses if the character is in the game.

**WaitingList** (`src/waitlist.cpp`). Two lists of entries with the time that is left; the
unsigned comparison of `cleanupList` at `Width` bits; `skew` is how far the size fields are off
after an entry of one list is erased through the other.

**Party** (`src/party.cpp`). The fields of Player and Party as one record, handlers as functions
on it, so that they call each other in the order of the code. Levels, positions and the age
of ticks are one Boolean, `fit`, chosen anew at every recomputation.

**Trade** (the trade handlers of `src/game.cpp`, the notifications of `src/player.cpp`). `place` is the parent of every item
and `Around` the containers it is in, at any depth; `shown` is a history of what was in the offered container. `PlayerMoveItem` includes the
notifications that close trades. Distances, capacity and slots are left out, so a move or an
exchange may fail whenever it could.

**Market** (`src/game.cpp:5479-5913`, `src/iomarket.cpp`). The table `market_offers` by id, the bank
(which is `players.balance` for who is offline), the pocket, the depot and the account's coins, the
inbox. Handlers are one step each, with the outcome `ok` of the statements whose result they
ignore. The expiry is four: the scheduler submits a query, the database thread selects, the
callback takes the rows, and each row is processed by what it was *when selected*. Totals wrap
at `PriceBits` where the code multiplies 32 bit numbers and do not where it widens first. `settled`
and `fees` are histories; so is `anomalies`, the set of things the code lets through that break
the accounts (a wrapped total, a double charge of `removeMoney`, a stale refund, an ignored failure).
The invariants say that there is no fifth way.

**Creatures** (`src/creature.cpp`, `monster.cpp`, `spawn.cpp`, parts of `game.cpp` and `map.cpp`). One
record `w` with what Creature, Monster, Spawn and Game keep; every handler is a function on it, so
`removeCreature` calls the spectators' `onRemoveCreature`, which may put to sleep, unsummon, release
and delete. Reference counts are explicit and the last decrement deletes (`Deleted`, with what
`~Monster` and `~Creature` do). A destructor lets go of others, whose counters may come to 0 in turn:
what is deleted is `Garbage`, the *least* set of objects that contains whoever is held by its
members only. A removal removes the summons and theirs (`RemoveSummon`, `RemoveAlone`), and there it
ends, because the master of a master is a player (`PointersAreLive`). So nothing in the module is recursive. Addresses are reused. `before` says which monsters are told of a
removal ahead of the creature itself: the code takes them from a hash set, and what a spectator
concludes depends on it. Where the order does not matter to the lists it is fixed (`InTurn`, a fold; `InOrder` puts those of
`before` first).
Conditions, invisibility, parties, path finding and the scripts of single monsters are left out;
whether a monster can be placed, changes its target, summons or is out of its time is a choice.
No script of the repository calls `Creature:removeSummon`, which is why it is no action.

**Database** (`src/database.cpp`, `database.h`; `iologindata.cpp`, `iomapserialize.cpp`, `Map::save` and
`playerCoinTransfer` as the procedures that write). A procedure is a sequence of statements with
a flag that says whether the code looks at the result; the dispatcher walks through it. `rows` is what
is committed, `view` what the connection sees, `inTx` whether the *server* has a transaction open,
which the code does not know. A table holds, per version of the game's state, how many copies of
its rows of that version there are; that makes old rows, new rows and both in one table different
things (`player_items` has no unique key, `player_inboxitems` has one). What MySQL and its client
library do is external and modelled from how the code uses them:

- With `MYSQL_OPT_RECONNECT` a statement that meets a lost connection fails once and the loop of
  `executeQuery` sends it again; the transaction is not begun again, so the rest of it is committed
  statement by statement. A commit after a lost transaction fails once in the library, unless a
  statement has already made it connect again.
- The answer to a statement that was executed can be lost; it is then executed twice.
- `rollback()` in the destructor also runs after a failed BEGIN, without the lock; unlocking a lock
  that another thread holds is undefined and has no effect with the library in use.

Asynchronous queries have a connection of their own (DatabaseTasks) and are not in this module.

## 3. Runs

| run | checks | on | shows |
| --- | --- | --- | --- |
| `dispatcher` | `TypeOK` `OneOwner` `NoLostWakeup` `ImplementsTaskQueue` | 2 callers and the dispatcher itself; 2 ordinary, 1 expiring, 2 scheduler tasks | the signal outside the lock loses no wakeup; service order, draining and liveness as in TaskQueue |
| `scheduler` | `EventIdsExact` `StoppedNeverFires` `NeverEarly` `DispatcherReadsLiveEvent` `PendingFires` | 2 callers, 2 events, ids wrap at 2, time to 2 | popping after the wait is harmless; the id read after unlocking is safe when the dispatcher adds the event |
| `database_tasks` | `ExactlyOnce` `OvertakesOnlyTaken` `AcceptedIsExecuted` | 2 callers, 3 queries | flush and thread never run a query twice; only a query already taken can be overtaken |
| `server` | `NothingLostAtExit` `OnlySleepersBlockExit` | 1 event, 1 query, SIGINT | nothing accepted is lost; the one way not to exit is the sleeping thread below |
| `party` | `MembershipAgrees` `InvitationsAgree` `SharingNeedsEverybody` | 4 players, 2 addresses | the two copies agree, and name only players who are online, through nested disbands and reuse |
| `trade` | `PartnersAgree` `NothingOfferedTwice` `OfferIsAsShown` `BothOrNeither` | 4 players, 2 bags, 2 other items | every move that changes an offer closes it |
| `waiting_list` | `RefusedMayComeBack` `RoomForThoseBefore` | 4 clients and a gamemaster, 2 places | no client waits twice or is let in over those before it |
| `session` | `TypeOK` `ReferencesExact` `ClientIsMutual` `NoClones` `AutosendForgets` | 3 connections, 1 character, 3 objects | takeover, release, logout and cleanup commute as far as ownership goes |
| `session_leak` | `PlayerNotLeaked` (violated) | as `session` | see below |
| `market` | `MoneyIsConserved` `GoodsAreConserved` `OfferSettledOnce` `OverdueOffersEnd` | 2 players, 2 offers, 2 expiry queries, 1 refused statement | money and goods change only in the four ways listed under `anomalies`; a stale refund exceeds an offer by no more than what was accepted since |
| `creatures` | `ReferencesExact` `PointersAreLive` `AwakeInSight` `SpawnLooksAfter` `DyingIsChecked` | 1 player, 2 monsters, 1 spawn, 2 places out of sight of each other | no reference is lost or dangles through removals inside removals; one exception to waking up, below |
| `database` | `StoredIsWhole` `UncommittedIsLocked` `LockIsReleased` | 2 saves, 2 lost connections, 3 refused statements | what is stored is whole unless a statement was sent again after its transaction was lost or a failure was ignored, and the next good save mends it |

### Where code and comments disagree

`session_leak` is a run in which TLC violates what a comment says: `src/protocolgame.cpp:192` takes
an expired connection as the sign that `release()` has run; a connection closed while a write is
pending has been released and is not yet expired, and its protocol then keeps the player.

The other observations made while modelling are part of what the passing properties say:

- `src/signals.cpp:97`: "SIGINT: //Shuts the server down". `Scheduler::threadMain` and
  `DatabaseTasks::threadMain` test the state *before* taking the lock and wait without a predicate;
  the one notification of `shutdown()` can fall in between, and `main()` joins a thread that sleeps
  for ever. `OnlySleepersBlockExit` says that this is the only way not to exit.
- `src/scheduler.cpp:124` says of the list that shutdown clears "this list should already be empty";
  events that are not due are regularly in it, and are deleted.
- `src/player.cpp:3656` tests a pointer that is still null, so healing a party member never counts as
  activity for shared experience; Party has no such action.
- `src/waitlist.cpp:49` compares an unsigned difference with `<= 0`; an entry is erased only in the
  very millisecond of its timeout. WaitingList models it; what remains true is
  `RefusedMayComeBack` and `RoomForThoseBefore`.
- A monster that walks too far is sent home and put to sleep (`Monster::onThink`) after it has
  looked around there, so it can sleep with a player in view; `AwakeInSight` exempts that case
  (`forgotten`) and no other.
- `Spawn::startup` starts no check when a monster finds no room: its slot stays empty until another
  monster of the spawn is removed. `SpawnLooksAfter` speaks of slots that have been filled.
- `processExpiredOffers` refunds the amount that was selected, also when a part was accepted
  since (`src/iomarket.cpp:132`); `price * amount` wraps at 32 bits in `playerCreateMarketOffer`
  (`src/game.cpp:5586`). The invariants of Market exempt these by name.
- `saveHouseInfo` ignores the result of updating the houses, `playerCoinTransfer` those of both
  updates and of the commit. `StoredIsWhole` exempts them by name (`slipped`, `torn`).

### Bounds, and why they are enough

- Dispatcher: a lost wakeup needs one caller between unlock and notify while another finds the
  list non-empty; two external callers and the dispatcher give all such orders. Two scheduler
  tasks are needed to see their order, two ordinary ones for theirs, one to expire.
- Scheduler: two events are the least for "the top changed during the wait"; with `MaxEventId = 2`
  and every initial counter the wrap, the skipped 0 and the reuse of an id all occur.
- Database queue: three queries: one with each executor, one in the list.
- Server: the SIGINT task, the event and the query's callback already post and submit as any
  game code does; another request (`Packets`) only multiplies states.
- Party: four players give a leader, a member, an invitee and an outsider; two addresses give
  a reuse while another party exists. Trade: four players give two trades at once, two bags
  give nesting. WaitingList: two places and four waiting clients give gaps in front of and
  behind a client; `MaxSkew` bounds how often an entry is erased through the wrong list; time
  is in units of five seconds, the unit of all its constants. Session: three connections give
  an owner, a taker and a second taker; `MaxTasks` bounds the tasks that wait, not how many
  there are.
- Market: two offers are the least for one player to hold one while accepting another; an amount of
  two gives a partial acceptance, two queries under way return the same row twice. Prices and
  `PriceBits = 2` are such that a total wraps and that money is paid from the pocket, from the bank and
  from both.
- Creatures: two monsters are the least for a summon of a monster, a convinced monster with a rival
  and the reuse of an address while another object points there; with two places everything comes
  into view and goes out of it. `MaxDying = 1`: one creature at a time is hit to death before it is
  buried, while deaths that follow from a death are not bounded. One player: what players do to each other goes through monsters.
- Database: two saves give old rows and new ones, two losses a loss during the repair of the first,
  three refusals use up the three tries of a logout. Losses happen between any two statements and
  after a statement was executed but before it was answered.
- Symmetry is used only in runs without liveness. In Creatures the order in which creatures take
  their turn is one that TLC fixes, so permuted states are explored in permuted orders; the code's
  order is that of a hash set, and any is one the program can take.
- `CHECK_DEADLOCK FALSE`, but in Creatures: after shutdown all threads have ended, and in the other
  models all players may be gone, and connections, offers or saves used up. The server really may stop
  there; that it does not stop earlier is said by the liveness properties.

### Fairness

Weak fairness of each thread's loop, of the notification that a caller has still to send, and
of the clock: the operating system runs every thread that can run, none holds a lock for ever.
Nothing is assumed about callers, clients or spurious wakeups. In `Server` the loop of the
dispatcher and the steps of the shutdown have strong fairness, because in between a task may
call other queues arbitrarily: it says that a task is a finite program which comes to its next
statement. Market assumes that the periodic check, the database thread and the dispatcher go on
(`checkExpiredOffers` reschedules itself), and nothing about players. Database assumes weak fairness
of the dispatcher's procedure, of the network thread's query and of `Reconnect`: the database server
comes back, without which the loop of `executeQuery` never ends and holds the lock. Party, Trade,
WaitingList, Session and Creatures state no liveness: what happens in them is chosen by players
and chance.

## 4. Proofs

All theorems hold for arbitrary constants under the assumption that the module names
(`DispatcherAssumption`, `SchedulerAssumption`, ...): null values are no members, the scheduler's
tasks do not expire, bounds are numbers, and there are at least as many event ids (2^32 in the code) as
events.

**DispatcherThreadProofs**, first part, the dispatcher's queue: `TypeCorrect`, `OwnershipHolds`, `WakeupHolds`, `PriorityHolds`, `DrainHolds`,
for any set of callers and tasks. The inductive invariant is

    Inv == TypeOK /\ OneOwner /\ NoLostWakeup /\ SchedulerTasksFirst /\ LastTaskIsLast

`SchedulerTasksFirst` (no ordinary task before one of the scheduler) and `DrainedWhenClosed` are stated by
`PriorityHolds` and `DrainHolds`; TLC checks both as part of `ImplementsTaskQueue`. `OneOwner` is needed to know that the task that is popped is nowhere else; `LastTaskIsLast` (the
task of `shutdown()` stays behind everything once `stop()` has been called, and only it
terminates the thread) is what makes `DrainedWhenClosed` an action property of the invariant.

Then `Refinement`: the dispatcher implements the safety part of TaskQueue,

    Spec => Queue!QueueInit /\ [][Queue!QueueNext]_(Queue!queueVars)

Three lemmas on lists say what `Append`, pushing to the front and `Tail` do to the two parts
(`AppendParts`, `PushParts`, `TailParts`; the last needs `SchedulerTasksFirst` once no urgent task is
left). One lemma per visible action then maps it: `AddTask` to `Submit` or nothing, `Shutdown` to
`SubmitFinal`, `TakeTask` to `Serve`, `BeginTask` of the last task to `End`, `Stop` to `Close` or nothing;
the rest is invisible. Besides `Inv` it takes `LastTaskEnds`: once the last task is taken nothing is
taken any more, because `BeginTask` terminates the thread before its loop tests the state again.
The fairness half of `ImplementsTaskQueue` stays with TLC.

Second part, what lives on that thread: all that TLC checks of creatures, for any finite numbers
of players, monsters and slots of the spawn, any places and bounds. `CountersExact` (`ReferencesExact`),
`PointersAlwaysLive` (`PointersAreLive`), `NobodyPassesAsleep` (`AwakeInSight`), `SpawnAlwaysLooksAfter`
(`SpawnLooksAfter`), `DyingAlwaysChecked` (`DyingIsChecked`) and `CreaturesTyped` follow from `AlwaysBound`:

    Bound(w) == Core(w) /\ Orderly(w) /\ SpawnWatched(w)

`Bound` was first checked by TLC on the instance of the run `creatures`. It holds between two tasks of
the dispatcher and not inside them: while spectators hear of a removal, one by one, some still point to
what has gone, and a monster that lost its master does not yet know whom it sees. So the proof is
about the handlers, which are functions on the state, in this form:

- `Core(v)` holds all the time, also in the middle of handlers: types, counters, masters and summons agree,
  the master of a master is a player, masters are alive as objects, whoever is checked is in the world, and an
  object whose counter is 0 is deleted. No handler can be understood without it.
- `Keeps(v, u, X, Y)` is what a handler that leads from `v` to `u` promises of the rest: who is
  safe to point to stays so, who knows whom it sees goes on to, who must be checked is. The monsters of `Y` may
  have got another master, and the monsters of the pairs in `X` need not know the player of the pair any
  more; these are the exceptions that the caller has to make up for. Such promises compose (`KeepsOn`, `MildThen`).
- There is a lemma `...Sound` for each handler that says so of it, in the order in which they call each
  other: counters and lists, falling asleep and waking up, looking around (`UpdateTargetListSound`), attacking and
  following, masters (`SetMasterSound`), death, `RemoveCreatureSound`, `MoveCreatureSound`, `PlaceCreatureSound`; then
  one `...Keeps` or `...Bound` for each action and each stage of `checkCreatures`, where the exceptions end up empty.
- `SweptSound`: deleting garbage. The garbage is the least closed set, so each member is held by
  members only, and whoever else is in the world has a reference from outside; deleting therefore leaves
  every remaining counter exact and no summon with a master that is gone.
- `SpawnWatched` is stronger than `SpawnLooksAfter`: a slot holds one monster at most, and a slot whose monster
  is on its way has none yet and a check scheduled. `Spawn::cleanup` and `checkSpawn` rely on that.
- Where the code tells spectators in the order of a hash set, the model folds over a set. The library's
  induction theorems cannot be instantiated here (they are about an operator), but a fold can be
  reasoned about without: if some set had a fold that breaks an invariant, a smallest one would
  exist (`SmallestSubset`, because strict inclusion of finite sets is well-founded), and taking one
  turn away contradicts it (`TurnsKeep`). The lemmas `...Turns` apply it to each set that is told in turn.

This part and the queue share one module because they share a thread and nothing else: no action of one
reads or writes a variable of the other.

**SchedulerProofs**: `TypeCorrect`, `IdsHold` (`EventIdsExact`), `StoppedHolds` (`StoppedNeverFires`),
`EarlyHolds` (`NeverEarly`), `LiveHolds` (`DispatcherReadsLiveEvent`), for any number of callers, events,
ids and due times. To these four and `TypeOK` the inductive invariant adds

- `Window`: the age of an id, counted backwards around the wrap from `lastEventId`, is less than the number
  of events that have an id. So the next id of the wrapping counter is one that no event has. This is
  the only place that uses how many ids there are.
- `Places`: an event is in the list, in the thread's hands or out of both, as its history says.
- `WaitsForFirst`: the deadline of a wait is not before the first event in the list is due. `threadMain` pops
  whatever is on top after a timeout; with this the top is due even if it changed meanwhile.
- `Adding` and `Course`: the dispatcher is in the middle of an `addEvent` only while the scheduler runs,
  and no event that is being added is stopped. The dispatcher's read of an id after the unlock is
  safe because deleting is its own doing, and it does not delete between its own statements.

**ServerProofs**, first half: the database queue by itself:
`TypeCorrect`, `OnceHolds` (`ExactlyOnce`), `OrderHolds` (`OvertakesOnlyTaken`),
for any number of callers and queries.

    Inv == TypeOK /\ Singles /\ Suffix /\ Distinct /\ Front /\ Count

The list is a suffix of what was accepted (`Suffix`); what is in front of it is in the hands of an
executor or executed (`Front`), each executor has one query at most (`Singles`), and the numbers add up
(`Count`), so nothing is executed twice. An executor takes the first of the list, therefore an
earlier query that is not yet executed can only be with the other one.

Second half: `NothingLostHolds` (`NothingLostAtExit`), for the threads together and any packets, events,
queries and due times. `ServerSteps` is the composition: every step of the server is, seen from each
queue, one of its steps or none. Then

    ServerInv == Scheduled /\ Stored /\ Flushed /\ LastAfterFlush /\ Joined

- `Stored`: an accepted query is in the list, taken or executed. `Flushed`: the flush inside `shutdown()` is
  the last, ends with an empty list, and nothing is accepted afterwards.
- `LastAfterFlush`: the dispatcher's thread ends by the task of `Dispatcher::shutdown` only, and
  `Game::shutdown` calls that after the flush. This is the order the theorem rests on: without the guard of
  `ShutdownDispatcher` this step, and only it, has no proof.
- `Joined`: what `main()` has joined has ended. Ended threads stay so.

**SessionProofs**: `TypeCorrect`, `ReferencesHold`, `MutualHolds`, `ClonesHold`, `AutosendHolds`, for any number
of connections, characters and objects. None is inductive alone; the first four follow from

    Inv == TypeOK /\ LoginOrder /\ ClientIsMutual /\ ReferencesCounted /\ NoClones

- `LoginOrder`: a connection has at most one login in the queue, posted by its first message,
  and no player or scheduled connect before that login has run. Without it a protocol that
  gets a player could already have one, and the old player's client would point nowhere.
- `ReferencesCounted`: the counter as the sum of the client's and the game's reference. With it,
  an object whose counter reaches 0 has no client and is not in the game, so deleting it
  breaks neither `ClientIsMutual` nor `NoClones`; and with `ClientIsMutual` the holders of an object
  are its client or nobody, which turns the sum into the cardinalities of `ReferencesExact`.

`AutosendHolds` (`AutosendForgets`) follows from `Attention`, inductive on top of `Inv`: the manager keeps
exactly the open connections, and whoever is sent for has an open connection or a release that
waits. A login puts a protocol in the list long after its connection may have been closed, so
`LoginsAttended` says it of logins that wait, with the *place*: the release is behind the login.
`WatchedAppend`, `WatchedPosted` and `WatchedTail` are what appending, `close()` and taking a task do to it.

The proof has one lemma per action and lemmas for what several actions share (`close()`,
`disconnectClient()`, deleting, removing, attaching, and what appending or taking a task does to
the logins that wait).

The second part is the login queue, all that TLC checks of it and `WaitingTypeCorrect`, for any
number of clients and places: `RefusedHolds` (`RefusedMayComeBack`) and `RoomHolds`
(`RoomForThoseBefore`). That the clients, the skew and the timeouts (27 units at most) are fewer
than the values of `std::size_t` is assumed (`WaitingListAssumption`).

- `Thins` says that a list only lost entries since: increasing positions tell where each entry was.
  `CleanupThins` (the n-th entry that stays is the one of rank n, `Ranks`), `RemoveThins`, `JoinThins` (two
  lists, one behind the other) and `ThinsAgain` carry it from `cleanupList` and `erase` to the whole queue.
- `WaitingInv`: no client has two entries (`OneEntry`), no timeout is longer than 27 (so one that has not
  run out does not look expired modulo 2^`Width`), nobody waits at a server without a limit, and whoever
  was refused has an entry that outlasts the time of its slot (`Found`). Entries only move up and
  `GetTime` grows with the slot, so this survives what the others do.
- `SizesTogether`: one list's size is as much too large as the other's is too small, and modulo 2^`Width` their
  sum is right. So an ordinary client is told the time of its true slot; a premium one may be
  told a longer one, never a shorter one.
- `RoomStep`: those who were before the client that is let in, and still wait, are as many as the slots
  before it at most, because their entries stayed in order and each has one.

**TradeProofs**: all that TLC checks of trades, for any number of players and items and containers
in containers at any depth: `AgreementHolds` (`PartnersAgree`), `OfferedOnce` (`NothingOfferedTwice`), `ShownIsKept`
(`OfferIsAsShown`), `NothingForNothing` (`BothOrNeither`) and `TypeCorrect`. In two halves:

- `Inv` is about the handlers alone. It needs `OfferedAfterRequest`: a player that has nothing to
  do with a trade or has only to acknowledge one has no item in it, so a request never overwrites
  an item that stays in `Game::tradeItems`. Its heart is `ResetKeeps`: resetting a set of players
  that contains the partner of each leaves every other trade whole. It covers closing, moving,
  exchanging, failing and leaving, because `internalCloseTrade` always closes both sides.
- `Placed /\ Offers` is about where items are. `Around` is the *least* set of containers that holds the
  item and its own members, so what is around an item can be bounded (`AroundLeast`) without an
  induction over the nesting, and the outermost place is unique (`OneRoot`). `Moves` is a move into
  something that is not in the moved item; `MovesAcyclic` says it leaves no item in itself,
  `ContentsKept` that an item keeps what it holds and what holds it unless the move is one that
  `Disturbed` notices. So every offer that a move leaves standing is untouched (`OffersKept`). The
  exchange is two moves; that neither item is around the other's destination (`DestinationOutside`)
  makes the second one a move too. For `BothOrNeither`: who moves the offered item has the outermost
  place in reach, so it is the owner, and an owner cannot reach into the partner's
  inventory (`GivenMoved`); the exchange gives both (`ExchangeGives`), and no other trade's items
  move with it, because nothing is offered twice.

**PartyProofs**: `TypeCorrect`, `MembershipHolds`, `InvitationsHold`, `SharingHolds`: all that TLC checks of
parties, for any number of players and parties. The handlers are functions on records, so the proof is about
the functions and the steps follow:

    Inv == online \subseteq Players /\ Sound(game, online) /\ Populated(game, Parties)

- `Sound` says of each party alone that its lists, the players' pointers and its shared experience agree and
  that an unallocated one is empty. Inside a handler it may fail for one party, and the lemmas say
  for which: `Reshared` is what recomputing the shared experience of one party may change,
  `Disbanded` what disbanding several changes, `Withdrawn` what withdrawing invitations changes.
- `DisbandedSound` is where the order of the calls counts: a party may be disbanded although it does not
  agree with its players, as long as those in it have no other party and those who remember its
  invitation are in its list. `LeaveSound` and `ClearSound` establish that in the middle of
  `leaveParty` and `clearPartyInvitations`.
- `RemoveSound`: after both, a player that logs out is in no list, so that leaving the game keeps `Sound`.

Lemmas on lists (`RemoveFirstElement`, `PrependElement`, `AppendElement`) say what erasing, pushing to the front
and to the back do to a list without repetition.

**MarketProofs**: all invariants that TLC checks of the market, for any finite set of players and any number of
offers, amounts, prices, queries and failures: `SettledHolds` (`OfferSettledOnce`), `GoodsHold`
(`GoodsAreConserved`), `MoneyHolds` (`MoneyIsConserved`) and `TypeCorrect`.

- A sum is the number of its units (`Sum`, a cardinality), so that replacing one term changes it by the
  difference (`SumUpdate`), without an induction over the players. For this the set of players is
  assumed to be finite.
- `Inv == Typed /\ Counted /\ Pending`. `Pending` says of every row that an expiry query returned,
  however long ago, that it follows its offer (`Follows`): the offer may have ended or been reduced since,
  but kept what it is, and no id is given out twice. `TableStep` is what every
  handler does to the table, and with it a row that follows goes on to (`FollowsLater`). The type invariant is
  not inductive without it, because what is returned is computed from the old row.
- `Settled` is inductive on top of it and gives `OfferSettledOnce`: the accounts of each offer, with
  what is left of it, and nothing of a living offer returned unless a failure was ignored.
- `GoodsBalance` and `MoneyBalance` say when a step is balanced: what the players lose the one
  offer that the step touches gains, or the other way round. There is one lemma per handler. That
  `removeMoney` may charge twice is why money is only bounded from above once it did (`MoneyCharged`).

**DatabaseProofs**: `TypeCorrect`, `Locked` (`UncommittedIsLocked`) and `Whole` (`StoredIsWhole`), for
any number of saves, lost connections and refused statements. The procedures are given, so the
proof first states their shape once (`Shapes`, `StatementFits`): where each begins, locks and
commits, that only the tables of its transaction are written in between, each emptied before rows
are inserted, and that those that rewrite tables look at the result of their last statement and of
the commit. Every later lemma argues about the place in the procedure only. Two invariants:

    Inv  == TypeOK /\ Position /\ Hidden
    Rest == Elsewhere /\ Rewritten /\ Transferring /\ Dropped /\ Fresh /\ StoredIsWhole

- `Position`: the dispatcher has the lock exactly between the lock and the commit of the procedure
  that runs, or until its rollback; the server may have a transaction open from BEGIN on, and only
  while the connection is open. `Hidden` (what is not committed is in a transaction, under the
  lock) is not inductive without it, because BEGIN comes before the lock.
- `Rewritten` and `Transferring`: what a transaction that has gone well so far has made of its
  tables, by the place in the procedure. `Elsewhere`: it has touched no others, so a commit
  leaves the rest as whole as it was.
- `Dropped`: a rewriting procedure that arrives at its commit without its transaction, and has not
  torn its tables, finds the client library still to fail once. So no commit reports the success
  of nothing. This is where it matters that the last statement before the commit is checked.

## 5. Only model-checked

Liveness (`PendingFires`, `AcceptedIsExecuted`, `OnlySleepersBlockExit`, `OverdueOffersEnd`,
`LockIsReleased`, the fairness half of `ImplementsTaskQueue`) is beyond the prover.
All invariants and action properties that the passing runs check are proved.

Two ways of stating things keep the models within the prover's reach, which loses its SMT backend in a
module with RECURSIVE operators: what the code does recursively is a least set where the order makes no
difference (containers in containers, garbage), and what it does in a loop over a set is a fold, about
which a smallest counterexample proves what an induction would.

## 6. What the models leave out

- Session makes a network handler one step. `parsePacket` reads `player` without a lock while
  the dispatcher may assign it; that race needs a finer model. The shutdown of the services
  (`closeAll`, which closes sockets without the lock of the connection) and the buffers of
  OutputMessagePool (whose autosend chain can be started twice) are not composed with sessions.
- When a player may log out, be placed, move or trade an item is nondeterministic; so the flag
  `isConnecting`, which keeps a player from logging out and is not reset when `connect()` gives up,
  is not in Session.
- Start-up (`mainLoader`) is not modelled: Init is a server in service.
- Chat: `disband` and `leaveParty` clear the party of a player before `sendClosePrivate` looks for the
  channel of that party, so the player stays in the channel, which is keyed by the address of the
  party. Nothing in the repository says who should be in it; it is listed as a hazard without a
  property.
- Database: what a row holds, the size of a packet, players whose `save` column is 0, and queries on
  the database thread's own connection. A table is filled by one INSERT.
- Market: browsing, statistics and the exhaustion timer; the coins a player carries are one stack.
- Messages, encodings and cryptography keep no state that outlives a packet. Map, pathfinding,
  combat, conditions, houses, store and scripts run sequentially in single tasks, on data: a fifth
  of the code is the Lua binding, most of the rest is formulas, formats and messages. Modelling
  them would repeat the code and not ask a question of it; the component list gives the reason
  for each.

## 7. Plan

Done: the queues, their composition, sessions, login queue, party, trade, market, creatures, the
database connection; proofs of Dispatcher (with its refinement), Scheduler, DatabaseTasks, Server,
Session, WaitingList, Trade, Party, Market, Database and Creatures.
Next to model, in this order:

1. **Decay** (`src/game.cpp:4706-4817`, `5001-5029`): buckets, reference counts of items, cleanup.
2. OutputMessagePool in Session (autosend chains), and the shutdown of the services.
3. Chat channels of parties and guilds, with Party.

New properties should take the place of plain ones where a deeper one covers the same lines.
