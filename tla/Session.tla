------------------------------- MODULE Session -------------------------------
(***************************************************************************)
(* Game sessions: the life of a connection (src/connection.cpp, network    *)
(* thread), of its protocol (src/protocolgame.cpp, dispatcher thread) and  *)
(* of the Player object that a protocol holds (src/protocolgame.cpp and    *)
(* src/game.cpp).  The three have different lifetimes: a connection lives  *)
(* as long as a handler of it is pending, a protocol is released by a      *)
(* dispatcher task that Connection::close posts, and a player is counted   *)
(* by reference and may change hands between protocols when its character  *)
(* logs in a second time.                                                  *)
(***************************************************************************)
EXTENDS Naturals, FiniteSets, Sequences

CONSTANTS Connections,    \* each with its ProtocolGame
          Names,          \* characters
          Objects,        \* addresses at which a Player can be allocated
          NoConnection, NoObject, NoName,   \* nullptr, and no character
          Gone,           \* the id of a Player that has been deleted
          MaxTasks        \* bound on the dispatcher tasks that wait

ASSUME SessionAssumption ==
    /\ NoConnection \notin Connections /\ NoObject \notin Objects /\ NoName \notin Names
    /\ Gone \notin Objects \cup {NoObject}
    /\ MaxTasks \in Nat

VARIABLES state,          \* Connection::connectionState
          socketOpen,
          reading,        \* a read handler of the connection is pending
          writing,        \* messageQueue is not empty: a write handler is pending
          managed,        \* ConnectionManager::connections
          received,       \* Connection::receivedFirst
          tasks,          \* dispatcher tasks of these protocols, in order
          eventConnect,   \* the player id that the scheduled connect() was given
          player,         \* ProtocolGame::player
          autosend,       \* OutputMessagePool::bufferedProtocols
          name,           \* of each allocated Player
          client,         \* Player::client
          references,     \* Creature::referenceCounter
          inGame,         \* players that getPlayerByName and getPlayerByID find
          toRelease       \* Game::ToReleaseCreatures

network == <<state, socketOpen, reading, writing, managed, received>>
objects == <<name, client, references, inGame, toRelease>>
vars == <<network, tasks, eventConnect, player, autosend, objects>>

Tasks == [kind : {"login"}, of : Connections, name : Names]
             \cup [kind : {"release", "logout"}, of : Connections, name : {NoName}]

Init ==
    /\ state = [c \in Connections |-> "pending"]
    /\ socketOpen = [c \in Connections |-> FALSE]
    /\ reading = [c \in Connections |-> FALSE]
    /\ writing = [c \in Connections |-> FALSE]
    /\ managed = {}
    /\ received = [c \in Connections |-> FALSE]
    /\ tasks = <<>>
    /\ eventConnect = [c \in Connections |-> NoObject]
    /\ player = [c \in Connections |-> NoObject]
    /\ autosend = {}
    /\ name = [o \in Objects |-> NoName]
    /\ client = [o \in Objects |-> NoConnection]
    /\ references = [o \in Objects |-> 0]
    /\ inGame = {}
    /\ toRelease = {}

-----------------------------------------------------------------------------

\* A weak pointer to the connection has expired: neither the manager nor a
\* pending handler holds it.
Expired(c) == c \notin managed /\ ~reading[c] /\ ~writing[c]

ReleaseTask(c) == [kind |-> "release", of |-> c, name |-> NoName]

\* Connection::close() of the connection in cs, if there is one.
\* When sent is true a message was queued just before.
Closing(cs, force, sent) ==
    /\ managed' = managed \ cs
    /\ state' = [c \in Connections |-> IF c \in cs THEN "disconnected" ELSE state[c]]
    /\ socketOpen' = [c \in Connections |->
                         socketOpen[c] /\ (c \in cs => (writing[c] \/ sent) /\ ~force)]

Mut_Posted(queue, cs) ==
    [i \in 1 .. Cardinality(cs) |-> ReleaseTask(CHOOSE c \in cs : TRUE)] \o queue

\* The release task that close() posts, behind the tasks that wait.
Posted(queue, cs) ==
    IF cs = {} THEN queue ELSE Append(queue, ReleaseTask(CHOOSE c \in cs : TRUE))

\* Protocol::disconnect() of the protocol c, by the dispatcher.
Reachable(c) == IF c \in Connections /\ ~Expired(c) THEN {c} ELSE {}

\* ServicePort::onAccept with Connection::accept: the first read is started.
Accept(c) ==
    /\ state[c] = "pending"
    /\ state' = [state EXCEPT ![c] = "open"]
    /\ socketOpen' = [socketOpen EXCEPT ![c] = TRUE]
    /\ reading' = [reading EXCEPT ![c] = TRUE]
    /\ managed' = managed \cup {c}
    /\ UNCHANGED <<writing, received, tasks, eventConnect, player, autosend, objects>>

\* parsePacket(), the first packet: onRecvFirstMessage refuses the client, or posts the
\* login; the next read is started in both cases.
RecvFirstMessage(c, n) ==
    /\ reading[c] /\ socketOpen[c] /\ state[c] = "open" /\ ~received[c]
    /\ Len(tasks) < MaxTasks
    /\ received' = [received EXCEPT ![c] = TRUE]
    /\ tasks' = Append(tasks, [kind |-> "login", of |-> c, name |-> n])
    /\ UNCHANGED <<state, socketOpen, reading, writing, managed, eventConnect, player, autosend,
                   objects>>

RefuseFirstMessage(c) ==
    /\ reading[c] /\ socketOpen[c] /\ state[c] = "open" /\ ~received[c]
    /\ Len(tasks) < MaxTasks
    /\ received' = [received EXCEPT ![c] = TRUE]
    /\ \E sent \in BOOLEAN :
          /\ Closing({c}, FALSE, sent)
          /\ writing' = [writing EXCEPT ![c] = @ \/ sent]
    /\ tasks' = Posted(tasks, {c})
    /\ UNCHANGED <<reading, eventConnect, player, autosend, objects>>

\* ProtocolGame::acceptPackets, of a connection that is open: login() and connect() set it
\* once the protocol has its player and is, or will be, in the autosend list.
AcceptPackets(c) == player[c] # NoObject /\ c \in autosend

\* ProtocolGame::parsePacket(), the logout packet.
RecvLogout(c) ==
    /\ reading[c] /\ socketOpen[c] /\ state[c] = "open" /\ AcceptPackets(c)
    /\ Len(tasks) < MaxTasks
    /\ tasks' = Append(tasks, [kind |-> "logout", of |-> c, name |-> NoName])
    /\ UNCHANGED <<network, eventConnect, player, autosend, objects>>

\* parsePacket(), the packet with which the client of a dead player leaves: the player has
\* been removed, or has no health left (its health is not modelled).
RecvLeave(c) ==
    /\ reading[c] /\ socketOpen[c] /\ state[c] = "open" /\ AcceptPackets(c)
    /\ Len(tasks) < MaxTasks
    /\ Closing({c}, FALSE, FALSE)
    /\ tasks' = Posted(tasks, {c})
    /\ UNCHANGED <<reading, writing, received, eventConnect, player, autosend, objects>>

\* parseHeader() or parsePacket() with an error: the peer, or closeSocket(), closed.
ReadError(c) ==
    /\ reading[c] /\ Len(tasks) < MaxTasks
    /\ reading' = [reading EXCEPT ![c] = FALSE]
    /\ Closing({c}, TRUE, FALSE)
    /\ tasks' = Posted(tasks, {c})
    /\ UNCHANGED <<writing, received, eventConnect, player, autosend, objects>>

\* parseHeader() or parsePacket() of a connection that was closed meanwhile, also when the
\* bytes had arrived before its socket was closed: no next read.
ReadAfterClose(c) ==
    /\ reading[c] /\ state[c] = "disconnected"
    /\ reading' = [reading EXCEPT ![c] = FALSE]
    /\ UNCHANGED <<state, socketOpen, writing, managed, received, tasks, eventConnect, player,
                   autosend, objects>>

\* parseHeader(): too many packets per second; no next read.
TooManyPackets(c) ==
    /\ reading[c] /\ socketOpen[c] /\ state[c] = "open" /\ Len(tasks) < MaxTasks
    /\ reading' = [reading EXCEPT ![c] = FALSE]
    /\ Closing({c}, FALSE, FALSE)
    /\ tasks' = Posted(tasks, {c})
    /\ UNCHANGED <<writing, received, eventConnect, player, autosend, objects>>

\* handleTimeout(): no byte read or written in time.
HandleTimeout(c) ==
    /\ reading[c] \/ writing[c]
    /\ socketOpen[c] /\ Len(tasks) < MaxTasks
    /\ Closing({c}, TRUE, FALSE)
    /\ tasks' = Posted(tasks, {c})
    /\ UNCHANGED <<reading, writing, received, eventConnect, player, autosend, objects>>

\* send(): anything that the game sends to a connection that is not closed.
Send(c) ==
    /\ state[c] = "open" /\ ~writing[c]
    /\ writing' = [writing EXCEPT ![c] = TRUE]
    /\ UNCHANGED <<state, socketOpen, reading, managed, received, tasks, eventConnect, player,
                   autosend, objects>>

\* onWriteOperation(), the last message: a connection closed meanwhile closes its socket,
\* unless that was done while the handler waited to run.
WriteDone(c) ==
    /\ writing[c]
    /\ writing' = [writing EXCEPT ![c] = FALSE]
    /\ socketOpen' = [socketOpen EXCEPT ![c] = @ /\ state[c] # "disconnected"]
    /\ UNCHANGED <<state, reading, managed, received, tasks, eventConnect, player, autosend,
                   objects>>

\* onWriteOperation() with an error.
WriteError(c) ==
    /\ writing[c] /\ Len(tasks) < MaxTasks
    /\ writing' = [writing EXCEPT ![c] = FALSE]
    /\ Closing({c}, TRUE, FALSE)
    /\ tasks' = Posted(tasks, {c})
    /\ UNCHANGED <<reading, received, eventConnect, player, autosend, objects>>

Network(c) ==
    \/ Accept(c) \/ RefuseFirstMessage(c) \/ RecvLogout(c) \/ RecvLeave(c) \/ ReadError(c)
    \/ ReadAfterClose(c) \/ TooManyPackets(c) \/ HandleTimeout(c) \/ Send(c)
    \/ WriteDone(c) \/ WriteError(c)
    \/ \E n \in Names : RecvFirstMessage(c, n)

-----------------------------------------------------------------------------

Mut_Counted(refs, newClient) ==
    LET dead == {o \in Objects : name[o] # NoName /\ refs[o] <= 1}
    IN  /\ references' = refs
        /\ name' = [o \in Objects |-> IF o \in dead THEN NoName ELSE name[o]]
        /\ client' = [o \in Objects |-> IF o \in dead THEN NoConnection ELSE newClient[o]]
        /\ eventConnect' = [c \in Connections |->
                               IF eventConnect[c] \in dead THEN Gone ELSE eventConnect[c]]

\* decrementReferenceCounter() deletes: the new values of the objects when the references of
\* each o have become refs[o].
Counted(refs, newClient) ==
    LET dead == {o \in Objects : name[o] # NoName /\ refs[o] = 0}
    IN  /\ references' = refs
        /\ name' = [o \in Objects |-> IF o \in dead THEN NoName ELSE name[o]]
        /\ client' = [o \in Objects |-> IF o \in dead THEN NoConnection ELSE newClient[o]]
        /\ eventConnect' = [c \in Connections |->
                               IF eventConnect[c] \in dead THEN Gone ELSE eventConnect[c]]

IsNext(kind, c) == tasks # <<>> /\ Head(tasks).kind = kind /\ Head(tasks).of = c

\* disconnectClient(): a last message, then close().
DisconnectClient(c, queue) ==
    /\ Closing(Reachable(c), FALSE, state[c] = "open")
    /\ writing' = [writing EXCEPT ![c] = @ \/ (c \in Reachable(c) /\ state[c] = "open")]
    /\ tasks' = Posted(queue, Reachable(c))
    /\ UNCHANGED <<reading, received>>

\* ProtocolGame::release(): the protocol is still its player's client.
ReleasesPlayer(c) == player[c] # NoObject /\ client[player[c]] = c

\* ProtocolGame::release().
Release(c) ==
    /\ IsNext("release", c)
    /\ tasks' = Tail(tasks)
    /\ autosend' = autosend \ {c}
    /\ IF ReleasesPlayer(c)
       THEN /\ Counted([references EXCEPT ![player[c]] = @ - 1],
                       [client EXCEPT ![player[c]] = NoConnection])
            /\ player' = [player EXCEPT ![c] = NoObject]
       ELSE UNCHANGED <<references, name, client, eventConnect, player>>
    /\ UNCHANGED <<network, inGame, toRelease>>

Mut_FoundPlayer(n) == {o \in inGame : name[o] = n /\ client[o] # NoConnection}

\* Game::getPlayerByName().
FoundPlayer(n) == {o \in inGame : name[o] = n}

\* login() of a character that is not in the game: a new Player, which is refused
\* (banned, waiting list, could not be loaded or placed), or whose prey data cannot be
\* loaded, or which is placed.
Login(c, outcome) ==
    /\ IsNext("login", c)
    /\ FoundPlayer(Head(tasks).name) = {}
    /\ \E o \in Objects :
          /\ name[o] = NoName
          /\ name' = [name EXCEPT ![o] = Head(tasks).name]
          /\ client' = [client EXCEPT ![o] = c]
          /\ player' = [player EXCEPT ![c] = o]
          /\ references' = [references EXCEPT ![o] = IF outcome = "placed" THEN 2 ELSE 1]
          /\ inGame' = IF outcome = "placed" THEN inGame \cup {o} ELSE inGame
    /\ autosend' = IF outcome = "placed" THEN autosend \cup {c} ELSE autosend
    /\ IF outcome = "refused"
       THEN DisconnectClient(c, Tail(tasks))
       ELSE tasks' = Tail(tasks) /\ UNCHANGED network
    /\ UNCHANGED <<eventConnect, toRelease>>

Mut_MayConnect(o) == o \in inGame

\* connect(): the player is in the game, without a client.
MayConnect(o) == o \in inGame /\ client[o] = NoConnection

Mut_Attach(c, o) ==
    /\ player' = [player EXCEPT ![c] = o]
    /\ client' = [client EXCEPT ![o] = c]
    /\ UNCHANGED references

\* connect(), beyond that test: nothing when the connection no longer exists.
Attach(c, o) ==
    IF Expired(c)
    THEN UNCHANGED <<player, client, references>>
    ELSE /\ player' = [player EXCEPT ![c] = o]
         /\ client' = [client EXCEPT ![o] = c]
         /\ references' = [references EXCEPT ![o] = @ + 1]

\* login() of a character in the game that has no client: connect() at once.
LoginConnects(c) ==
    /\ IsNext("login", c)
    /\ \E o \in FoundPlayer(Head(tasks).name) :
          /\ client[o] = NoConnection
          /\ Attach(c, o)
    /\ tasks' = Tail(tasks)
    /\ autosend' = autosend \cup {c}
    /\ UNCHANGED <<network, eventConnect, name, inGame, toRelease>>

\* login() of a character in the game that has a client: that client is disconnected and
\* connect() is scheduled.
LoginReplaces(c) ==
    /\ IsNext("login", c)
    /\ \E o \in FoundPlayer(Head(tasks).name) :
          /\ client[o] # NoConnection
          /\ Closing(Reachable(client[o]), FALSE, FALSE)
          /\ tasks' = Posted(Tail(tasks), Reachable(client[o]))
          /\ eventConnect' = [eventConnect EXCEPT ![c] = o]
    /\ autosend' = autosend \cup {c}
    /\ UNCHANGED <<reading, writing, received, player, objects>>

\* login() of a character in the game when REPLACE_KICK_ON_LOGIN is off.
LoginRefused(c) ==
    /\ IsNext("login", c)
    /\ FoundPlayer(Head(tasks).name) # {}
    /\ DisconnectClient(c, Tail(tasks))
    /\ UNCHANGED <<eventConnect, player, autosend, objects>>

\* The scheduled connect(), a second after login().
Connect(c) ==
    /\ eventConnect[c] # NoObject /\ Len(tasks) < MaxTasks
    /\ LET o == eventConnect[c] IN
       IF MayConnect(o)
       THEN Attach(c, o) /\ UNCHANGED <<network, tasks>>
       ELSE DisconnectClient(c, tasks) /\ UNCHANGED <<player, client, references>>
    /\ eventConnect' = [eventConnect EXCEPT ![c] = NoObject]
    /\ UNCHANGED <<autosend, name, inGame, toRelease>>

\* Game::removeCreature(): the reference of the game is given up at the next cleanup().
Removed(o) ==
    /\ inGame' = inGame \ {o}
    /\ toRelease' = IF o \in inGame THEN toRelease \cup {o} ELSE toRelease

\* logout(): nothing without a player; a player in the game may be kept there by the
\* rules about fights and places, otherwise it is removed.
Logout(c) ==
    /\ IsNext("logout", c)
    /\ \/ /\ player[c] # NoObject
          /\ Closing(Reachable(c), FALSE, FALSE)
          /\ tasks' = Posted(Tail(tasks), Reachable(c))
          /\ Removed(player[c])
       \/ /\ player[c] = NoObject \/ player[c] \in inGame
          /\ tasks' = Tail(tasks)
          /\ UNCHANGED <<state, socketOpen, managed, inGame, toRelease>>
    /\ UNCHANGED <<reading, writing, received, eventConnect, player, autosend, name, client,
                   references>>

\* Creature::onDeath(): the player is removed, its client stays.
Death(o) ==
    /\ o \in inGame
    /\ Removed(o)
    /\ UNCHANGED <<network, tasks, eventConnect, player, autosend, name, client, references>>

\* Player::kickPlayer(), or no pong for a minute.
Kick(o) ==
    /\ o \in inGame /\ Len(tasks) < MaxTasks
    /\ Closing(Reachable(client[o]), FALSE, FALSE)
    /\ tasks' = Posted(tasks, Reachable(client[o]))
    /\ Removed(o)
    /\ UNCHANGED <<reading, writing, received, eventConnect, player, autosend, name, client,
                   references>>

\* Game::cleanup().
Cleanup ==
    /\ toRelease # {}
    /\ Counted([o \in Objects |-> IF o \in toRelease THEN references[o] - 1 ELSE references[o]],
               client)
    /\ toRelease' = {}
    /\ UNCHANGED <<network, tasks, player, autosend, inGame>>

Next ==
    \/ \E c \in Connections :
          \/ Network(c)
          \/ Release(c) \/ LoginConnects(c) \/ LoginReplaces(c) \/ LoginRefused(c)
          \/ \E outcome \in {"refused", "stuck", "placed"} : Login(c, outcome)
          \/ Connect(c) \/ Logout(c)
    \/ \E o \in Objects : Kick(o) \/ Death(o)
    \/ Cleanup

Spec == Init /\ [][Next]_vars

-----------------------------------------------------------------------------

Holders(o) == {c \in Connections : player[c] = o}

\* Every variable keeps its type; an address is free exactly when nobody counts on it.
TypeOK ==
    /\ state \in [Connections -> {"pending", "open", "disconnected"}]
    /\ socketOpen \in [Connections -> BOOLEAN]
    /\ reading \in [Connections -> BOOLEAN] /\ writing \in [Connections -> BOOLEAN]
    /\ managed \subseteq Connections
    /\ received \in [Connections -> BOOLEAN]
    /\ tasks \in Seq(Tasks)
    /\ eventConnect \in [Connections -> Objects \cup {NoObject, Gone}]
    /\ player \in [Connections -> Objects \cup {NoObject}]
    /\ autosend \subseteq Connections
    /\ name \in [Objects -> Names \cup {NoName}]
    /\ client \in [Objects -> Connections \cup {NoConnection}]
    /\ references \in [Objects -> Nat]
    /\ inGame \subseteq Objects /\ toRelease \subseteq Objects
    /\ \A o \in Objects : name[o] = NoName <=> references[o] = 0

\* The reference counter of a player is the number of protocols that hold it, plus one while
\* it is in the game or waits for Game::cleanup: no protocol holds a deleted player, and
\* none is deleted twice, in whatever order release, logout, connect and cleanup run.
ReferencesExact ==
    \A o \in Objects :
        references[o] = Cardinality(Holders(o)) + Cardinality({o} \cap (inGame \cup toRelease))

\* Player::client and ProtocolGame::player point at each other or not at all, also while one
\* connection takes a player over from another: what is sent to a player reaches the
\* connection that controls it.
ClientIsMutual == \A o \in Objects, c \in Connections : client[o] = c <=> player[c] = o

\* A character is in the game at most once, however many connections log it in at a time.
NoClones == \A o, p \in inGame : name[o] = name[p] => o = p

\* OutputMessagePool sends for no protocol whose connection no longer exists and whose
\* release has run: login() may put it there after its connection was closed, and the
\* release that close() posted comes later and takes it out.
AutosendForgets ==
    \A c \in autosend : ~Expired(c) \/ \E i \in DOMAIN tasks : tasks[i] = ReleaseTask(c)

\* What connect() says it prevents ("so we return to prevent leakage of the Player"): a
\* protocol holds no player when its connection no longer exists and no release will run.
PlayerNotLeaked ==
    \A c \in Connections :
        state[c] = "disconnected" /\ player[c] # NoObject =>
            ~Expired(c) \/ \E i \in DOMAIN tasks : tasks[i] = ReleaseTask(c)
=============================================================================
