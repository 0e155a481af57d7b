--------------------------- MODULE SessionProofs ----------------------------
(***************************************************************************)
(* The invariants of sessions, for every number of connections, characters *)
(* and Player objects; and of the login queue that ProtocolGame::login     *)
(* asks before a new session, for every number of clients.                 *)
(***************************************************************************)
EXTENDS Session, WaitingList, FiniteSetTheorems, TLAPS

-----------------------------------------------------------------------------
(* The login tasks of the dispatcher's list *)

Logins(queue, c) == {i \in DOMAIN queue : queue[i].kind = "login" /\ queue[i].of = c}

Pending(queue) == {c \in Connections : Logins(queue, c) # {}}

LoginOnce(queue) == \A c \in Connections : \A i, j \in Logins(queue, c) : i = j

\* A task that is no login does not change which logins wait.
LEMMA AppendOther ==
    ASSUME NEW q \in Seq(Tasks), NEW t \in Tasks, t.kind # "login"
    PROVE  /\ Append(q, t) \in Seq(Tasks)
           /\ Pending(Append(q, t)) = Pending(q)
           /\ LoginOnce(q) => LoginOnce(Append(q, t))
<1>1. /\ Append(q, t) \in Seq(Tasks)
      /\ DOMAIN q = 1 .. Len(q) /\ DOMAIN Append(q, t) = 1 .. Len(q) + 1
      /\ Len(q) \in Nat
      /\ Append(q, t)[Len(q) + 1] = t
      /\ \A i \in 1 .. Len(q) : Append(q, t)[i] = q[i]
  OBVIOUS
<1>2. \A c \in Connections : Logins(Append(q, t), c) = Logins(q, c)
  BY <1>1 DEF Logins
<1> QED
  BY <1>1, <1>2 DEF Pending, LoginOnce

\* A login is posted once if none of the same connection waits.
LEMMA AppendLogin ==
    ASSUME NEW q \in Seq(Tasks), NEW t \in Tasks, t.kind = "login",
           t.of \notin Pending(q), LoginOnce(q)
    PROVE  /\ Append(q, t) \in Seq(Tasks)
           /\ Pending(Append(q, t)) = Pending(q) \cup {t.of}
           /\ LoginOnce(Append(q, t))
<1>1. /\ Append(q, t) \in Seq(Tasks)
      /\ DOMAIN q = 1 .. Len(q) /\ DOMAIN Append(q, t) = 1 .. Len(q) + 1
      /\ Len(q) \in Nat
      /\ Append(q, t)[Len(q) + 1] = t
      /\ \A i \in 1 .. Len(q) : Append(q, t)[i] = q[i]
  OBVIOUS
<1>2. t.of \in Connections
  BY DEF Tasks
<1>3. \A c \in Connections : c # t.of => Logins(Append(q, t), c) = Logins(q, c)
  BY <1>1 DEF Logins
<1>4. Logins(q, t.of) = {}
  BY <1>2 DEF Pending
<1>5. Logins(Append(q, t), t.of) = {Len(q) + 1}
  BY <1>1, <1>4 DEF Logins
<1>6. Pending(Append(q, t)) = Pending(q) \cup {t.of}
  <2>1. \A c \in Connections : c # t.of => (c \in Pending(Append(q, t)) <=> c \in Pending(q))
    BY <1>3 DEF Pending
  <2>2. t.of \in Pending(Append(q, t))
    BY <1>2, <1>5 DEF Pending
  <2> QED
    BY <2>1, <2>2, <1>2 DEF Pending
<1>7. LoginOnce(Append(q, t))
  <2> SUFFICES ASSUME NEW c \in Connections,
                      NEW i \in Logins(Append(q, t), c), NEW j \in Logins(Append(q, t), c)
               PROVE  i = j
    BY DEF LoginOnce
  <2> QED
    BY <1>3, <1>5 DEF LoginOnce
<1> QED
  BY <1>1, <1>6, <1>7

\* Taking the first task: no login of the connection whose login it was is left.
LEMMA TailLogins ==
    ASSUME NEW q \in Seq(Tasks), q # <<>>, LoginOnce(q)
    PROVE  /\ Tail(q) \in Seq(Tasks)
           /\ Head(q) \in Tasks
           /\ Pending(Tail(q)) \subseteq Pending(q)
           /\ LoginOnce(Tail(q))
           /\ Head(q).kind = "login" =>
                Head(q).of \in Pending(q) /\ Head(q).of \notin Pending(Tail(q))
<1>1. /\ Tail(q) \in Seq(Tasks) /\ Head(q) = q[1] /\ Head(q) \in Tasks
      /\ Len(q) \in Nat \ {0}
      /\ DOMAIN q = 1 .. Len(q) /\ DOMAIN Tail(q) = 1 .. Len(q) - 1
      /\ \A i \in 1 .. Len(q) - 1 : Tail(q)[i] = q[i + 1]
  OBVIOUS
<1>2. \A c \in Connections : \A i \in Logins(Tail(q), c) : i \in Nat \ {0} /\ i + 1 \in Logins(q, c)
  BY <1>1 DEF Logins
<1>3. Pending(Tail(q)) \subseteq Pending(q)
  BY <1>2 DEF Pending
<1>4. LoginOnce(Tail(q))
  BY <1>2 DEF LoginOnce
<1>5. ASSUME Head(q).kind = "login"
      PROVE  Head(q).of \in Pending(q) /\ Head(q).of \notin Pending(Tail(q))
  <2>1. Head(q).of \in Connections
    BY <1>1 DEF Tasks
  <2>2. 1 \in Logins(q, Head(q).of)
    BY <1>1, <1>5 DEF Logins
  <2>3. Logins(Tail(q), Head(q).of) = {}
    BY <1>2, <2>1, <2>2 DEF LoginOnce
  <2> QED
    BY <2>1, <2>2, <2>3 DEF Pending
<1> QED
  BY <1>1, <1>3, <1>4, <1>5

\* What close() posts is a release.
LEMMA PostedLogins ==
    ASSUME NEW q \in Seq(Tasks), NEW cs \in SUBSET Connections
    PROVE  /\ Posted(q, cs) \in Seq(Tasks)
           /\ Pending(Posted(q, cs)) = Pending(q)
           /\ LoginOnce(q) => LoginOnce(Posted(q, cs))
<1>1. CASE cs = {}
  BY <1>1 DEF Posted
<1>2. CASE cs # {}
  <2> DEFINE d == CHOOSE c \in cs : TRUE
  <2>1. d \in Connections
    BY <1>2
  <2>2. ReleaseTask(d) \in Tasks /\ ReleaseTask(d).kind # "login"
    BY <2>1 DEF ReleaseTask, Tasks
  <2>3. Posted(q, cs) = Append(q, ReleaseTask(d))
    BY <1>2 DEF Posted
  <2> HIDE DEF d
  <2> QED
    BY <2>2, <2>3, AppendOther
<1> QED
  BY <1>1, <1>2

-----------------------------------------------------------------------------
(* The inductive invariant *)

\* A connection logs in once, on its first message, and gets a player only from its login
\* or from the connect() that its login scheduled.
LoginOrder ==
    /\ LoginOnce(tasks)
    /\ \A c \in Connections :
          /\ c \in Pending(tasks) =>
                received[c] /\ player[c] = NoObject /\ eventConnect[c] = NoObject
          /\ eventConnect[c] # NoObject => received[c] /\ player[c] = NoObject
          /\ player[c] # NoObject => received[c]

Held(o) == IF client[o] = NoConnection THEN 0 ELSE 1

Kept(o) == IF o \in inGame \cup toRelease THEN 1 ELSE 0

\* The references as the two that there can be: the client's and the game's.
ReferencesCounted ==
    /\ \A o \in Objects : references[o] = Held(o) + Kept(o)
    /\ inGame \cap toRelease = {}

\* ClientIsMutual needs to know that a protocol that gets a player has none, which is
\* LoginOrder, and that a player that is deleted has no client, which is ReferencesCounted;
\* NoClones needs it to know that a player in the game has its name.
Inv == TypeOK /\ LoginOrder /\ ClientIsMutual /\ ReferencesCounted /\ NoClones

-----------------------------------------------------------------------------
(* Parts of the invariant that whole groups of actions leave alone *)

NetworkType ==
    /\ state \in [Connections -> {"pending", "open", "disconnected"}]
    /\ socketOpen \in [Connections -> BOOLEAN]
    /\ reading \in [Connections -> BOOLEAN] /\ writing \in [Connections -> BOOLEAN]
    /\ managed \subseteq Connections
    /\ received \in [Connections -> BOOLEAN]

ObjectsType ==
    /\ eventConnect \in [Connections -> Objects \cup {NoObject, Gone}]
    /\ player \in [Connections -> Objects \cup {NoObject}]
    /\ autosend \subseteq Connections
    /\ name \in [Objects -> Names \cup {NoName}]
    /\ client \in [Objects -> Connections \cup {NoConnection}]
    /\ references \in [Objects -> Nat]
    /\ inGame \subseteq Objects /\ toRelease \subseteq Objects
    /\ \A o \in Objects : name[o] = NoName <=> references[o] = 0

ObjectsInv == ObjectsType /\ ClientIsMutual /\ ReferencesCounted /\ NoClones

\* The invariant, grouped by what its parts are about.
LEMMA InvParts == Inv <=> NetworkType /\ tasks \in Seq(Tasks) /\ LoginOrder /\ ObjectsInv
  BY DEF Inv, TypeOK, NetworkType, ObjectsInv, ObjectsType

\* close() keeps the types of what it changes.
LEMMA ClosingType ==
    ASSUME NetworkType, NEW cs \in SUBSET Connections,
           NEW force \in BOOLEAN, NEW sent \in BOOLEAN, Closing(cs, force, sent)
    PROVE  /\ state' \in [Connections -> {"pending", "open", "disconnected"}]
           /\ socketOpen' \in [Connections -> BOOLEAN]
           /\ managed' \subseteq Connections
<1>1. state' \in [Connections -> {"pending", "open", "disconnected"}]
  BY DEF NetworkType, Closing
<1>2. socketOpen' \in [Connections -> BOOLEAN]
  BY Zenon DEF NetworkType, Closing
<1>3. managed' \subseteq Connections
  BY DEF NetworkType, Closing
<1> QED
  BY <1>1, <1>2, <1>3

\* So does disconnectClient(), which posts at most a release.
LEMMA DisconnectClientType ==
    ASSUME NetworkType, NEW c \in Connections, NEW q \in Seq(Tasks), LoginOnce(q),
           DisconnectClient(c, q)
    PROVE  /\ NetworkType' /\ received' = received
           /\ tasks' \in Seq(Tasks) /\ LoginOnce(tasks') /\ Pending(tasks') = Pending(q)
<1>1. Reachable(c) \in SUBSET Connections
  BY DEF Reachable
<1>2. Closing(Reachable(c), FALSE, state[c] = "open") /\ (state[c] = "open") \in BOOLEAN
  BY DEF DisconnectClient
<1>3. /\ state' \in [Connections -> {"pending", "open", "disconnected"}]
      /\ socketOpen' \in [Connections -> BOOLEAN]
      /\ managed' \subseteq Connections
  BY <1>1, <1>2, ClosingType
<1>4. writing' \in [Connections -> BOOLEAN] /\ reading' = reading /\ received' = received
  BY Zenon DEF DisconnectClient, NetworkType
<1>5. NetworkType'
  BY <1>3, <1>4 DEF NetworkType
<1>6. tasks' = Posted(q, Reachable(c))
  BY DEF DisconnectClient
<1> QED
  BY <1>1, <1>4, <1>5, <1>6, PostedLogins

\* A step that touches neither players nor protocols keeps what is said of them.
LEMMA ObjectsKept ==
    ASSUME ObjectsInv, UNCHANGED <<eventConnect, player, autosend, objects>>
    PROVE  ObjectsInv'
  BY DEF ObjectsInv, ObjectsType, ClientIsMutual, ReferencesCounted, Held, Kept, NoClones, objects

\* Steps that leave players and protocols alone and post no login keep the invariant.
LEMMA PostKeepsInv ==
    ASSUME Inv, NetworkType', UNCHANGED <<eventConnect, player, autosend, objects>>,
           tasks' \in Seq(Tasks), LoginOnce(tasks'), Pending(tasks') \subseteq Pending(tasks),
           \A c \in Connections : received[c] => received'[c]
    PROVE  Inv'
<1>1. ObjectsInv'
  BY InvParts, ObjectsKept
<1>2. LoginOrder'
  BY InvParts DEF LoginOrder, objects, Pending, Logins, LoginOnce
<1> QED
  BY <1>1, <1>2 DEF Inv, TypeOK, NetworkType, ObjectsInv, ObjectsType

-----------------------------------------------------------------------------
(* The network thread *)

\* A handler of a connection keeps the invariant; the login that the first message posts
\* is the only one of its connection.
LEMMA NetworkStep == ASSUME Inv, NEW c \in Connections, Network(c)  PROVE Inv'
<1>0. /\ tasks \in Seq(Tasks) /\ LoginOnce(tasks) /\ {c} \in SUBSET Connections
      /\ TRUE \in BOOLEAN /\ FALSE \in BOOLEAN
  BY InvParts DEF LoginOrder
<1>1. CASE Accept(c)
  <2>1. NetworkType' /\ received' = received
    BY <1>1, InvParts DEF Accept, NetworkType
  <2> QED
    BY <1>1, <1>0, <2>1, PostKeepsInv DEF Accept
<1>2. CASE RefuseFirstMessage(c)
  <2>1. PICK sent \in BOOLEAN : /\ Closing({c}, FALSE, sent)
                               /\ writing' = [writing EXCEPT ![c] = @ \/ sent]
    BY <1>2 DEF RefuseFirstMessage
  <2>2. /\ state' \in [Connections -> {"pending", "open", "disconnected"}]
        /\ socketOpen' \in [Connections -> BOOLEAN]
        /\ managed' \subseteq Connections
    BY <1>0, <2>1, ClosingType, InvParts
  <2>3. writing' \in [Connections -> BOOLEAN]
    BY <2>1, InvParts, Zenon DEF NetworkType
  <2>4. /\ received' = [received EXCEPT ![c] = TRUE] /\ reading' = reading
        /\ tasks' = Posted(tasks, {c})
        /\ UNCHANGED <<eventConnect, player, autosend, objects>>
    BY <1>2 DEF RefuseFirstMessage
  <2>5. NetworkType' /\ \A d \in Connections : received[d] => received'[d]
    BY <2>2, <2>3, <2>4, InvParts DEF NetworkType
  <2> QED
    BY <1>0, <2>4, <2>5, PostKeepsInv, PostedLogins
<1>3. CASE RecvLogout(c)
  <2> DEFINE t == [kind |-> "logout", of |-> c, name |-> NoName]
  <2>1. t \in Tasks /\ t.kind # "login"
    BY DEF Tasks
  <2>2. tasks' = Append(tasks, t) /\ UNCHANGED <<network, eventConnect, player, autosend, objects>>
    BY <1>3 DEF RecvLogout
  <2>3. NetworkType' /\ received' = received
    BY <2>2, InvParts DEF network, NetworkType
  <2> HIDE DEF t
  <2> QED
    BY <1>0, <2>1, <2>2, <2>3, PostKeepsInv, AppendOther
<1>4. CASE RecvLeave(c)
  <2>1. /\ state' \in [Connections -> {"pending", "open", "disconnected"}]
        /\ socketOpen' \in [Connections -> BOOLEAN]
        /\ managed' \subseteq Connections
    BY <1>4, ClosingType, InvParts DEF RecvLeave
  <2>2. NetworkType' /\ received' = received
    BY <1>4, <2>1, InvParts DEF RecvLeave, NetworkType
  <2> QED
    BY <1>4, <1>0, <2>2, PostKeepsInv, PostedLogins DEF RecvLeave
<1>5. CASE ReadError(c)
  <2>1. /\ state' \in [Connections -> {"pending", "open", "disconnected"}]
        /\ socketOpen' \in [Connections -> BOOLEAN]
        /\ managed' \subseteq Connections
    BY <1>5, ClosingType, InvParts DEF ReadError
  <2>2. NetworkType' /\ received' = received
    BY <1>5, <2>1, InvParts DEF ReadError, NetworkType
  <2> QED
    BY <1>5, <1>0, <2>2, PostKeepsInv, PostedLogins DEF ReadError
<1>6. CASE TooManyPackets(c)
  <2>1. /\ state' \in [Connections -> {"pending", "open", "disconnected"}]
        /\ socketOpen' \in [Connections -> BOOLEAN]
        /\ managed' \subseteq Connections
    BY <1>6, ClosingType, InvParts DEF TooManyPackets
  <2>2. NetworkType' /\ received' = received
    BY <1>6, <2>1, InvParts DEF TooManyPackets, NetworkType
  <2> QED
    BY <1>6, <1>0, <2>2, PostKeepsInv, PostedLogins DEF TooManyPackets
<1>7. CASE HandleTimeout(c)
  <2>1. /\ state' \in [Connections -> {"pending", "open", "disconnected"}]
        /\ socketOpen' \in [Connections -> BOOLEAN]
        /\ managed' \subseteq Connections
    BY <1>7, ClosingType, InvParts DEF HandleTimeout
  <2>2. NetworkType' /\ received' = received
    BY <1>7, <2>1, InvParts DEF HandleTimeout, NetworkType
  <2> QED
    BY <1>7, <1>0, <2>2, PostKeepsInv, PostedLogins DEF HandleTimeout
<1>8. CASE WriteError(c)
  <2>1. /\ state' \in [Connections -> {"pending", "open", "disconnected"}]
        /\ socketOpen' \in [Connections -> BOOLEAN]
        /\ managed' \subseteq Connections
    BY <1>8, ClosingType, InvParts DEF WriteError
  <2>2. NetworkType' /\ received' = received
    BY <1>8, <2>1, InvParts DEF WriteError, NetworkType
  <2> QED
    BY <1>8, <1>0, <2>2, PostKeepsInv, PostedLogins DEF WriteError
<1>9. CASE ReadAfterClose(c) \/ Send(c)
  <2>1. NetworkType' /\ received' = received
    BY <1>9, InvParts DEF ReadAfterClose, Send, NetworkType
  <2> QED
    BY <1>9, <1>0, <2>1, PostKeepsInv DEF ReadAfterClose, Send
<1>10. CASE WriteDone(c)
  <2>1. socketOpen' \in [Connections -> BOOLEAN]
    BY <1>10, InvParts, Zenon DEF WriteDone, NetworkType
  <2>2. NetworkType' /\ received' = received
    BY <1>10, <2>1, InvParts DEF WriteDone, NetworkType
  <2> QED
    BY <1>10, <1>0, <2>2, PostKeepsInv DEF WriteDone
<1>11. ASSUME NEW n \in Names, RecvFirstMessage(c, n)  PROVE Inv'
  <2> DEFINE t == [kind |-> "login", of |-> c, name |-> n]
  <2>1. t \in Tasks /\ t.kind = "login" /\ t.of = c
    BY DEF Tasks
  <2>2. /\ ~received[c] /\ received' = [received EXCEPT ![c] = TRUE] /\ tasks' = Append(tasks, t)
        /\ UNCHANGED <<state, socketOpen, reading, writing, managed>>
        /\ UNCHANGED <<eventConnect, player, autosend, objects>>
    BY <1>11 DEF RecvFirstMessage
  <2> HIDE DEF t
  <2>3. /\ c \notin Pending(tasks)
        /\ eventConnect[c] = NoObject /\ player[c] = NoObject
    BY <2>2, InvParts DEF LoginOrder
  <2>4. /\ tasks' \in Seq(Tasks) /\ LoginOnce(tasks')
        /\ Pending(tasks') = Pending(tasks) \cup {c}
    BY <1>0, <2>1, <2>2, <2>3, AppendLogin
  <2>5. NetworkType'
    BY <2>2, InvParts DEF NetworkType
  <2>6. ObjectsInv'
    BY <2>2, InvParts, ObjectsKept
  <2>7. \A d \in Connections : received'[d] <=> received[d] \/ d = c
    BY <2>2, InvParts DEF NetworkType
  <2>8. LoginOnce(tasks)'
    BY <2>4 DEF LoginOnce, Logins
  <2>9. Pending(tasks)' = Pending(tasks')
    BY DEF Pending, Logins
  <2>10. LoginOrder'
    <3> SUFFICES ASSUME NEW d \in Connections
                 PROVE  /\ d \in Pending(tasks') =>
                              received'[d] /\ player[d] = NoObject /\ eventConnect[d] = NoObject
                        /\ eventConnect[d] # NoObject => received'[d] /\ player[d] = NoObject
                        /\ player[d] # NoObject => received'[d]
      BY <2>2, <2>8, <2>9 DEF LoginOrder
    <3> QED
      BY <2>3, <2>4, <2>7, InvParts DEF LoginOrder
  <2> QED
    BY <2>4, <2>5, <2>6, <2>10 DEF Inv, TypeOK, NetworkType, ObjectsInv, ObjectsType
<1> QED
  BY <1>1, <1>2, <1>3, <1>4, <1>5, <1>6, <1>7, <1>8, <1>9, <1>10, <1>11 DEF Network

-----------------------------------------------------------------------------
(* The dispatcher thread *)

\* LoginOrder as long as nobody gets a player or a scheduled connect().
LEMMA LoginOrderKept ==
    ASSUME LoginOrder, UNCHANGED <<received, player>>,
           \A c \in Connections : eventConnect'[c] # NoObject => eventConnect[c] # NoObject,
           LoginOnce(tasks'), Pending(tasks') \subseteq Pending(tasks)
    PROVE  LoginOrder'
<1>1. LoginOnce(tasks)' /\ Pending(tasks)' = Pending(tasks')
  BY DEF LoginOnce, Pending, Logins
<1> QED
  BY <1>1 DEF LoginOrder

\* The task that is taken is the first one; a login is its connection's only one.
LEMMA TaskTaken ==
    ASSUME Inv, NEW c \in Connections, NEW kind, IsNext(kind, c)
    PROVE  /\ Tail(tasks) \in Seq(Tasks) /\ LoginOnce(Tail(tasks))
           /\ Pending(Tail(tasks)) \subseteq Pending(tasks)
           /\ kind = "login" =>
                /\ Head(tasks).name \in Names
                /\ c \notin Pending(Tail(tasks))
                /\ received[c] /\ player[c] = NoObject /\ eventConnect[c] = NoObject
<1>1. tasks \in Seq(Tasks) /\ tasks # <<>> /\ LoginOnce(tasks)
  BY InvParts DEF IsNext, LoginOrder
<1>2. Head(tasks) \in Tasks /\ Head(tasks).kind = kind /\ Head(tasks).of = c
  BY <1>1, TailLogins DEF IsNext
<1>3. kind = "login" => Head(tasks).name \in Names
  BY <1>2 DEF Tasks
<1>4. kind = "login" => c \in Pending(tasks) /\ c \notin Pending(Tail(tasks))
  BY <1>1, <1>2, TailLogins
<1> QED
  BY <1>1, <1>3, <1>4, TailLogins, InvParts DEF LoginOrder

\* What deleting the players without references does, when none of them has a client.
LEMMA CountedPlayers ==
    ASSUME ObjectsType, NEW refs \in [Objects -> Nat],
           NEW newClient \in [Objects -> Connections \cup {NoConnection}],
           \A o \in Objects : name[o] = NoName => refs[o] = 0,
           \A o \in Objects : refs[o] = 0 => newClient[o] = NoConnection,
           Counted(refs, newClient)
    PROVE  /\ references' = refs /\ client' = newClient
           /\ name' \in [Objects -> Names \cup {NoName}]
           /\ \A o \in Objects : name'[o] = NoName <=> refs[o] = 0
           /\ \A o \in Objects : refs[o] # 0 => name'[o] = name[o]
           /\ eventConnect' \in [Connections -> Objects \cup {NoObject, Gone}]
           /\ \A c \in Connections : eventConnect'[c] # NoObject => eventConnect[c] # NoObject
<1> DEFINE dead == {o \in Objects : name[o] # NoName /\ refs[o] = 0}
<1>1. /\ references' = refs
      /\ name' = [o \in Objects |-> IF o \in dead THEN NoName ELSE name[o]]
      /\ client' = [o \in Objects |-> IF o \in dead THEN NoConnection ELSE newClient[o]]
      /\ eventConnect' = [c \in Connections |->
                             IF eventConnect[c] \in dead THEN Gone ELSE eventConnect[c]]
  BY DEF Counted
<1>2. client' = newClient
  BY <1>1
<1>3. /\ name' \in [Objects -> Names \cup {NoName}]
      /\ \A o \in Objects : name'[o] = NoName <=> refs[o] = 0
      /\ \A o \in Objects : refs[o] # 0 => name'[o] = name[o]
  BY <1>1 DEF ObjectsType
<1>4. /\ eventConnect' \in [Connections -> Objects \cup {NoObject, Gone}]
      /\ \A c \in Connections : eventConnect'[c] # NoObject => eventConnect[c] # NoObject
  BY <1>1, SessionAssumption DEF ObjectsType
<1> QED
  BY <1>1, <1>2, <1>3, <1>4

\* ProtocolGame::release().
LEMMA ReleaseStep == ASSUME Inv, NEW c \in Connections, Release(c)  PROVE Inv'
<1>1. /\ tasks' = Tail(tasks) /\ autosend' = autosend \ {c}
      /\ UNCHANGED <<network, inGame, toRelease>>
      /\ IsNext("release", c)
  BY DEF Release
<1>2. tasks' \in Seq(Tasks) /\ LoginOnce(tasks') /\ Pending(tasks') \subseteq Pending(tasks)
  BY <1>1, TaskTaken
<1>3. NetworkType' /\ received' = received
  BY <1>1, InvParts DEF NetworkType, network
<1>4. CASE ~ReleasesPlayer(c)
  <2>1. UNCHANGED <<references, name, client, eventConnect, player>>
    BY <1>4 DEF Release
  <2>2. ObjectsInv'
    BY <1>1, <2>1, InvParts
       DEF ObjectsInv, ObjectsType, ClientIsMutual, ReferencesCounted, Held, Kept, NoClones
  <2>3. LoginOrder'
    BY <1>2, <1>3, <2>1, InvParts, LoginOrderKept
  <2> QED
    BY <1>2, <1>3, <2>2, <2>3 DEF Inv, TypeOK, NetworkType, ObjectsInv, ObjectsType
<1>5. CASE ReleasesPlayer(c)
  <2> DEFINE o == player[c]
             refs == [references EXCEPT ![o] = @ - 1]
             newClient == [client EXCEPT ![o] = NoConnection]
  <2>1. o \in Objects /\ client[o] = c /\ c # NoConnection
    BY <1>5, InvParts, SessionAssumption DEF ReleasesPlayer, ObjectsInv, ObjectsType
  <2>2. Counted(refs, newClient) /\ player' = [player EXCEPT ![c] = NoObject]
    BY <1>5 DEF Release
  <2>3. /\ references[o] = 1 + Kept(o) /\ Kept(o) \in {0, 1}
        /\ refs[o] = Kept(o)
        /\ refs \in [Objects -> Nat]
    BY <2>1, InvParts DEF ObjectsInv, ObjectsType, ReferencesCounted, Held, Kept
  <2>4. /\ newClient \in [Objects -> Connections \cup {NoConnection}]
        /\ \A p \in Objects : name[p] = NoName => refs[p] = 0
        /\ \A p \in Objects : refs[p] = 0 => newClient[p] = NoConnection
    <3>1. newClient \in [Objects -> Connections \cup {NoConnection}] /\ newClient[o] = NoConnection
      BY <2>1, InvParts DEF ObjectsInv, ObjectsType
    <3>2. \A p \in Objects : p # o => refs[p] = references[p] /\ newClient[p] = client[p]
      BY <2>1, InvParts DEF ObjectsInv, ObjectsType
    <3>3. references[o] # 0 /\ name[o] # NoName
      BY <2>1, <2>3, InvParts DEF ObjectsInv, ObjectsType
    <3>4. \A p \in Objects : /\ name[p] = NoName => references[p] = 0
                             /\ references[p] = 0 => client[p] = NoConnection
      <4> SUFFICES ASSUME NEW p \in Objects
                   PROVE  /\ name[p] = NoName => references[p] = 0
                          /\ references[p] = 0 => client[p] = NoConnection
        OBVIOUS
      <4>1. references[p] = Held(p) + Kept(p) /\ Kept(p) \in Nat
        BY InvParts DEF ObjectsInv, ReferencesCounted, Kept
      <4>2. client[p] # NoConnection => Held(p) = 1
        BY DEF Held
      <4>3. name[p] = NoName => references[p] = 0
        BY InvParts DEF ObjectsInv, ObjectsType
      <4> QED
        BY <4>1, <4>2, <4>3
    <3> HIDE DEF refs, newClient
    <3> QED
      BY <3>1, <3>2, <3>3, <3>4
  <2>5. /\ references' = refs /\ client' = newClient
        /\ name' \in [Objects -> Names \cup {NoName}]
        /\ \A p \in Objects : name'[p] = NoName <=> refs[p] = 0
        /\ \A p \in Objects : refs[p] # 0 => name'[p] = name[p]
        /\ eventConnect' \in [Connections -> Objects \cup {NoObject, Gone}]
        /\ \A d \in Connections : eventConnect'[d] # NoObject => eventConnect[d] # NoObject
    <3> HIDE DEF refs, newClient
    <3> QED
      BY <2>2, <2>3, <2>4, CountedPlayers, InvParts DEF ObjectsInv
  <2>6. ObjectsType'
    BY <1>1, <2>2, <2>3, <2>5, InvParts DEF ObjectsInv, ObjectsType
  <2>7. ClientIsMutual'
    BY <2>1, <2>2, <2>5, InvParts, SessionAssumption DEF ObjectsInv, ObjectsType, ClientIsMutual
  <2>8. ReferencesCounted'
    <3>1. \A p \in Objects : refs[p] = (IF newClient[p] = NoConnection THEN 0 ELSE 1) + Kept(p)
      BY <2>1, <2>3, InvParts DEF ObjectsInv, ObjectsType, ReferencesCounted, Held, Kept
    <3> QED
      BY <1>1, <2>5, <3>1, InvParts DEF ObjectsInv, ReferencesCounted, Held, Kept
  <2>9. NoClones'
    <3>1. \A p \in inGame : p \in Objects /\ refs[p] # 0
      BY <2>1, <2>3, InvParts DEF ObjectsInv, ObjectsType, ReferencesCounted, Held, Kept
    <3> QED
      BY <1>1, <2>5, <3>1, InvParts DEF ObjectsInv, NoClones
  <2>10. LoginOrder'
    <3> SUFFICES ASSUME NEW d \in Connections
                 PROVE  /\ d \in Pending(tasks') =>
                              received[d] /\ player'[d] = NoObject /\ eventConnect'[d] = NoObject
                        /\ eventConnect'[d] # NoObject => received[d] /\ player'[d] = NoObject
                        /\ player'[d] # NoObject => received[d]
      <4>1. LoginOnce(tasks)' /\ Pending(tasks)' = Pending(tasks')
        BY <1>2 DEF LoginOnce, Pending, Logins
      <4> QED
        BY <1>3, <4>1 DEF LoginOrder
    <3> QED
      BY <1>2, <2>2, <2>5, InvParts DEF LoginOrder, ObjectsInv, ObjectsType
  <2> QED
    BY <1>2, <1>3, <2>6, <2>7, <2>8, <2>9, <2>10 DEF Inv, TypeOK, NetworkType, ObjectsType
<1> QED
  BY <1>4, <1>5

\* Game::cleanup(): a player that waits for it is in nobody's game any more.
LEMMA CleanupStep == ASSUME Inv, Cleanup  PROVE Inv'
<1> DEFINE refs == [o \in Objects |-> IF o \in toRelease THEN references[o] - 1 ELSE references[o]]
<1>1. /\ Counted(refs, client) /\ toRelease' = {}
      /\ UNCHANGED <<network, tasks, player, autosend, inGame>>
  BY DEF Cleanup
<1>2. \A o \in Objects : refs[o] = Held(o) + (IF o \in inGame THEN 1 ELSE 0)
  BY InvParts DEF ObjectsInv, ObjectsType, ReferencesCounted, Held, Kept
<1>3. refs \in [Objects -> Nat]
  BY <1>2 DEF Held
<1>4. /\ client \in [Objects -> Connections \cup {NoConnection}]
      /\ \A o \in Objects : refs[o] = 0 => client[o] = NoConnection
  BY <1>2, InvParts DEF ObjectsInv, ObjectsType, Held
<1>5. \A o \in Objects : name[o] = NoName => refs[o] = 0
  BY <1>2, InvParts DEF ObjectsInv, ObjectsType, ReferencesCounted, Held, Kept
<1> HIDE DEF refs
<1>6. /\ references' = refs /\ client' = client
      /\ name' \in [Objects -> Names \cup {NoName}]
      /\ \A p \in Objects : name'[p] = NoName <=> refs[p] = 0
      /\ \A p \in Objects : refs[p] # 0 => name'[p] = name[p]
      /\ eventConnect' \in [Connections -> Objects \cup {NoObject, Gone}]
      /\ \A d \in Connections : eventConnect'[d] # NoObject => eventConnect[d] # NoObject
  BY <1>1, <1>3, <1>4, <1>5, CountedPlayers, InvParts DEF ObjectsInv
<1>7. ObjectsType' /\ ClientIsMutual'
  BY <1>1, <1>3, <1>6, InvParts DEF ObjectsInv, ObjectsType, ClientIsMutual
<1>8. ReferencesCounted'
  BY <1>1, <1>2, <1>6 DEF ReferencesCounted, Held, Kept
<1>9. NoClones'
  <2>1. \A p \in inGame : p \in Objects /\ refs[p] # 0
    BY <1>2, InvParts DEF ObjectsInv, ObjectsType, Held
  <2> QED
    BY <1>1, <1>6, <2>1, InvParts DEF ObjectsInv, NoClones
<1>10. NetworkType' /\ received' = received
  BY <1>1, InvParts DEF NetworkType, network
<1>11. LoginOrder'
  BY <1>1, <1>6, <1>10, InvParts, LoginOrderKept DEF LoginOrder
<1> QED
  BY <1>1, <1>7, <1>8, <1>9, <1>10, <1>11, InvParts DEF Inv, TypeOK, NetworkType, ObjectsType

\* Game::removeCreature() hands the game's reference over to cleanup().
LEMMA RemovedPlayers ==
    ASSUME ObjectsInv, NEW o \in Objects, Removed(o),
           UNCHANGED <<eventConnect, player, autosend, name, client, references>>
    PROVE  ObjectsInv'
<1>1. inGame' \subseteq inGame /\ toRelease' \subseteq Objects /\ inGame' \cap toRelease' = {}
  BY DEF Removed, ObjectsInv, ObjectsType, ReferencesCounted
<1>2. inGame' \cup toRelease' = inGame \cup toRelease
  BY DEF Removed
<1>3. ObjectsType' /\ ClientIsMutual' /\ NoClones'
  BY <1>1 DEF ObjectsInv, ObjectsType, ClientIsMutual, NoClones
<1>4. ReferencesCounted'
  BY <1>1, <1>2 DEF ObjectsInv, ReferencesCounted, Held, Kept
<1> QED
  BY <1>3, <1>4 DEF ObjectsInv

\* Closing the connection of a player that is removed, with q the tasks that are left.
LEMMA RemovingStep ==
    ASSUME Inv, NEW o \in Objects, NEW cs \in SUBSET Connections,
           NEW q \in Seq(Tasks), LoginOnce(q), Pending(q) \subseteq Pending(tasks),
           Closing(cs, FALSE, FALSE), tasks' = Posted(q, cs), Removed(o),
           UNCHANGED <<reading, writing, received, eventConnect, player, autosend, name, client,
                       references>>
    PROVE  Inv'
<1>1. /\ state' \in [Connections -> {"pending", "open", "disconnected"}]
      /\ socketOpen' \in [Connections -> BOOLEAN]
      /\ managed' \subseteq Connections
  BY ClosingType, InvParts
<1>2. NetworkType'
  BY <1>1, InvParts DEF NetworkType
<1>3. tasks' \in Seq(Tasks) /\ LoginOnce(tasks') /\ Pending(tasks') \subseteq Pending(tasks)
  BY PostedLogins
<1>4. ObjectsInv'
  BY RemovedPlayers, InvParts
<1>5. LoginOrder'
  BY <1>3, InvParts, LoginOrderKept
<1> QED
  BY <1>2, <1>3, <1>4, <1>5 DEF Inv, TypeOK, NetworkType, ObjectsInv, ObjectsType

\* ProtocolGame::logout().
LEMMA LogoutStep == ASSUME Inv, NEW c \in Connections, Logout(c)  PROVE Inv'
<1>1. /\ Tail(tasks) \in Seq(Tasks) /\ LoginOnce(Tail(tasks))
      /\ Pending(Tail(tasks)) \subseteq Pending(tasks)
  BY TaskTaken DEF Logout
<1>2. CASE /\ player[c] # NoObject
           /\ Closing(Reachable(c), FALSE, FALSE)
           /\ tasks' = Posted(Tail(tasks), Reachable(c))
           /\ Removed(player[c])
  <2>1. player[c] \in Objects /\ Reachable(c) \in SUBSET Connections
    BY <1>2, InvParts DEF ObjectsInv, ObjectsType, Reachable
  <2> QED
    BY <1>1, <1>2, <2>1, RemovingStep DEF Logout
<1>3. CASE /\ tasks' = Tail(tasks)
           /\ UNCHANGED <<state, socketOpen, managed, inGame, toRelease>>
  <2>1. NetworkType' /\ received' = received
    BY <1>3, InvParts DEF Logout, NetworkType
  <2>2. UNCHANGED <<eventConnect, player, autosend, objects>>
    BY <1>3 DEF Logout, objects
  <2> QED
    BY <1>1, <1>3, <2>1, <2>2, PostKeepsInv
<1> QED
  BY <1>2, <1>3 DEF Logout

\* Player::kickPlayer().
LEMMA KickStep == ASSUME Inv, NEW o \in Objects, Kick(o)  PROVE Inv'
<1>1. Reachable(client[o]) \in SUBSET Connections
  BY DEF Reachable
<1>2. tasks \in Seq(Tasks) /\ LoginOnce(tasks)
  BY InvParts DEF LoginOrder
<1> QED
  BY <1>1, <1>2, RemovingStep DEF Kick

\* Creature::onDeath().
LEMMA DeathStep == ASSUME Inv, NEW o \in Objects, Death(o)  PROVE Inv'
<1>1. ObjectsInv'
  BY RemovedPlayers, InvParts DEF Death
<1>2. NetworkType' /\ received' = received
  BY InvParts DEF Death, network, NetworkType
<1>3. LoginOrder'
  BY <1>2, LoginOrderKept, InvParts DEF Death, LoginOrder
<1> QED
  BY <1>1, <1>2, <1>3, InvParts DEF Death, Inv, TypeOK, NetworkType, ObjectsInv, ObjectsType

\* login() of a character in the game, when the second login is refused.
LEMMA LoginRefusedStep == ASSUME Inv, NEW c \in Connections, LoginRefused(c)  PROVE Inv'
<1>1. /\ Tail(tasks) \in Seq(Tasks) /\ LoginOnce(Tail(tasks))
      /\ Pending(Tail(tasks)) \subseteq Pending(tasks)
  BY TaskTaken DEF LoginRefused
<1>2. /\ NetworkType' /\ received' = received
      /\ tasks' \in Seq(Tasks) /\ LoginOnce(tasks') /\ Pending(tasks') = Pending(Tail(tasks))
  BY <1>1, DisconnectClientType, InvParts DEF LoginRefused
<1> QED
  BY <1>1, <1>2, PostKeepsInv DEF LoginRefused

\* connect() gives the player to a protocol that has none: nobody else held it.
LEMMA AttachedPlayers ==
    ASSUME ObjectsInv, NEW c \in Connections, player[c] = NoObject, NEW o \in Objects,
           o \in inGame, client[o] = NoConnection, Attach(c, o),
           eventConnect' \in [Connections -> Objects \cup {NoObject, Gone}],
           autosend' \subseteq Connections, UNCHANGED <<name, inGame, toRelease>>
    PROVE  /\ ObjectsInv'
           /\ \A d \in Connections : player'[d] = player[d] \/ d = c
<1>1. CASE Expired(c)
  BY <1>1 DEF Attach, ObjectsInv, ObjectsType, ClientIsMutual, ReferencesCounted, Held, Kept, NoClones
<1>2. CASE ~Expired(c)
  <2>1. /\ player' = [player EXCEPT ![c] = o]
        /\ client' = [client EXCEPT ![o] = c]
        /\ references' = [references EXCEPT ![o] = @ + 1]
    BY <1>2 DEF Attach
  <2>2. ObjectsType'
    BY <2>1 DEF ObjectsInv, ObjectsType, ReferencesCounted, Held, Kept
  <2>3. ClientIsMutual'
    BY <2>1, SessionAssumption DEF ObjectsInv, ObjectsType, ClientIsMutual
  <2>4. ReferencesCounted'
    BY <2>1, SessionAssumption DEF ObjectsInv, ObjectsType, ReferencesCounted, Held, Kept
  <2>5. NoClones'
    BY DEF ObjectsInv, NoClones
  <2> QED
    BY <2>1, <2>2, <2>3, <2>4, <2>5 DEF ObjectsInv, ObjectsType
<1> QED
  BY <1>1, <1>2

\* LoginOrder when only c, whose login is done, gets a player or a scheduled connect().
LEMMA LoginOrderDone ==
    ASSUME LoginOrder, NEW c \in Connections, received' = received, received[c],
           c \notin Pending(tasks'), LoginOnce(tasks'), Pending(tasks') \subseteq Pending(tasks),
           eventConnect'[c] = NoObject \/ player'[c] = NoObject,
           \A d \in Connections :
              d = c \/ (player'[d] = player[d] /\ eventConnect'[d] = eventConnect[d])
    PROVE  LoginOrder'
<1>1. LoginOnce(tasks)' /\ Pending(tasks)' = Pending(tasks')
  BY DEF LoginOnce, Pending, Logins
<1> QED
  BY <1>1 DEF LoginOrder

\* login() of a character in the game that has no client.
LEMMA LoginConnectsStep == ASSUME Inv, NEW c \in Connections, LoginConnects(c)  PROVE Inv'
<1>1. /\ Tail(tasks) \in Seq(Tasks) /\ LoginOnce(Tail(tasks))
      /\ Pending(Tail(tasks)) \subseteq Pending(tasks)
      /\ c \notin Pending(Tail(tasks))
      /\ received[c] /\ player[c] = NoObject /\ eventConnect[c] = NoObject
  BY TaskTaken DEF LoginConnects
<1>2. PICK o \in FoundPlayer(Head(tasks).name) : client[o] = NoConnection /\ Attach(c, o)
  BY DEF LoginConnects
<1>3. /\ tasks' = Tail(tasks) /\ autosend' = autosend \cup {c}
      /\ UNCHANGED <<network, eventConnect, name, inGame, toRelease>>
  BY DEF LoginConnects
<1>4. o \in inGame /\ o \in Objects
  BY InvParts DEF FoundPlayer, ObjectsInv, ObjectsType
<1>5. /\ ObjectsInv'
      /\ \A d \in Connections : player'[d] = player[d] \/ d = c
  BY <1>1, <1>2, <1>3, <1>4, AttachedPlayers, InvParts DEF ObjectsInv, ObjectsType
<1>6. NetworkType' /\ received' = received
  BY <1>3, InvParts DEF NetworkType, network
<1>7. LoginOrder'
  BY <1>1, <1>3, <1>5, <1>6, LoginOrderDone, InvParts
<1> QED
  BY <1>1, <1>3, <1>5, <1>6, <1>7 DEF Inv, TypeOK, NetworkType, ObjectsInv, ObjectsType

\* login() of a character in the game that has a client: nobody changes hands yet.
LEMMA LoginReplacesStep == ASSUME Inv, NEW c \in Connections, LoginReplaces(c)  PROVE Inv'
<1>1. /\ Tail(tasks) \in Seq(Tasks) /\ LoginOnce(Tail(tasks))
      /\ Pending(Tail(tasks)) \subseteq Pending(tasks)
      /\ c \notin Pending(Tail(tasks))
      /\ received[c] /\ player[c] = NoObject /\ eventConnect[c] = NoObject
  BY TaskTaken DEF LoginReplaces
<1>2. PICK o \in FoundPlayer(Head(tasks).name) :
            /\ Closing(Reachable(client[o]), FALSE, FALSE)
            /\ tasks' = Posted(Tail(tasks), Reachable(client[o]))
            /\ eventConnect' = [eventConnect EXCEPT ![c] = o]
  BY DEF LoginReplaces
<1>3. autosend' = autosend \cup {c} /\ UNCHANGED <<reading, writing, received, player, objects>>
  BY DEF LoginReplaces
<1>4. o \in Objects /\ Reachable(client[o]) \in SUBSET Connections
  BY InvParts DEF FoundPlayer, ObjectsInv, ObjectsType, Reachable
<1>5. /\ state' \in [Connections -> {"pending", "open", "disconnected"}]
      /\ socketOpen' \in [Connections -> BOOLEAN]
      /\ managed' \subseteq Connections
  BY <1>2, <1>4, ClosingType, InvParts
<1>6. NetworkType' /\ received' = received
  BY <1>3, <1>5, InvParts DEF NetworkType
<1>7. tasks' \in Seq(Tasks) /\ LoginOnce(tasks') /\ Pending(tasks') = Pending(Tail(tasks))
  BY <1>1, <1>2, <1>4, PostedLogins
<1>8. ObjectsInv'
  BY <1>2, <1>3, <1>4, InvParts
     DEF ObjectsInv, ObjectsType, ClientIsMutual, ReferencesCounted, Held, Kept, NoClones, objects
<1>9. /\ player' = player
      /\ \A d \in Connections : d = c \/ eventConnect'[d] = eventConnect[d]
  BY <1>2, <1>3, InvParts DEF ObjectsInv, ObjectsType
<1>10. LoginOrder'
  <2>1. LoginOrder /\ received' = received /\ received[c]
    BY <1>1, <1>6, InvParts
  <2>2. c \notin Pending(tasks') /\ LoginOnce(tasks') /\ Pending(tasks') \subseteq Pending(tasks)
    BY <1>1, <1>7
  <2>3. /\ eventConnect'[c] = NoObject \/ player'[c] = NoObject
        /\ \A d \in Connections :
            d = c \/ (player'[d] = player[d] /\ eventConnect'[d] = eventConnect[d])
    BY <1>1, <1>9
  <2> QED
    BY <2>1, <2>2, <2>3, LoginOrderDone
<1> QED
  BY <1>6, <1>7, <1>8, <1>10 DEF Inv, TypeOK, NetworkType, ObjectsInv, ObjectsType

\* The scheduled connect(): its player may have been removed, deleted or taken meanwhile.
LEMMA ConnectStep == ASSUME Inv, NEW c \in Connections, Connect(c)  PROVE Inv'
<1> DEFINE o == eventConnect[c]
<1>1. /\ o # NoObject /\ eventConnect' = [eventConnect EXCEPT ![c] = NoObject]
      /\ UNCHANGED <<autosend, name, inGame, toRelease>>
  BY DEF Connect
<1>2. /\ received[c] /\ player[c] = NoObject /\ c \notin Pending(tasks)
      /\ tasks \in Seq(Tasks) /\ LoginOnce(tasks)
  BY <1>1, InvParts DEF LoginOrder
<1>3. /\ eventConnect' \in [Connections -> Objects \cup {NoObject, Gone}]
      /\ eventConnect'[c] = NoObject
      /\ \A d \in Connections : d = c \/ eventConnect'[d] = eventConnect[d]
  BY <1>1, InvParts DEF ObjectsInv, ObjectsType
<1>4. CASE MayConnect(o)
  <2>1. Attach(c, o) /\ UNCHANGED <<network, tasks>>
    BY <1>4 DEF Connect
  <2>2. o \in inGame /\ o \in Objects /\ client[o] = NoConnection
    BY <1>4, InvParts DEF MayConnect, ObjectsInv, ObjectsType
  <2>3. autosend' \subseteq Connections
    BY <1>1, InvParts DEF ObjectsInv, ObjectsType
  <2> HIDE DEF o
  <2>4. /\ ObjectsInv'
        /\ \A d \in Connections : player'[d] = player[d] \/ d = c
    BY <1>1, <1>2, <1>3, <2>1, <2>2, <2>3, AttachedPlayers, InvParts
  <2>5. NetworkType' /\ received' = received
    BY <2>1, InvParts DEF NetworkType, network
  <2>6. LoginOrder'
    <3>1. LoginOrder /\ received' = received /\ received[c]
      BY <1>2, <2>5, InvParts
    <3>2. c \notin Pending(tasks') /\ LoginOnce(tasks') /\ Pending(tasks') \subseteq Pending(tasks)
      BY <1>2, <2>1
    <3>3. /\ eventConnect'[c] = NoObject \/ player'[c] = NoObject
          /\ \A d \in Connections :
              d = c \/ (player'[d] = player[d] /\ eventConnect'[d] = eventConnect[d])
      BY <1>3, <2>4
    <3> QED
      BY <3>1, <3>2, <3>3, LoginOrderDone
  <2> QED
    BY <1>2, <2>1, <2>4, <2>5, <2>6 DEF Inv, TypeOK, NetworkType, ObjectsInv, ObjectsType
<1>5. CASE ~MayConnect(o)
  <2>1. DisconnectClient(c, tasks) /\ UNCHANGED <<player, client, references>>
    BY <1>5 DEF Connect
  <2>2. /\ NetworkType' /\ received' = received
        /\ tasks' \in Seq(Tasks) /\ LoginOnce(tasks') /\ Pending(tasks') = Pending(tasks)
    BY <1>2, <2>1, DisconnectClientType, InvParts
  <2>3. ObjectsInv'
    BY <1>1, <1>3, <2>1, InvParts
       DEF ObjectsInv, ObjectsType, ClientIsMutual, ReferencesCounted, Held, Kept, NoClones
  <2>4. LoginOrder'
    <3>1. LoginOrder /\ received' = received /\ received[c]
      BY <1>2, <2>2, InvParts
    <3>2. c \notin Pending(tasks') /\ LoginOnce(tasks') /\ Pending(tasks') \subseteq Pending(tasks)
      BY <1>2, <2>2
    <3>3. /\ eventConnect'[c] = NoObject \/ player'[c] = NoObject
          /\ \A d \in Connections :
              d = c \/ (player'[d] = player[d] /\ eventConnect'[d] = eventConnect[d])
      BY <1>3, <2>1
    <3> QED
      BY <3>1, <3>2, <3>3, LoginOrderDone
  <2> QED
    BY <2>2, <2>3, <2>4 DEF Inv, TypeOK, NetworkType, ObjectsInv, ObjectsType
<1> QED
  BY <1>4, <1>5

\* login() of a character that is not in the game.
LEMMA LoginStep ==
    ASSUME Inv, NEW c \in Connections, NEW outcome \in {"refused", "stuck", "placed"},
           Login(c, outcome)
    PROVE  Inv'
<1>1. /\ Tail(tasks) \in Seq(Tasks) /\ LoginOnce(Tail(tasks))
      /\ Pending(Tail(tasks)) \subseteq Pending(tasks)
      /\ c \notin Pending(Tail(tasks)) /\ Head(tasks).name \in Names
      /\ received[c] /\ player[c] = NoObject /\ eventConnect[c] = NoObject
  BY TaskTaken DEF Login
<1>2. PICK o \in Objects :
          /\ name[o] = NoName
          /\ name' = [name EXCEPT ![o] = Head(tasks).name]
          /\ client' = [client EXCEPT ![o] = c]
          /\ player' = [player EXCEPT ![c] = o]
          /\ references' = [references EXCEPT ![o] = IF outcome = "placed" THEN 2 ELSE 1]
          /\ inGame' = IF outcome = "placed" THEN inGame \cup {o} ELSE inGame
  BY DEF Login
<1>3. /\ autosend' \subseteq Connections
      /\ UNCHANGED <<eventConnect, toRelease>>
      /\ FoundPlayer(Head(tasks).name) = {}
  BY InvParts DEF Login, ObjectsInv, ObjectsType
<1>4. /\ NetworkType' /\ received' = received
      /\ tasks' \in Seq(Tasks) /\ LoginOnce(tasks') /\ Pending(tasks') = Pending(Tail(tasks))
  <2>1. CASE outcome = "refused"
    BY <1>1, <2>1, DisconnectClientType, InvParts DEF Login
  <2>2. CASE outcome # "refused"
    BY <1>1, <2>2, InvParts DEF Login, network, NetworkType
  <2> QED
    BY <2>1, <2>2
<1>5. /\ references[o] = 0 /\ client[o] = NoConnection
      /\ o \notin inGame /\ o \notin toRelease
  BY <1>2, InvParts DEF ObjectsInv, ObjectsType, ReferencesCounted, Held, Kept
<1>6. ObjectsType'
  BY <1>1, <1>2, <1>3, InvParts, SessionAssumption DEF ObjectsInv, ObjectsType
<1>7. ClientIsMutual'
  BY <1>1, <1>2, <1>5, InvParts, SessionAssumption DEF ObjectsInv, ObjectsType, ClientIsMutual
<1>8. ReferencesCounted'
  BY <1>2, <1>3, <1>5, InvParts, SessionAssumption
     DEF ObjectsInv, ObjectsType, ReferencesCounted, Held, Kept
<1>9. NoClones'
  <2>1. \A p \in inGame : p \in Objects /\ p # o /\ name[p] # Head(tasks).name
    BY <1>3, <1>5, InvParts DEF ObjectsInv, ObjectsType, FoundPlayer
  <2>2. /\ \A p \in inGame : name'[p] = name[p]
        /\ name'[o] = Head(tasks).name
        /\ inGame' \subseteq inGame \cup {o}
    BY <1>2, <2>1, InvParts DEF ObjectsInv, ObjectsType
  <2> QED
    BY <2>1, <2>2, InvParts DEF ObjectsInv, NoClones
<1>10. \A d \in Connections : d = c \/ (player'[d] = player[d] /\ eventConnect'[d] = eventConnect[d])
  BY <1>2, <1>3, InvParts DEF ObjectsInv, ObjectsType
<1>11. LoginOrder'
  BY <1>1, <1>3, <1>4, <1>10, LoginOrderDone, InvParts
<1> QED
  BY <1>4, <1>6, <1>7, <1>8, <1>9, <1>11 DEF Inv, TypeOK, NetworkType, ObjectsType

-----------------------------------------------------------------------------
(* The theorems *)

\* The inductive invariant holds of every session, whatever the number of connections,
\* characters and players and in whatever order their handlers and tasks run.
THEOREM Invariance == Spec => []Inv
<1>1. Init => Inv
  <2> SUFFICES ASSUME Init PROVE Inv
    OBVIOUS
  <2>1. \A c \in Connections : Logins(tasks, c) = {}
    BY DEF Init, Logins
  <2>2. LoginOrder
    BY <2>1 DEF Init, LoginOrder, LoginOnce, Pending
  <2>3. NetworkType /\ tasks \in Seq(Tasks)
    BY DEF Init, NetworkType
  <2>4. ObjectsInv
    BY SessionAssumption DEF Init, ObjectsInv, ObjectsType, ClientIsMutual, ReferencesCounted,
                             Held, Kept, NoClones
  <2> QED
    BY <2>2, <2>3, <2>4, InvParts
<1>2. Inv /\ [Next]_vars => Inv'
  <2> SUFFICES ASSUME Inv, [Next]_vars PROVE Inv'
    OBVIOUS
  <2>1. CASE UNCHANGED vars
    <3>1. /\ NetworkType' /\ received' = received /\ tasks' = tasks
          /\ UNCHANGED <<eventConnect, player, autosend, objects>>
      BY <2>1, InvParts DEF vars, network, NetworkType
    <3> QED
      BY <3>1, PostKeepsInv, InvParts DEF LoginOrder
  <2>2. ASSUME NEW c \in Connections,
               Network(c) \/ Release(c) \/ LoginConnects(c) \/ LoginReplaces(c) \/ LoginRefused(c)
                 \/ Connect(c) \/ Logout(c)
        PROVE  Inv'
    BY <2>2, NetworkStep, ReleaseStep, LoginConnectsStep, LoginReplacesStep, LoginRefusedStep,
       ConnectStep, LogoutStep
  <2>3. ASSUME NEW c \in Connections, NEW outcome \in {"refused", "stuck", "placed"},
               Login(c, outcome)
        PROVE  Inv'
    BY <2>3, LoginStep
  <2>4. ASSUME NEW o \in Objects, Kick(o) \/ Death(o)  PROVE Inv'
    BY <2>4, KickStep, DeathStep
  <2>5. CASE Cleanup
    BY <2>5, CleanupStep
  <2> QED
    BY <2>1, <2>2, <2>3, <2>4, <2>5 DEF Next
<1> QED
  BY <1>1, <1>2, PTL DEF Spec

\* Every variable keeps its type, and an address is free exactly when nobody counts on it.
THEOREM TypeCorrect == Spec => []TypeOK
<1>1. Inv => TypeOK
  BY DEF Inv
<1> QED
  BY <1>1, Invariance, PTL

\* Player::client and ProtocolGame::player point at each other or not at all.
THEOREM MutualHolds == Spec => []ClientIsMutual
<1>1. Inv => ClientIsMutual
  BY DEF Inv
<1> QED
  BY <1>1, Invariance, PTL

\* No character is in the game twice.
THEOREM ClonesHold == Spec => []NoClones
<1>1. Inv => NoClones
  BY DEF Inv
<1> QED
  BY <1>1, Invariance, PTL

\* The reference counter of every player is exact: at most one protocol holds it, its client.
THEOREM ReferencesHold == Spec => []ReferencesExact
<1>1. Inv => ReferencesExact
  <2> SUFFICES ASSUME Inv, NEW o \in Objects
               PROVE  references[o] = Cardinality(Holders(o))
                                        + Cardinality({o} \cap (inGame \cup toRelease))
    BY DEF ReferencesExact
  <2>1. references[o] = Held(o) + Kept(o)
    BY DEF Inv, ReferencesCounted
  <2>2. Held(o) = Cardinality(Holders(o))
    <3>1. CASE client[o] = NoConnection
      <4>1. Holders(o) = {}
        BY <3>1, SessionAssumption DEF Inv, ClientIsMutual, Holders
      <4> QED
        BY <3>1, <4>1, FS_EmptySet DEF Held
    <3>2. CASE client[o] # NoConnection
      <4>1. Holders(o) = {client[o]}
        BY <3>2 DEF Inv, TypeOK, ClientIsMutual, Holders
      <4> QED
        BY <3>2, <4>1, FS_Singleton DEF Held
    <3> QED
      BY <3>1, <3>2
  <2>3. Kept(o) = Cardinality({o} \cap (inGame \cup toRelease))
    <3>1. CASE o \in inGame \cup toRelease
      <4>1. {o} \cap (inGame \cup toRelease) = {o}
        BY <3>1
      <4> QED
        BY <3>1, <4>1, FS_Singleton DEF Kept
    <3>2. CASE o \notin inGame \cup toRelease
      <4>1. {o} \cap (inGame \cup toRelease) = {}
        BY <3>2
      <4> QED
        BY <3>2, <4>1, FS_EmptySet DEF Kept
    <3> QED
      BY <3>1, <3>2
  <2> QED
    BY <2>1, <2>2, <2>3
<1> QED
  BY <1>1, Invariance, PTL

-----------------------------------------------------------------------------
(* What OutputMessagePool keeps *)

\* The connection is open, or its protocol will be released.
Attended(queue, st, c) ==
    st[c] = "open" \/ \E i \in DOMAIN queue : queue[i] = ReleaseTask(c)

\* A login that waits is of such a connection, and the release waits behind it.
LoginsAttended(queue, st) ==
    \A c \in Connections : \A i \in Logins(queue, c) :
        st[c] = "open" \/ \E j \in DOMAIN queue : j > i /\ queue[j] = ReleaseTask(c)

Watched(queue, st, sending) ==
    LoginsAttended(queue, st) /\ \A c \in sending : Attended(queue, st, c)

\* A login may be added for an open connection, anything else for any.
LEMMA WatchedAppend ==
    ASSUME NEW q \in Seq(Tasks), NEW t \in Tasks, NEW st, NEW sending, Watched(q, st, sending),
           t.kind = "login" => st[t.of] = "open"
    PROVE  Watched(Append(q, t), st, sending)
<1>1. /\ Len(q) \in Nat
      /\ DOMAIN q = 1 .. Len(q) /\ DOMAIN Append(q, t) = 1 .. Len(q) + 1
      /\ Append(q, t)[Len(q) + 1] = t
      /\ \A i \in 1 .. Len(q) : Append(q, t)[i] = q[i]
  OBVIOUS
<1> DEFINE new == Append(q, t)
<1>2. \A i \in DOMAIN q : i \in DOMAIN new /\ new[i] = q[i]
  BY <1>1
<1>3. \A i \in DOMAIN new : i \in DOMAIN q \/ (i = Len(q) + 1 /\ new[i] = t)
  BY <1>1
<1> HIDE DEF new
<1>4. \A c \in sending : Attended(new, st, c)
  BY <1>2 DEF Attended, Watched
<1>5. ASSUME NEW c \in Connections, NEW i \in Logins(new, c)
      PROVE  st[c] = "open" \/ \E j \in DOMAIN new : j > i /\ new[j] = ReleaseTask(c)
  <2>1. i \in DOMAIN new /\ new[i].kind = "login" /\ new[i].of = c
    BY DEF Logins
  <2>2. CASE i \in DOMAIN q
    <3>1. i \in Logins(q, c)
      BY <1>2, <2>1, <2>2 DEF Logins
    <3>2. st[c] = "open" \/ \E j \in DOMAIN q : j > i /\ q[j] = ReleaseTask(c)
      BY <3>1 DEF Watched, LoginsAttended
    <3> QED
      BY <1>2, <3>2
  <2>3. CASE new[i] = t
    BY <2>1, <2>3
  <2> QED
    BY <1>3, <2>1, <2>2, <2>3
<1>6. Watched(new, st, sending)
  BY <1>4, <1>5 DEF Watched, LoginsAttended
<1> QED
  BY <1>6 DEF new

\* A connection that is closed gets its release behind every login that waits.
LEMMA WatchedPosted ==
    ASSUME NEW q \in Seq(Tasks), NEW st, NEW sending, Watched(q, st, sending),
           sending \subseteq Connections,
           NEW cs \in SUBSET Connections, \A c, d \in cs : c = d,
           NEW closed, \A c \in Connections \ cs : st[c] = "open" => closed[c] = "open"
    PROVE  Watched(Posted(q, cs), closed, sending)
<1>1. CASE cs = {}
  <2>1. Posted(q, cs) = q
    BY <1>1 DEF Posted
  <2>2. \A c \in Connections : st[c] = "open" => closed[c] = "open"
    BY <1>1
  <2>3. \A c \in Connections : Attended(q, st, c) => Attended(q, closed, c)
    BY <2>2 DEF Attended
  <2>4. LoginsAttended(q, closed)
    BY <2>2 DEF Watched, LoginsAttended
  <2> QED
    BY <2>1, <2>3, <2>4 DEF Watched
<1>2. CASE cs # {}
  <2>1. PICK d \in cs : \A c \in cs : c = d
    BY <1>2
  <2>2. (CHOOSE c \in cs : TRUE) = d
    BY <2>1
  <2>3. Posted(q, cs) = Append(q, ReleaseTask(d))
    BY <1>2, <2>2 DEF Posted
  <2>4. /\ Len(q) \in Nat
        /\ DOMAIN q = 1 .. Len(q) /\ DOMAIN Append(q, ReleaseTask(d)) = 1 .. Len(q) + 1
        /\ Append(q, ReleaseTask(d))[Len(q) + 1] = ReleaseTask(d)
        /\ \A i \in 1 .. Len(q) : Append(q, ReleaseTask(d))[i] = q[i]
    OBVIOUS
  <2> DEFINE new == Append(q, ReleaseTask(d))
  <2>5. /\ \A i \in DOMAIN q : i \in DOMAIN new /\ new[i] = q[i]
        /\ \A i \in DOMAIN q : Len(q) + 1 > i
        /\ Len(q) + 1 \in DOMAIN new /\ new[Len(q) + 1] = ReleaseTask(d)
        /\ \A i \in DOMAIN new : i \in DOMAIN q \/ new[i] = ReleaseTask(d)
    BY <2>4
  <2> HIDE DEF new
  <2>6. \A c \in Connections : c # d => (st[c] = "open" => closed[c] = "open")
    BY <2>1
  <2>7. ASSUME NEW c \in sending PROVE Attended(new, closed, c)
    <3>1. c \in Connections /\ Attended(q, st, c)
      BY DEF Watched
    <3> QED
      BY <2>5, <2>6, <3>1 DEF Attended
  <2>8. ASSUME NEW c \in Connections, NEW i \in Logins(new, c)
        PROVE  closed[c] = "open" \/ \E j \in DOMAIN new : j > i /\ new[j] = ReleaseTask(c)
    <3>1. i \in DOMAIN q
      BY <2>5 DEF Logins, ReleaseTask
    <3>2. i \in Logins(q, c)
      BY <2>5, <3>1 DEF Logins
    <3>3. CASE c = d
      BY <2>5, <3>1, <3>3
    <3>4. CASE c # d
      <4>1. st[c] = "open" \/ \E j \in DOMAIN q : j > i /\ q[j] = ReleaseTask(c)
        BY <3>2 DEF Watched, LoginsAttended
      <4> QED
        BY <2>5, <2>6, <3>4, <4>1
    <3> QED
      BY <3>3, <3>4
  <2>9. Watched(new, closed, sending)
    BY <2>7, <2>8 DEF Watched, LoginsAttended
  <2> QED
    BY <2>3, <2>9 DEF new
<1> QED
  BY <1>1, <1>2

\* The first task is taken: a login may let its protocol be sent for, a release ends that.
LEMMA WatchedTail ==
    ASSUME NEW q \in Seq(Tasks), q # <<>>, NEW st, NEW sending, Watched(q, st, sending),
           NEW next \in SUBSET Connections,
           \A c \in next : \/ c \in sending
                           \/ Head(q).kind = "login" /\ Head(q).of = c,
           \A c \in next : Head(q) # ReleaseTask(c)
    PROVE  Watched(Tail(q), st, next)
<1>1. /\ Len(q) \in Nat \ {0} /\ Head(q) = q[1]
      /\ DOMAIN q = 1 .. Len(q) /\ DOMAIN Tail(q) = 1 .. Len(q) - 1
      /\ \A i \in 1 .. Len(q) - 1 : Tail(q)[i] = q[i + 1]
  OBVIOUS
<1> DEFINE new == Tail(q)
<1>2. \A i \in DOMAIN new : i \in Nat /\ i + 1 \in DOMAIN q /\ new[i] = q[i + 1]
  BY <1>1
<1>3. \A j \in DOMAIN q : j \in Nat /\ (j > 1 => j - 1 \in DOMAIN new /\ new[j - 1] = q[j])
  BY <1>1
<1>4. \A j \in DOMAIN q : j = 1 \/ j > 1
  BY <1>1
<1>5. 1 \in DOMAIN q /\ Head(q) = q[1]
  BY <1>1
<1> HIDE DEF new
<1>6. ASSUME NEW c \in Connections, NEW i \in Logins(new, c)
      PROVE  st[c] = "open" \/ \E j \in DOMAIN new : j > i /\ new[j] = ReleaseTask(c)
  <2>1. i \in Nat /\ i + 1 \in Logins(q, c)
    BY <1>2 DEF Logins
  <2>2. st[c] = "open" \/ \E j \in DOMAIN q : j > i + 1 /\ q[j] = ReleaseTask(c)
    BY <2>1 DEF Watched, LoginsAttended
  <2>3. ASSUME NEW j \in DOMAIN q, j > i + 1, q[j] = ReleaseTask(c)
        PROVE  j - 1 \in DOMAIN new /\ j - 1 > i /\ new[j - 1] = ReleaseTask(c)
    BY <1>3, <2>1, <2>3
  <2> QED
    BY <2>2, <2>3
<1>7. ASSUME NEW c \in next PROVE Attended(new, st, c)
  <2>1. st[c] = "open" \/ \E j \in DOMAIN q : j > 1 /\ q[j] = ReleaseTask(c)
    <3>1. CASE c \in sending
      <4>1. st[c] = "open" \/ \E j \in DOMAIN q : q[j] = ReleaseTask(c)
        BY <3>1 DEF Watched, Attended
      <4>2. q[1] # ReleaseTask(c)
        BY <1>5
      <4> QED
        BY <1>4, <4>1, <4>2
    <3>2. CASE Head(q).kind = "login" /\ Head(q).of = c
      <4>1. 1 \in Logins(q, c)
        BY <1>5, <3>2 DEF Logins
      <4> QED
        BY <4>1 DEF Watched, LoginsAttended
    <3> QED
      BY <3>1, <3>2
  <2> QED
    BY <1>3, <2>1 DEF Attended
<1>8. Watched(new, st, next)
  BY <1>6, <1>7 DEF Watched, LoginsAttended
<1> QED
  BY <1>8 DEF new

\* The connections that the manager keeps are the open ones, and whoever is sent for is attended.
Attention ==
    /\ \A c \in Connections : state[c] = "open" <=> c \in managed
    /\ Watched(tasks, state, autosend)

\* close(), after the tasks have become q and the protocols that are sent for as.
LEMMA AttentionClosing ==
    ASSUME NetworkType, Attention, NEW q \in Seq(Tasks), Watched(q, state, autosend'),
           autosend' \subseteq Connections,
           NEW cs \in SUBSET Connections, \A c, d \in cs : c = d,
           NEW force, NEW sent, Closing(cs, force, sent), tasks' = Posted(q, cs)
    PROVE  Attention'
<1>1. \A c \in Connections : state'[c] = IF c \in cs THEN "disconnected" ELSE state[c]
  BY DEF Closing
<1>2. \A c \in Connections \ cs : state[c] = "open" => state'[c] = "open"
  BY <1>1
<1>3. Watched(tasks', state', autosend')
  BY <1>2, WatchedPosted
<1>4. \A c \in Connections : state'[c] = "open" <=> c \in managed'
  BY <1>1 DEF Closing, Attention
<1> QED
  BY <1>3, <1>4 DEF Attention

\* No connection is closed.
LEMMA AttentionStays ==
    ASSUME Attention, Watched(tasks', state, autosend'), UNCHANGED <<state, managed>>
    PROVE  Attention'
  BY DEF Attention

\* What the handlers of a connection do
LEMMA AttentionNetwork ==
    ASSUME Inv, Attention, NEW c \in Connections, Network(c)
    PROVE  Attention'
<1>1. NetworkType /\ tasks \in Seq(Tasks) /\ autosend \subseteq Connections
  BY DEF Inv, TypeOK, NetworkType
<1>2. autosend' = autosend
  BY DEF Network, Accept, RecvFirstMessage, RefuseFirstMessage, RecvLogout, RecvLeave, ReadError,
         ReadAfterClose, TooManyPackets, HandleTimeout, Send, WriteDone, WriteError
<1>3. Watched(tasks, state, autosend)
  BY DEF Attention
<1>4. ASSUME NEW force, NEW sent, Closing({c}, force, sent), tasks' = Posted(tasks, {c})
      PROVE  Attention'
  <2> DEFINE cs == {c}
  <2>1. /\ cs \in SUBSET Connections /\ \A d, e \in cs : d = e
        /\ Closing(cs, force, sent) /\ tasks' = Posted(tasks, cs)
    BY <1>4
  <2> HIDE DEF cs
  <2> QED
    BY <1>1, <1>2, <1>3, <2>1, AttentionClosing
<1>5. CASE RefuseFirstMessage(c)
  <2>1. \E sent \in BOOLEAN : Closing({c}, FALSE, sent)
    BY <1>5 DEF RefuseFirstMessage
  <2>2. tasks' = Posted(tasks, {c})
    BY <1>5 DEF RefuseFirstMessage
  <2> QED
    BY <2>1, <2>2, <1>4, Zenon
<1>6. CASE RecvLeave(c) \/ ReadError(c) \/ TooManyPackets(c) \/ HandleTimeout(c) \/ WriteError(c)
  <2>1. \E force, sent : Closing({c}, force, sent)
    BY <1>6, Zenon DEF RecvLeave, ReadError, TooManyPackets, HandleTimeout, WriteError
  <2>2. tasks' = Posted(tasks, {c})
    BY <1>6 DEF RecvLeave, ReadError, TooManyPackets, HandleTimeout, WriteError
  <2> QED
    BY <2>1, <2>2, <1>4, Zenon
<1>7. CASE Accept(c)
  <2>1. tasks' = tasks /\ state' = [state EXCEPT ![c] = "open"] /\ managed' = managed \cup {c}
    BY <1>7 DEF Accept
  <2>2. \A d \in Connections : state[d] = "open" => state'[d] = "open"
    BY <1>1, <2>1 DEF NetworkType
  <2>3. Watched(tasks, state', autosend)
    BY <1>1, <1>3, <2>2 DEF Watched, LoginsAttended, Attended
  <2> QED
    BY <1>1, <1>2, <2>1, <2>3 DEF Attention, NetworkType
<1>8. ASSUME NEW t \in Tasks, tasks' = Append(tasks, t), t.kind = "login" => state[t.of] = "open",
             UNCHANGED <<state, managed>>
      PROVE  Attention'
  BY <1>1, <1>2, <1>3, <1>8, WatchedAppend, AttentionStays
<1>9. ASSUME NEW n \in Names, RecvFirstMessage(c, n) PROVE Attention'
  <2> DEFINE t == [kind |-> "login", of |-> c, name |-> n]
  <2>1. t \in Tasks /\ (t.kind = "login" => state[t.of] = "open")
    BY <1>9 DEF RecvFirstMessage, Tasks
  <2>2. tasks' = Append(tasks, t) /\ UNCHANGED <<state, managed>>
    BY <1>9 DEF RecvFirstMessage
  <2> HIDE DEF t
  <2> QED
    BY <1>8, <2>1, <2>2
<1>10. CASE RecvLogout(c)
  <2> DEFINE t == [kind |-> "logout", of |-> c, name |-> NoName]
  <2>1. t \in Tasks /\ (t.kind = "login" => state[t.of] = "open")
    BY DEF Tasks
  <2>2. tasks' = Append(tasks, t) /\ UNCHANGED <<state, managed>>
    BY <1>10 DEF RecvLogout, network
  <2> HIDE DEF t
  <2> QED
    BY <1>8, <2>1, <2>2
<1>11. CASE ReadAfterClose(c) \/ Send(c) \/ WriteDone(c)
  <2>1. UNCHANGED <<state, managed, tasks>>
    BY <1>11 DEF ReadAfterClose, Send, WriteDone
  <2> QED
    BY <1>2, <1>3, <2>1, AttentionStays
<1> QED
  BY <1>5, <1>6, <1>7, <1>9, <1>10, <1>11 DEF Network

\* At most one connection is reached.
LEMMA ReachableOne ==
    ASSUME NEW c
    PROVE  Reachable(c) \in SUBSET Connections /\ \A d, e \in Reachable(c) : d = e
  BY DEF Reachable

\* close() of the connection of a protocol, if there is one.
LEMMA AttentionReached ==
    ASSUME NetworkType, Attention, NEW q \in Seq(Tasks), Watched(q, state, autosend'),
           autosend' \subseteq Connections, NEW c,
           NEW force, NEW sent, Closing(Reachable(c), force, sent), tasks' = Posted(q, Reachable(c))
    PROVE  Attention'
<1> DEFINE cs == Reachable(c)
<1>1. /\ cs \in SUBSET Connections /\ \A d, e \in cs : d = e
      /\ Closing(cs, force, sent) /\ tasks' = Posted(q, cs)
  BY ReachableOne
<1> HIDE DEF cs
<1> QED
  BY <1>1, AttentionClosing

\* disconnectClient()
LEMMA AttentionDisconnects ==
    ASSUME NetworkType, Attention, NEW q \in Seq(Tasks), Watched(q, state, autosend'),
           autosend' \subseteq Connections, NEW c, DisconnectClient(c, q)
    PROVE  Attention'
<1> DEFINE sent == state[c] = "open"
           force == FALSE
<1>1. Closing(Reachable(c), force, sent)
  BY Zenon DEF DisconnectClient
<1>2. tasks' = Posted(q, Reachable(c))
  BY DEF DisconnectClient
<1> HIDE DEF sent, force
<1> QED
  BY <1>1, <1>2, AttentionReached

\* The task that is taken is a login, a release or a logout; what comes of it is watched.
LEMMA TaskWatched ==
    ASSUME Inv, Attention, NEW c \in Connections, NEW kind, IsNext(kind, c),
           NEW next \in SUBSET Connections,
           \/ kind = "login" /\ next \in {autosend, autosend \cup {c}}
           \/ kind = "release" /\ next = autosend \ {c}
           \/ kind = "logout" /\ next = autosend
    PROVE  Tail(tasks) \in Seq(Tasks) /\ Watched(Tail(tasks), state, next)
<1>1. /\ tasks \in Seq(Tasks) /\ tasks # <<>>
      /\ Tail(tasks) \in Seq(Tasks)
      /\ Head(tasks).kind = kind /\ Head(tasks).of = c
  BY DEF Inv, TypeOK, IsNext
<1>2. Watched(tasks, state, autosend)
  BY DEF Attention
<1>3. \A d : ReleaseTask(d).kind = "release" /\ ReleaseTask(d).of = d
  BY DEF ReleaseTask
<1>4. /\ \A d \in next : d \in autosend \/ (Head(tasks).kind = "login" /\ Head(tasks).of = d)
      /\ \A d \in next : Head(tasks) # ReleaseTask(d)
  BY <1>1, <1>3
<1> QED
  BY <1>1, <1>2, <1>4, WatchedTail

\* What the dispatcher does
LEMMA AttentionTasks ==
    ASSUME Inv, Attention, NEW c \in Connections,
           \/ Release(c) \/ LoginConnects(c) \/ LoginReplaces(c) \/ LoginRefused(c)
           \/ \E outcome \in {"refused", "stuck", "placed"} : Login(c, outcome)
           \/ Connect(c) \/ Logout(c)
    PROVE  Attention'
<1>1. NetworkType /\ tasks \in Seq(Tasks) /\ autosend \subseteq Connections
  BY DEF Inv, TypeOK, NetworkType
<1>2. Watched(tasks, state, autosend)
  BY DEF Attention
<1>3. CASE Release(c)
  <2>1. IsNext("release", c) /\ tasks' = Tail(tasks) /\ autosend' = autosend \ {c}
        /\ UNCHANGED network
    BY <1>3 DEF Release
  <2>2. autosend' \in SUBSET Connections
    BY <1>1, <2>1
  <2>3. Watched(tasks', state, autosend')
    BY <2>1, <2>2, TaskWatched
  <2> QED
    BY <2>1, <2>3, AttentionStays DEF network
<1>4. CASE LoginConnects(c)
  <2>1. IsNext("login", c) /\ tasks' = Tail(tasks) /\ autosend' = autosend \cup {c}
        /\ UNCHANGED network
    BY <1>4 DEF LoginConnects
  <2>2. autosend' \in SUBSET Connections
    BY <1>1, <2>1
  <2>3. Watched(tasks', state, autosend')
    BY <2>1, <2>2, TaskWatched
  <2> QED
    BY <2>1, <2>3, AttentionStays DEF network
<1>5. CASE LoginReplaces(c)
  <2>1. IsNext("login", c) /\ autosend' = autosend \cup {c}
    BY <1>5 DEF LoginReplaces
  <2>2. PICK d : Closing(Reachable(d), FALSE, FALSE) /\ tasks' = Posted(Tail(tasks), Reachable(d))
    BY <1>5, Zenon DEF LoginReplaces
  <2>3. Watched(Tail(tasks), state, autosend') /\ Tail(tasks) \in Seq(Tasks)
    <3>1. autosend' \in SUBSET Connections
      BY <1>1, <2>1
    <3> QED
      BY <2>1, <3>1, TaskWatched
  <2> DEFINE no == FALSE
  <2>4. Closing(Reachable(d), no, no)
    BY <2>2, Zenon
  <2> HIDE DEF no
  <2> QED
    BY <1>1, <2>1, <2>2, <2>3, <2>4, AttentionReached
<1>6. CASE LoginRefused(c)
  <2>1. IsNext("login", c) /\ autosend' = autosend /\ DisconnectClient(c, Tail(tasks))
    BY <1>6 DEF LoginRefused
  <2>2. Watched(Tail(tasks), state, autosend') /\ Tail(tasks) \in Seq(Tasks)
    <3>1. autosend' \in SUBSET Connections
      BY <1>1, <2>1
    <3> QED
      BY <2>1, <3>1, TaskWatched
  <2> QED
    BY <1>1, <2>1, <2>2, AttentionDisconnects
<1>7. ASSUME NEW outcome \in {"refused", "stuck", "placed"}, Login(c, outcome) PROVE Attention'
  <2>1. /\ IsNext("login", c)
        /\ autosend' = IF outcome = "placed" THEN autosend \cup {c} ELSE autosend
        /\ IF outcome = "refused" THEN DisconnectClient(c, Tail(tasks))
                                  ELSE tasks' = Tail(tasks) /\ UNCHANGED network
    BY <1>7 DEF Login
  <2>2. Tail(tasks) \in Seq(Tasks) /\ Watched(Tail(tasks), state, autosend')
    <3>1. autosend' \in SUBSET Connections /\ autosend' \in {autosend, autosend \cup {c}}
      BY <1>1, <2>1
    <3> QED
      BY <2>1, <3>1, TaskWatched
  <2>3. autosend' \subseteq Connections
    BY <1>1, <2>1
  <2>4. CASE outcome = "refused"
    BY <1>1, <2>1, <2>2, <2>3, <2>4, AttentionDisconnects
  <2>5. CASE outcome # "refused"
    BY <2>1, <2>2, <2>5, AttentionStays DEF network
  <2> QED
    BY <2>4, <2>5
<1>8. CASE Connect(c)
  <2>1. autosend' = autosend
    BY <1>8 DEF Connect
  <2>2. DisconnectClient(c, tasks) \/ UNCHANGED <<network, tasks>>
    BY <1>8, Zenon DEF Connect
  <2>3. CASE DisconnectClient(c, tasks)
    BY <1>1, <1>2, <2>1, <2>3, AttentionDisconnects
  <2>4. CASE UNCHANGED <<network, tasks>>
    BY <1>2, <2>1, <2>4, AttentionStays DEF network
  <2> QED
    BY <2>2, <2>3, <2>4
<1>9. CASE Logout(c)
  <2>1. IsNext("logout", c) /\ autosend' = autosend
    BY <1>9 DEF Logout
  <2>2. Watched(Tail(tasks), state, autosend') /\ Tail(tasks) \in Seq(Tasks)
    <3>1. autosend' \in SUBSET Connections
      BY <1>1, <2>1
    <3> QED
      BY <2>1, <3>1, TaskWatched
  <2>3. CASE Closing(Reachable(c), FALSE, FALSE) /\ tasks' = Posted(Tail(tasks), Reachable(c))
    <3> DEFINE no == FALSE
    <3>1. Closing(Reachable(c), no, no)
      BY <2>3, Zenon
    <3> HIDE DEF no
    <3> QED
      BY <1>1, <2>1, <2>2, <2>3, <3>1, AttentionReached
  <2>4. CASE tasks' = Tail(tasks) /\ UNCHANGED <<state, managed>>
    BY <2>2, <2>4, AttentionStays
  <2>5. \/ Closing(Reachable(c), FALSE, FALSE) /\ tasks' = Posted(Tail(tasks), Reachable(c))
        \/ tasks' = Tail(tasks) /\ UNCHANGED <<state, managed>>
    BY <1>9, Zenon DEF Logout
  <2> QED
    BY <2>3, <2>4, <2>5
<1> QED
  BY <1>3, <1>4, <1>5, <1>6, <1>7, <1>8, <1>9

\* Kicked, killed, and cleaned up
LEMMA AttentionRemoves ==
    ASSUME Inv, Attention, Cleanup \/ \E o \in Objects : Kick(o) \/ Death(o)
    PROVE  Attention'
<1>1. NetworkType /\ tasks \in Seq(Tasks) /\ autosend \subseteq Connections
  BY DEF Inv, TypeOK, NetworkType
<1>2. Watched(tasks, state, autosend)
  BY DEF Attention
<1>3. ASSUME NEW o \in Objects, Kick(o) PROVE Attention'
  <2>1. autosend' = autosend /\ tasks' = Posted(tasks, Reachable(client[o]))
    BY <1>3 DEF Kick
  <2> DEFINE no == FALSE
  <2>2. Closing(Reachable(client[o]), no, no)
    BY <1>3, Zenon DEF Kick
  <2> HIDE DEF no
  <2> QED
    BY <1>1, <1>2, <2>1, <2>2, AttentionReached
<1>4. CASE Cleanup \/ \E o \in Objects : Death(o)
  <2>1. UNCHANGED <<network, tasks, autosend>>
    BY <1>4 DEF Cleanup, Death
  <2> QED
    BY <1>2, <2>1, AttentionStays DEF network
<1> QED
  BY <1>3, <1>4

\* Attention holds in every state.
THEOREM AttentionHolds == Spec => []Attention
<1>1. Init => Attention
  BY DEF Init, Attention, Watched, LoginsAttended, Logins
<1>2. Inv /\ Attention /\ [Next]_vars => Attention'
  <2> SUFFICES ASSUME Inv, Attention, [Next]_vars PROVE Attention'
    OBVIOUS
  <2>1. CASE UNCHANGED vars
    BY <2>1 DEF vars, network, Attention
  <2>2. CASE Next
    BY <2>2, AttentionNetwork, AttentionTasks, AttentionRemoves DEF Next
  <2> QED
    BY <2>1, <2>2
<1> QED
  BY <1>1, <1>2, Invariance, PTL DEF Spec

\* OutputMessagePool sends for no protocol whose connection no longer exists and that will
\* not be released.
THEOREM AutosendHolds == Spec => []AutosendForgets
<1>1. Inv /\ Attention => AutosendForgets
  <2> SUFFICES ASSUME Inv, Attention, NEW c \in autosend
               PROVE  ~Expired(c) \/ \E i \in DOMAIN tasks : tasks[i] = ReleaseTask(c)
    BY DEF AutosendForgets
  <2>1. c \in Connections /\ Attended(tasks, state, c)
    BY DEF Inv, TypeOK, Attention, Watched
  <2> QED
    BY <2>1 DEF Attention, Attended, Expired
<1> QED
  BY <1>1, Invariance, AttentionHolds, PTL

-----------------------------------------------------------------------------
(* The login queue: lists that only became shorter *)

\* f tells where each entry of a list was, which only lost entries since.
Thins(f, new, old) ==
    /\ f \in [1 .. Len(new) -> 1 .. Len(old)]
    /\ \A n \in 1 .. Len(new) : new[n] = old[f[n]] /\ n <= f[n]
    /\ \A m, n \in 1 .. Len(new) : m < n => f[m] < f[n]

Stays(f, new, i) == \E n \in 1 .. Len(new) : f[n] = i

LEMMA UpTo ==
    ASSUME NEW n \in Nat
    PROVE  IsFiniteSet(1 .. n) /\ Cardinality(1 .. n) = n
<1>1. IsFiniteSet(1 .. n) /\ Cardinality(1 .. n) = IF 1 > n THEN 0 ELSE n - 1 + 1
  BY FS_Interval
<1> QED
  BY <1>1

Before(S, s) == {i \in S : i <= s}

Rank(S, s) == Cardinality(Before(S, s))

\* The ranks of the numbers of a set are 1, 2, and so on.
LEMMA Ranks ==
    ASSUME NEW L \in Nat, NEW S \in SUBSET (1 .. L)
    PROVE  /\ Cardinality(S) \in Nat
           /\ \A n \in 1 .. Cardinality(S) : \E s \in S : Rank(S, s) = n
           /\ \A s \in S : Rank(S, s) \in 1 .. Cardinality(S) /\ Rank(S, s) <= s
           /\ \A s, t \in S : s < t => Rank(S, s) < Rank(S, t)
<1> DEFINE N == Cardinality(S)
           rank == [s \in S |-> Rank(S, s)]
<1>1. IsFiniteSet(S) /\ N \in Nat
  <2>1. IsFiniteSet(1 .. L)
    BY UpTo
  <2>2. IsFiniteSet(S)
    BY <2>1, FS_Subset
  <2> QED
    BY <2>2, FS_CardinalityType
<1>0. \A s \in S : s \in Int /\ 1 <= s
  OBVIOUS
<1>2. \A s \in S : IsFiniteSet(Before(S, s)) /\ Rank(S, s) \in 1 .. N
  <2> SUFFICES ASSUME NEW s \in S
               PROVE  IsFiniteSet(Before(S, s)) /\ Rank(S, s) \in 1 .. N
    OBVIOUS
  <2>1. Before(S, s) \subseteq S /\ s \in Before(S, s)
    BY <1>0 DEF Before
  <2>2. IsFiniteSet(Before(S, s)) /\ Rank(S, s) <= N
    BY <2>1, <1>1, FS_Subset DEF Rank
  <2>3. Rank(S, s) \in Nat /\ Rank(S, s) # 0
    BY <2>1, <2>2, FS_CardinalityType, FS_EmptySet DEF Rank
  <2> QED
    BY <2>2, <2>3, <1>1
<1>3. \A s \in S : Rank(S, s) <= s
  <2> SUFFICES ASSUME NEW s \in S
               PROVE  Rank(S, s) <= s
    OBVIOUS
  <2>1. Before(S, s) \subseteq 1 .. s /\ s \in Int /\ 1 <= s
    <3>1. \A i \in Before(S, s) : i \in Int /\ 1 <= i /\ i <= s
      BY <1>0 DEF Before
    <3> QED
      BY <1>0, <3>1
  <2>2. IsFiniteSet(1 .. s) /\ Cardinality(1 .. s) = s
    BY <2>1, UpTo
  <2>3. Cardinality(Before(S, s)) <= Cardinality(1 .. s)
    BY <2>1, <2>2, FS_Subset
  <2> QED
    BY <2>2, <2>3 DEF Rank
<1>4. \A s, t \in S : s < t => Rank(S, s) < Rank(S, t)
  <2> SUFFICES ASSUME NEW s \in S, NEW t \in S, s < t
               PROVE  Rank(S, s) < Rank(S, t)
    OBVIOUS
  <2>1. Before(S, s) \subseteq Before(S, t) /\ t \in Before(S, t) /\ t \notin Before(S, s)
    <3>1. s \in Int /\ t \in Int /\ \A i \in S : i \in Int
      BY <1>0
    <3>2. t \in Before(S, t) /\ t \notin Before(S, s)
      BY <3>1 DEF Before
    <3>3. \A i \in S : i <= s => i <= t
      BY <3>1
    <3>4. Before(S, s) \subseteq Before(S, t)
      BY <3>3 DEF Before
    <3> QED
      BY <3>2, <3>4
  <2>2. Rank(S, s) <= Rank(S, t) /\ (Rank(S, s) = Rank(S, t) => Before(S, s) = Before(S, t))
    BY <2>1, <1>2, FS_Subset DEF Rank
  <2>3. Rank(S, s) # Rank(S, t)
    BY <2>1, <2>2
  <2>4. Rank(S, s) \in Nat /\ Rank(S, t) \in Nat
    BY <1>1, <1>2
  <2> QED
    BY <2>2, <2>3, <2>4
<1>5. rank \in Injection(S, 1 .. N)
  <2>1. rank \in [S -> 1 .. N]
    BY <1>2
  <2>2. \A s, t \in S : rank[s] = rank[t] => s = t
    <3> SUFFICES ASSUME NEW s \in S, NEW t \in S, Rank(S, s) = Rank(S, t)
                 PROVE  s = t
      OBVIOUS
    <3>1. ~(s < t) /\ ~(t < s)
      BY <1>1, <1>2, <1>4
    <3> QED
      BY <3>1
  <2> QED
    BY <2>1, <2>2 DEF Injection, IsInjective
<1>6. rank \in Surjection(S, 1 .. N)
  <2>1. IsFiniteSet(1 .. N) /\ Cardinality(1 .. N) = N
    BY <1>1, UpTo
  <2> HIDE DEF rank
  <2> QED
    BY <1>5, <2>1, FS_Injection
<1>7. \A n \in 1 .. N : \E s \in S : Rank(S, s) = n
  BY <1>6 DEF Surjection
<1> QED
  BY <1>1, <1>2, <1>3, <1>4, <1>7

\* cleanupList() keeps the entries that are not expired, in their order.
LEMMA CleanupThins ==
    ASSUME NEW list \in Seq(Entries)
    PROVE  /\ CleanupList(list) \in Seq(Entries)
           /\ \E f : /\ Thins(f, CleanupList(list), list)
                     /\ \A i \in DOMAIN list : ~IsExpired(list[i]) => Stays(f, CleanupList(list), i)
<1> DEFINE kept == {slot \in DOMAIN list : ~IsExpired(list[slot])}
           N == Cardinality(kept)
           f == [n \in 1 .. N |-> CHOOSE slot \in kept : Rank(kept, slot) = n]
           new == CleanupList(list)
<1>1. /\ Len(list) \in Nat /\ DOMAIN list = 1 .. Len(list)
      /\ kept \in SUBSET (1 .. Len(list))
      /\ \A i \in 1 .. Len(list) : list[i] \in Entries
  OBVIOUS
<1>2. new = [n \in 1 .. N |-> list[CHOOSE slot \in kept : Rank(kept, slot) = n]]
  BY DEF CleanupList, Rank, Before
<1>3. \A i \in DOMAIN list : ~IsExpired(list[i]) => i \in kept
  OBVIOUS
<1> HIDE DEF kept, new
<1>4. /\ N \in Nat
      /\ \A n \in 1 .. N : \E s \in kept : Rank(kept, s) = n
      /\ \A s \in kept : Rank(kept, s) \in 1 .. N /\ Rank(kept, s) <= s
      /\ \A s, t \in kept : s < t => Rank(kept, s) < Rank(kept, t)
  BY <1>1, Ranks
<1> HIDE DEF N
<1>5. \A n \in 1 .. N : f[n] \in kept /\ Rank(kept, f[n]) = n
  BY <1>4
<1>6. new = [n \in 1 .. N |-> list[f[n]]]
  BY <1>2
<1>7. \A s \in kept : s = f[Rank(kept, s)]
  <2> SUFFICES ASSUME NEW s \in kept
               PROVE  s = f[Rank(kept, s)]
    OBVIOUS
  <2> DEFINE r == f[Rank(kept, s)]
  <2>1. r \in kept /\ Rank(kept, r) = Rank(kept, s) /\ Rank(kept, s) \in Int
    BY <1>4, <1>5
  <2> HIDE DEF r, f
  <2>2. ~(r < s) /\ ~(s < r)
    BY <2>1, <1>4
  <2>3. r \in Int /\ s \in Int
    BY <1>1, <2>1
  <2>4. r = s
    BY <2>2, <2>3
  <2> QED
    BY <2>4 DEF r
<1> DEFINE domain == [1 .. N -> 1 .. Len(list)]
<1>8. f \in domain
  BY <1>1, <1>5
<1> HIDE DEF f
<1>9. \A n \in 1 .. N : f[n] \in 1 .. Len(list) /\ n <= f[n] /\ list[f[n]] \in Entries
  BY <1>1, <1>4, <1>5
<1>10. \A m, n \in 1 .. N : m < n => f[m] < f[n]
  <2> SUFFICES ASSUME NEW m \in 1 .. N, NEW n \in 1 .. N, m < n, ~(f[m] < f[n])
               PROVE  FALSE
    OBVIOUS
  <2>1. f[m] \in Int /\ f[n] \in Int
    BY <1>9
  <2>2. f[n] = f[m] \/ f[n] < f[m]
    BY <2>1
  <2>3. Rank(kept, f[m]) = m /\ Rank(kept, f[n]) = n /\ f[m] \in kept /\ f[n] \in kept
    BY <1>5
  <2>4. m \in Int /\ n \in Int
    BY <1>4
  <2> QED
    BY <2>2, <2>3, <2>4, <1>4
<1>11. /\ new \in Seq(Entries) /\ Len(new) = N
       /\ \A n \in 1 .. N : new[n] = list[f[n]]
  BY <1>4, <1>6, <1>9
<1>12. Thins(f, new, list)
  BY <1>8, <1>9, <1>10, <1>11 DEF Thins
<1>13. \A i \in DOMAIN list : ~IsExpired(list[i]) => Stays(f, new, i)
  BY <1>3, <1>4, <1>7, <1>11 DEF Stays
<1> QED
  BY <1>11, <1>12, <1>13 DEF new

\* Two lists, one behind the other, lost what each of them lost.
LEMMA JoinThins ==
    ASSUME NEW p \in Seq(Entries), NEW w \in Seq(Entries),
           NEW pp \in Seq(Entries), NEW ww \in Seq(Entries),
           NEW f, NEW g, Thins(f, pp, p), Thins(g, ww, w)
    PROVE  \E h : /\ Thins(h, pp \o ww, p \o w)
                  /\ \A i \in 1 .. Len(p) : Stays(f, pp, i) => Stays(h, pp \o ww, i)
                  /\ \A i \in 1 .. Len(w) : Stays(g, ww, i) => Stays(h, pp \o ww, Len(p) + i)
<1> DEFINE h == [n \in 1 .. Len(pp \o ww) |->
                    IF n <= Len(pp) THEN f[n] ELSE Len(p) + g[n - Len(pp)]]
<1>1. /\ Len(p) \in Nat /\ Len(w) \in Nat /\ Len(pp) \in Nat /\ Len(ww) \in Nat
      /\ Len(pp \o ww) = Len(pp) + Len(ww) /\ Len(p \o w) = Len(p) + Len(w)
      /\ \A i \in 1 .. Len(pp) : (pp \o ww)[i] = pp[i]
      /\ \A i \in 1 .. Len(ww) : (pp \o ww)[Len(pp) + i] = ww[i]
      /\ \A i \in 1 .. Len(p) : (p \o w)[i] = p[i]
      /\ \A i \in 1 .. Len(w) : (p \o w)[Len(p) + i] = w[i]
  OBVIOUS
<1>2. Len(pp) <= Len(p)
  <2>1. CASE Len(pp) = 0
    BY <1>1, <2>1
  <2>2. CASE Len(pp) # 0
    <3>1. Len(pp) \in 1 .. Len(pp)
      BY <1>1, <2>2
    <3>2. f[Len(pp)] \in 1 .. Len(p) /\ Len(pp) <= f[Len(pp)]
      BY <3>1 DEF Thins
    <3> QED
      BY <1>1, <3>2
  <2> QED
    BY <1>1, <2>1, <2>2
<1>3. /\ \A n \in 1 .. Len(pp) : f[n] \in 1 .. Len(p) /\ pp[n] = p[f[n]] /\ n <= f[n]
      /\ \A n \in 1 .. Len(ww) : g[n] \in 1 .. Len(w) /\ ww[n] = w[g[n]] /\ n <= g[n]
      /\ \A m, n \in 1 .. Len(pp) : m < n => f[m] < f[n]
      /\ \A m, n \in 1 .. Len(ww) : m < n => g[m] < g[n]
  BY DEF Thins
<1>4. /\ \A n \in 1 .. Len(pp) : n \in 1 .. Len(pp \o ww) /\ h[n] = f[n]
      /\ \A n \in 1 .. Len(ww) : Len(pp) + n \in 1 .. Len(pp \o ww)
                                 /\ h[Len(pp) + n] = Len(p) + g[n]
      /\ \A n \in 1 .. Len(pp \o ww) :
            n \in 1 .. Len(pp) \/ \E k \in 1 .. Len(ww) : n = Len(pp) + k
  <2>1. \A n \in 1 .. Len(pp) : n \in 1 .. Len(pp \o ww) /\ h[n] = f[n]
    BY <1>1
  <2>2. \A n \in 1 .. Len(ww) : Len(pp) + n \in 1 .. Len(pp \o ww)
                                 /\ h[Len(pp) + n] = Len(p) + g[n]
    <3> SUFFICES ASSUME NEW n \in 1 .. Len(ww)
                 PROVE  Len(pp) + n \in 1 .. Len(pp \o ww)
                        /\ h[Len(pp) + n] = Len(p) + g[n]
      OBVIOUS
    <3>1. Len(pp) + n \in 1 .. Len(pp \o ww) /\ ~(Len(pp) + n <= Len(pp))
          /\ Len(pp) + n - Len(pp) = n
      BY <1>1
    <3> QED
      BY <3>1
  <2>3. ASSUME NEW n \in 1 .. Len(pp \o ww), n \notin 1 .. Len(pp)
        PROVE  n - Len(pp) \in 1 .. Len(ww) /\ n = Len(pp) + (n - Len(pp))
    BY <1>1, <2>3
  <2> HIDE DEF h
  <2> QED
    BY <2>1, <2>2, <2>3
<1> DEFINE L == Len(pp \o ww)
<1> HIDE DEF h
<1>5. \A n \in 1 .. L : h[n] \in 1 .. Len(p \o w) /\ (pp \o ww)[n] = (p \o w)[h[n]] /\ n <= h[n]
  <2> SUFFICES ASSUME NEW n \in 1 .. L
               PROVE  h[n] \in 1 .. Len(p \o w) /\ (pp \o ww)[n] = (p \o w)[h[n]] /\ n <= h[n]
    OBVIOUS
  <2>1. CASE n \in 1 .. Len(pp)
    BY <2>1, <1>1, <1>3, <1>4
  <2>2. ASSUME NEW k \in 1 .. Len(ww), n = Len(pp) + k
        PROVE  h[n] \in 1 .. Len(p \o w) /\ (pp \o ww)[n] = (p \o w)[h[n]] /\ n <= h[n]
    <3>1. h[n] = Len(p) + g[k] /\ g[k] \in 1 .. Len(w) /\ k <= g[k]
      BY <2>2, <1>3, <1>4
    <3>2. (pp \o ww)[n] = ww[k] /\ ww[k] = w[g[k]] /\ (p \o w)[h[n]] = w[g[k]]
      BY <2>2, <3>1, <1>1, <1>3
    <3>3. /\ Len(p) \in Nat /\ Len(pp) \in Nat /\ Len(w) \in Nat /\ Len(ww) \in Nat
          /\ Len(pp) <= Len(p) /\ Len(p \o w) = Len(p) + Len(w)
      BY <1>1, <1>2
    <3>4. h[n] \in 1 .. Len(p \o w)
      BY <3>1, <3>3
    <3>5. Len(pp) + k <= Len(p) + g[k]
      BY <3>1, <3>3
    <3>6. n <= h[n]
      BY <2>2, <3>1, <3>5
    <3> QED
      BY <3>2, <3>4, <3>6
  <2> QED
    BY <2>1, <2>2, <1>4
<1>6. \A m, n \in 1 .. L : m < n => h[m] < h[n]
  <2> SUFFICES ASSUME NEW m \in 1 .. L, NEW n \in 1 .. L, m < n
               PROVE  h[m] < h[n]
    OBVIOUS
  <2>1. CASE m \in 1 .. Len(pp) /\ n \in 1 .. Len(pp)
    BY <2>1, <1>3, <1>4
  <2>2. ASSUME NEW k \in 1 .. Len(ww), n = Len(pp) + k, m \in 1 .. Len(pp)
        PROVE  h[m] < h[n]
    <3>1. h[m] = f[m] /\ f[m] \in 1 .. Len(p) /\ h[n] = Len(p) + g[k] /\ g[k] \in 1 .. Len(w)
      BY <2>2, <1>3, <1>4
    <3> QED
      BY <3>1, <1>1
  <2>3. ASSUME NEW j \in 1 .. Len(ww), NEW k \in 1 .. Len(ww),
               m = Len(pp) + j, n = Len(pp) + k
        PROVE  h[m] < h[n]
    <3>1. h[m] = Len(p) + g[j] /\ g[j] \in Int /\ h[n] = Len(p) + g[k] /\ g[k] \in Int
      BY <2>3, <1>3, <1>4
    <3>2. j < k
      BY <2>3, <1>1
    <3>3. g[j] < g[k]
      BY <3>2, <1>3
    <3> QED
      BY <3>1, <3>3, <1>1
  <2>4. ASSUME NEW j \in 1 .. Len(ww), m = Len(pp) + j, n \in 1 .. Len(pp)
        PROVE  FALSE
    BY <2>4, <1>1
  <2> QED
    BY <2>1, <2>2, <2>3, <2>4, <1>4
<1>7. h \in [1 .. L -> 1 .. Len(p \o w)]
  BY <1>5 DEF h
<1>8. Thins(h, pp \o ww, p \o w)
  BY <1>5, <1>6, <1>7 DEF Thins
<1>9. \A i \in 1 .. Len(p) : Stays(f, pp, i) => Stays(h, pp \o ww, i)
  BY <1>4 DEF Stays
<1>10. \A i \in 1 .. Len(w) : Stays(g, ww, i) => Stays(h, pp \o ww, Len(p) + i)
  BY <1>4 DEF Stays
<1> QED
  BY <1>8, <1>9, <1>10

\* An entry is taken out of a list.
LEMMA RemoveThins ==
    ASSUME NEW s \in Seq(Entries), NEW k \in 1 .. Len(s)
    PROVE  /\ RemoveAt(s, k) \in Seq(Entries)
           /\ \E f : /\ Thins(f, RemoveAt(s, k), s)
                     /\ \A i \in 1 .. Len(s) : i # k => Stays(f, RemoveAt(s, k), i)
<1> DEFINE r == RemoveAt(s, k)
           f == [n \in 1 .. Len(s) - 1 |-> IF n < k THEN n ELSE n + 1]
<1>1. Len(s) \in Nat /\ \A i \in 1 .. Len(s) : s[i] \in Entries
  OBVIOUS
<1>2. /\ r \in Seq(Entries) /\ Len(r) = Len(s) - 1
      /\ \A n \in 1 .. Len(s) - 1 : r[n] = s[IF n < k THEN n ELSE n + 1]
  <2> DEFINE a == SubSeq(s, 1, k - 1)
             b == SubSeq(s, k + 1, Len(s))
  <2>1. a \in Seq(Entries) /\ Len(a) = k - 1 /\ \A n \in 1 .. k - 1 : a[n] = s[n]
    BY <1>1
  <2>2. b \in Seq(Entries) /\ Len(b) = Len(s) - k /\ \A n \in 1 .. Len(s) - k : b[n] = s[k + n]
    BY <1>1
  <2>3. r = a \o b
    BY DEF RemoveAt
  <2> HIDE DEF a, b, r
  <2>4. r \in Seq(Entries) /\ Len(r) = Len(s) - 1
    BY <1>1, <2>1, <2>2, <2>3
  <2>5. \A n \in 1 .. Len(s) - 1 : r[n] = s[IF n < k THEN n ELSE n + 1]
    <3> SUFFICES ASSUME NEW n \in 1 .. Len(s) - 1
                 PROVE  r[n] = s[IF n < k THEN n ELSE n + 1]
      OBVIOUS
    <3>1. CASE n < k
      BY <1>1, <2>1, <2>2, <2>3, <3>1
    <3>2. CASE ~(n < k)
      <4>1. n - (k - 1) \in 1 .. Len(s) - k /\ k + (n - (k - 1)) = n + 1
        BY <1>1, <3>2
      <4>2. r[n] = b[n - (k - 1)]
        BY <1>1, <2>1, <2>2, <2>3, <3>2
      <4>3. b[n - (k - 1)] = s[n + 1]
        BY <2>2, <4>1
      <4> QED
        BY <3>2, <4>2, <4>3
    <3> QED
      BY <3>1, <3>2
  <2> QED
    BY <2>4, <2>5
<1>3. Thins(f, r, s)
  <2> HIDE DEF r
  <2> QED
    BY <1>1, <1>2 DEF Thins
<1>4. \A i \in 1 .. Len(s) : i # k => Stays(f, r, i)
  <2> SUFFICES ASSUME NEW i \in 1 .. Len(s), i # k
               PROVE  Stays(f, r, i)
    OBVIOUS
  <2>1. CASE i < k
    BY <2>1, <1>1, <1>2 DEF Stays
  <2>2. CASE i > k
    <3>1. i - 1 \in 1 .. Len(r) /\ f[i - 1] = i
      BY <2>2, <1>1, <1>2
    <3> QED
      BY <3>1 DEF Stays
  <2> QED
    BY <2>1, <2>2, <1>1
<1> QED
  BY <1>2, <1>3, <1>4

\* What was lost before and after is lost.
LEMMA ThinsAgain ==
    ASSUME NEW a \in Seq(Entries), NEW b \in Seq(Entries), NEW c \in Seq(Entries),
           NEW f, NEW g, Thins(f, b, a), Thins(g, c, b)
    PROVE  \E h : /\ Thins(h, c, a)
                  /\ \A n \in 1 .. Len(c) : h[n] = f[g[n]]
<1> DEFINE h == [n \in 1 .. Len(c) |-> f[g[n]]]
<1>1. Len(a) \in Nat /\ Len(b) \in Nat /\ Len(c) \in Nat
  OBVIOUS
<1>2. /\ \A n \in 1 .. Len(c) : g[n] \in 1 .. Len(b) /\ c[n] = b[g[n]] /\ n <= g[n]
      /\ \A n \in 1 .. Len(b) : f[n] \in 1 .. Len(a) /\ b[n] = a[f[n]] /\ n <= f[n]
      /\ \A m, n \in 1 .. Len(c) : m < n => g[m] < g[n]
      /\ \A m, n \in 1 .. Len(b) : m < n => f[m] < f[n]
  BY DEF Thins
<1>3. \A n \in 1 .. Len(c) : h[n] \in 1 .. Len(a) /\ c[n] = a[h[n]] /\ n <= h[n]
  BY <1>1, <1>2
<1>4. \A m, n \in 1 .. Len(c) : m < n => h[m] < h[n]
  BY <1>1, <1>2
<1>5. h \in [1 .. Len(c) -> 1 .. Len(a)]
  BY <1>3
<1>6. Thins(h, c, a)
  <2> HIDE DEF h
  <2> QED
    BY <1>3, <1>4, <1>5 DEF Thins
<1> QED
  BY <1>6

\* Nothing is lost from a list that is left alone.
LEMMA SameThins ==
    ASSUME NEW s \in Seq(Entries)
    PROVE  \E f : Thins(f, s, s) /\ \A i \in 1 .. Len(s) : Stays(f, s, i)
<1> DEFINE f == [n \in 1 .. Len(s) |-> n]
<1>1. Len(s) \in Nat
  OBVIOUS
<1>2. Thins(f, s, s)
  BY <1>1 DEF Thins
<1>3. \A i \in 1 .. Len(s) : Stays(f, s, i)
  BY DEF Stays
<1> QED
  BY <1>2, <1>3

-----------------------------------------------------------------------------
(* The times that clients are told *)

LEMMA GetTimeValues ==
    ASSUME NEW n \in Nat
    PROVE  /\ n < 5 => GetTime(n) = 1
           /\ 5 <= n /\ n <= 9 => GetTime(n) = 2
           /\ 10 <= n /\ n <= 19 => GetTime(n) = 4
           /\ 20 <= n /\ n <= 49 => GetTime(n) = 12
           /\ 50 <= n => GetTime(n) = 24
<1>1. ASSUME n < 5
      PROVE  GetTime(n) = 1
  <2>1. n < 5 /\ n \notin 5 .. 9 /\ n \notin 10 .. 19 /\ n \notin 20 .. 49
    BY <1>1
  <2> QED
    BY ONLY <2>1, Zenon DEF GetTime
<1>2. ASSUME 5 <= n, n <= 9
      PROVE  GetTime(n) = 2
  <2>1. ~(n < 5) /\ n \in 5 .. 9 /\ n \notin 10 .. 19 /\ n \notin 20 .. 49
    BY <1>2
  <2> QED
    BY ONLY <2>1, Zenon DEF GetTime
<1>3. ASSUME 10 <= n, n <= 19
      PROVE  GetTime(n) = 4
  <2>1. ~(n < 5) /\ n \notin 5 .. 9 /\ n \in 10 .. 19 /\ n \notin 20 .. 49
    BY <1>3
  <2> QED
    BY ONLY <2>1, Zenon DEF GetTime
<1>4. ASSUME 20 <= n, n <= 49
      PROVE  GetTime(n) = 12
  <2>1. ~(n < 5) /\ n \notin 5 .. 9 /\ n \notin 10 .. 19 /\ n \in 20 .. 49
    BY <1>4
  <2> QED
    BY ONLY <2>1, Zenon DEF GetTime
<1>5. ASSUME 50 <= n
      PROVE  GetTime(n) = 24
  <2>1. ~(n < 5) /\ n \notin 5 .. 9 /\ n \notin 10 .. 19 /\ n \notin 20 .. 49
    BY <1>5
  <2> QED
    BY ONLY <2>1, Zenon DEF GetTime
<1> QED
  BY <1>1, <1>2, <1>3, <1>4, <1>5

\* Nobody is told to wait for more than two minutes.
LEMMA GetTimeType ==
    ASSUME NEW n \in Nat
    PROVE  GetTime(n) \in 1 .. 24 /\ GetTimeout(n) \in 4 .. 27
<1>1. GetTime(n) \in 1 .. 24
  BY GetTimeValues
<1> QED
  BY <1>1 DEF GetTimeout

\* Nobody is told to wait longer than somebody behind it.
LEMMA GetTimeGrows ==
    ASSUME NEW m \in Nat, NEW n \in Nat, m <= n
    PROVE  GetTime(m) <= GetTime(n) /\ GetTime(m) < GetTimeout(n)
<1>1. GetTime(m) <= GetTime(n)
  BY GetTimeValues
<1> QED
  BY <1>1, GetTimeType DEF GetTimeout

LEMMA NotExpired ==
    ASSUME NEW entry, entry.left \in 1 .. 27
    PROVE  ~IsExpired(entry)
<1>1. Sizes \in Nat /\ 27 < Sizes
  BY WaitingListAssumption
<1>2. \A M \in Nat : \A x \in 0 .. M - 1 : x % M = x
  OBVIOUS
<1> HIDE DEF Sizes
<1>3. entry.left % Sizes = entry.left
  BY <1>1, <1>2
<1> QED
  BY <1>3 DEF IsExpired

\* The sizes of the two lists are off by as much, one up and one down: together they are right.
LEMMA SizesTogether ==
    ASSUME NEW M \in Nat, NEW p \in Nat, NEW w \in Nat, NEW k \in 0 .. M - 1, p + w < M
    PROVE  (p + k + ((w - k) % M)) % M = p + w
<1> DEFINE r == (w - k) % M
<1>1. \A x \in 0 .. M - 1 : x % M = x
  OBVIOUS
<1>2. ASSUME NEW x \in 0 .. M - 1
      PROVE  (x + M) % M = x /\ (x - M) % M = x
  OBVIOUS
<1>3. r = w - k \/ r = w - k + M
  <2>1. CASE k <= w
    BY <1>1, <2>1
  <2>2. CASE w < k
    <3>1. w - k + M \in 0 .. M - 1 /\ (w - k + M) - M = w - k
      BY <2>2
    <3> QED
      BY <1>2, <3>1
  <2> QED
    BY <2>1, <2>2
<1> HIDE DEF r
<1>4. p + k + r = p + w \/ p + k + r = (p + w) + M
  BY <1>3
<1>5. p + w \in 0 .. M - 1
  OBVIOUS
<1>6. (p + k + r) % M = p + w
  BY <1>1, <1>2, <1>4, <1>5
<1> QED
  BY <1>6 DEF r

-----------------------------------------------------------------------------
(* The two lists as one queue *)

OneEntry(queue) ==
    \A i, j \in 1 .. Len(queue) : queue[i].client = queue[j].client => i = j

Timely(queue) == \A i \in 1 .. Len(queue) : queue[i].left \in -1 .. 27

\* The entry of a client that comes back when told is still there.
Found(queue, c) ==
    \E i \in 1 .. Len(queue) : queue[i].client = c /\ queue[i].left > GetTime(i)

\* Every client has one slot, so there are not more slots than clients.
LEMMA QueueFits ==
    ASSUME NEW queue \in Seq(Entries), OneEntry(queue)
    PROVE  Len(queue) \in Nat /\ Len(queue) <= Cardinality(Clients)
<1> DEFINE f == [i \in 1 .. Len(queue) |-> queue[i].client]
<1>1. Len(queue) \in Nat /\ \A i \in 1 .. Len(queue) : queue[i].client \in Clients
  <2>1. \A i \in 1 .. Len(queue) : queue[i] \in Entries
    OBVIOUS
  <2> QED
    BY <2>1 DEF Entries
<1>2. f \in Injection(1 .. Len(queue), Clients)
  BY <1>1 DEF Injection, IsInjective, OneEntry
<1>3. Cardinality(1 .. Len(queue)) = Len(queue)
  BY <1>1, UpTo
<1>4. IsFiniteSet(Clients)
  BY WaitingListAssumption
<1> HIDE DEF f
<1>5. Cardinality(1 .. Len(queue)) <= Cardinality(Clients)
  BY <1>2, <1>4, FS_Injection
<1> QED
  BY <1>1, <1>3, <1>5

\* An entry that outlasts the time of its slot outlasts that of every slot before.
LEMMA MovedUp ==
    ASSUME NEW m \in Nat, NEW n \in Nat, m <= n, NEW left \in Int, left > GetTime(n)
    PROVE  left > GetTime(m)
<1>1. GetTime(m) <= GetTime(n)
  BY GetTimeGrows
<1>2. GetTime(m) \in 1 .. 24 /\ GetTime(n) \in 1 .. 24
  BY GetTimeType
<1> QED
  BY <1>1, <1>2

\* A queue that only lost entries.
LEMMA ThinsKeeps ==
    ASSUME NEW old \in Seq(Entries), NEW new \in Seq(Entries), NEW f, Thins(f, new, old)
    PROVE  /\ OneEntry(old) => OneEntry(new)
           /\ Timely(old) => Timely(new)
           /\ \A i \in 1 .. Len(old) : old[i].left > GetTime(i) /\ Stays(f, new, i)
                => Found(new, old[i].client)
<1>1. /\ Len(new) \in Nat /\ Len(old) \in Nat
      /\ \A n \in 1 .. Len(new) : f[n] \in 1 .. Len(old) /\ new[n] = old[f[n]] /\ n <= f[n]
      /\ \A m, n \in 1 .. Len(new) : m < n => f[m] < f[n]
  BY DEF Thins
<1>2. OneEntry(old) => OneEntry(new)
  <2> SUFFICES ASSUME OneEntry(old), NEW i \in 1 .. Len(new), NEW j \in 1 .. Len(new),
                      new[i].client = new[j].client
               PROVE  i = j
    BY DEF OneEntry
  <2>1. f[i] = f[j] /\ f[i] \in Int
    BY <1>1 DEF OneEntry
  <2>2. ~(i < j) /\ ~(j < i)
    BY <1>1, <2>1
  <2> QED
    BY <2>2
<1>3. Timely(old) => Timely(new)
  BY <1>1 DEF Timely
<1>4. ASSUME NEW i \in 1 .. Len(old), old[i].left > GetTime(i), Stays(f, new, i)
      PROVE  Found(new, old[i].client)
  <2>1. PICK n \in 1 .. Len(new) : f[n] = i
    BY <1>4 DEF Stays
  <2>2. new[n] = old[i]
    BY <1>1, <2>1
  <2>3. n \in Nat /\ i \in Nat /\ n <= i
    BY <1>1, <2>1
  <2>4. old[i].left \in Int
    <3>1. old[i] \in Entries
      OBVIOUS
    <3> QED
      BY <3>1 DEF Entries
  <2>5. old[i].left > GetTime(n)
    BY <1>4, <2>3, <2>4, MovedUp
  <2> QED
    BY <2>2, <2>5 DEF Found
<1> QED
  BY <1>2, <1>3, <1>4

\* Both lists are cleaned up: an entry that is not expired stays.
LEMMA CleanedQueue ==
    ASSUME NEW p \in Seq(Entries), NEW w \in Seq(Entries)
    PROVE  /\ CleanupList(p) \in Seq(Entries) /\ CleanupList(w) \in Seq(Entries)
           /\ Queue(CleanupList(p), CleanupList(w)) \in Seq(Entries)
           /\ Queue(p, w) \in Seq(Entries)
           /\ \E f : /\ Thins(f, Queue(CleanupList(p), CleanupList(w)), Queue(p, w))
                     /\ \A i \in 1 .. Len(Queue(p, w)) : ~IsExpired(Queue(p, w)[i])
                          => Stays(f, Queue(CleanupList(p), CleanupList(w)), i)
<1> DEFINE pp == CleanupList(p)
           ww == CleanupList(w)
           q == Queue(p, w)
           qq == Queue(pp, ww)
<1>1. pp \in Seq(Entries) /\ ww \in Seq(Entries)
  BY CleanupThins
<1>2. PICK f : Thins(f, pp, p) /\ \A i \in DOMAIN p : ~IsExpired(p[i]) => Stays(f, pp, i)
  BY CleanupThins
<1>3. PICK g : Thins(g, ww, w) /\ \A i \in DOMAIN w : ~IsExpired(w[i]) => Stays(g, ww, i)
  BY CleanupThins
<1> HIDE DEF pp, ww
<1>4. PICK h : /\ Thins(h, pp \o ww, p \o w)
               /\ \A i \in 1 .. Len(p) : Stays(f, pp, i) => Stays(h, pp \o ww, i)
               /\ \A i \in 1 .. Len(w) : Stays(g, ww, i) => Stays(h, pp \o ww, Len(p) + i)
  BY <1>1, <1>2, <1>3, JoinThins
<1>5. /\ DOMAIN p = 1 .. Len(p) /\ DOMAIN w = 1 .. Len(w)
      /\ Len(p) \in Nat /\ Len(w) \in Nat
      /\ q \in Seq(Entries) /\ qq \in Seq(Entries) /\ Len(q) = Len(p) + Len(w)
      /\ \A i \in 1 .. Len(p) : q[i] = p[i]
      /\ \A i \in 1 .. Len(w) : q[Len(p) + i] = w[i]
  BY <1>1 DEF Queue
<1>6. ASSUME NEW i \in 1 .. Len(q), ~IsExpired(q[i])
      PROVE  Stays(h, qq, i)
  <2>1. CASE i <= Len(p)
    <3>1. i \in 1 .. Len(p) /\ q[i] = p[i]
      BY <1>5, <2>1
    <3> QED
      BY <1>2, <1>4, <1>5, <1>6, <3>1 DEF Queue
  <2>2. CASE ~(i <= Len(p))
    <3>1. i - Len(p) \in 1 .. Len(w) /\ Len(p) + (i - Len(p)) = i
      BY <1>5, <2>2
    <3>2. q[i] = w[i - Len(p)]
      BY <1>5, <3>1
    <3>3. Stays(g, ww, i - Len(p))
      BY <1>3, <1>5, <1>6, <3>1, <3>2
    <3>4. Stays(h, pp \o ww, Len(p) + (i - Len(p)))
      BY <1>4, <3>1, <3>3
    <3> QED
      BY <3>1, <3>4 DEF Queue
  <2> QED
    BY <2>1, <2>2
<1>7. Thins(h, qq, q)
  BY <1>4 DEF Queue
<1> QED
  BY <1>1, <1>5, <1>6, <1>7 DEF pp, ww

\* The slots of both lists.
Slotted(p, w) ==
    /\ Len(p) \in Nat /\ Len(w) \in Nat
    /\ DOMAIN p = 1 .. Len(p) /\ DOMAIN w = 1 .. Len(w)
    /\ Queue(p, w) \in Seq(Entries) /\ Len(Queue(p, w)) = Len(p) + Len(w)
    /\ \A i \in 1 .. Len(p) : Queue(p, w)[i] = p[i]
    /\ \A i \in 1 .. Len(p) + Len(w) : i \notin 1 .. Len(p) =>
          i - Len(p) \in 1 .. Len(w) /\ Queue(p, w)[i] = w[i - Len(p)]
    /\ \A i \in 1 .. Len(p) + Len(w) : Queue(p, w)[i] \in Entries
    /\ Queue(p, w) = <<>> <=> p = <<>> /\ w = <<>>

LEMMA Slots == \A p, w \in Seq(Entries) : Slotted(p, w)
<1> SUFFICES ASSUME NEW p \in Seq(Entries), NEW w \in Seq(Entries)
             PROVE  Slotted(p, w)
  OBVIOUS
<1>1. /\ Queue(p, w) \in Seq(Entries)
      /\ Len(p) \in Nat /\ Len(w) \in Nat /\ Len(Queue(p, w)) = Len(p) + Len(w)
      /\ DOMAIN p = 1 .. Len(p) /\ DOMAIN w = 1 .. Len(w)
      /\ \A i \in 1 .. Len(p) : Queue(p, w)[i] = p[i]
  BY DEF Queue
<1>2. \A i \in 1 .. Len(p) + Len(w) : i \notin 1 .. Len(p) =>
        i - Len(p) \in 1 .. Len(w) /\ Queue(p, w)[i] = w[i - Len(p)]
  BY DEF Queue
<1>3. \A i \in 1 .. Len(p) + Len(w) : Queue(p, w)[i] \in Entries
  BY <1>1
<1>4. Queue(p, w) = <<>> <=> p = <<>> /\ w = <<>>
  BY DEF Queue
<1> QED
  BY <1>1, <1>2, <1>3, <1>4 DEF Slotted

LEMMA EntryRetimed ==
    ASSUME NEW entry \in Entries, NEW time \in Int
    PROVE  LET new == [entry EXCEPT !.left = time]
           IN  new \in Entries /\ new.client = entry.client /\ new.left = time
  BY DEF Entries

LEMMA ListRetimed ==
    ASSUME NEW s \in Seq(Entries), NEW slot \in 1 .. Len(s), NEW time \in Int
    PROVE  LET new == [s EXCEPT ![slot].left = time]
           IN  /\ new \in Seq(Entries) /\ Len(new) = Len(s)
               /\ \A i \in 1 .. Len(s) :
                     /\ new[i].client = s[i].client
                     /\ new[i].left = IF i = slot THEN time ELSE s[i].left
<1> DEFINE entry == [s[slot] EXCEPT !.left = time]
           new == [s EXCEPT ![slot] = entry]
<1>1. Len(s) \in Nat /\ DOMAIN s = 1 .. Len(s) /\ \A i \in 1 .. Len(s) : s[i] \in Entries
  OBVIOUS
<1>2. entry \in Entries /\ entry.client = s[slot].client /\ entry.left = time
  BY <1>1, EntryRetimed
<1>3. [s EXCEPT ![slot].left = time] = new
  OBVIOUS
<1> HIDE DEF entry
<1>4. new \in Seq(Entries) /\ Len(new) = Len(s)
  BY <1>1, <1>2
<1>5. \A i \in 1 .. Len(s) : new[i] = IF i = slot THEN entry ELSE s[i]
  BY <1>1
<1> HIDE DEF new
<1>6. \A i \in 1 .. Len(s) : /\ new[i].client = s[i].client
                             /\ new[i].left = IF i = slot THEN time ELSE s[i].left
  BY <1>2, <1>5
<1> QED
  BY <1>3, <1>4, <1>6

\* One entry, in one of the two lists, gets a new timeout.
Retimes(pp, ww, p, w, slot, time) ==
    IF slot \in DOMAIN p
    THEN pp = [p EXCEPT ![slot].left = time] /\ ww = w
    ELSE pp = p /\ ww = [w EXCEPT ![slot - Len(p)].left = time]

LEMMA Retimed ==
    ASSUME NEW p \in Seq(Entries), NEW w \in Seq(Entries),
           NEW slot \in 1 .. Len(Queue(p, w)), NEW time \in Int,
           NEW pp, NEW ww, Retimes(pp, ww, p, w, slot, time)
    PROVE  /\ pp \in Seq(Entries) /\ ww \in Seq(Entries)
           /\ Len(Queue(pp, ww)) = Len(Queue(p, w))
           /\ \A i \in 1 .. Len(Queue(p, w)) :
                 /\ Queue(pp, ww)[i].client = Queue(p, w)[i].client
                 /\ Queue(pp, ww)[i].left = IF i = slot THEN time ELSE Queue(p, w)[i].left
<1>0. Slotted(p, w)
  BY Slots
<1>1. /\ Len(p) \in Nat /\ Len(w) \in Nat /\ slot \in 1 .. Len(p) + Len(w)
      /\ DOMAIN p = 1 .. Len(p) /\ DOMAIN w = 1 .. Len(w)
  BY <1>0 DEF Slotted
<1>2. /\ pp \in Seq(Entries) /\ Len(pp) = Len(p)
      /\ \A i \in 1 .. Len(p) : /\ pp[i].client = p[i].client
                                /\ pp[i].left = IF i = slot THEN time ELSE p[i].left
  <2>1. CASE slot \in DOMAIN p
    <3>1. slot \in 1 .. Len(p) /\ pp = [p EXCEPT ![slot].left = time]
      BY <1>1, <2>1 DEF Retimes
    <3> QED
      BY <3>1, ListRetimed
  <2>2. CASE slot \notin DOMAIN p
    BY <1>1, <2>2 DEF Retimes
  <2> QED
    BY <2>1, <2>2
<1>3. /\ ww \in Seq(Entries) /\ Len(ww) = Len(w)
      /\ \A i \in 1 .. Len(w) :
            /\ ww[i].client = w[i].client
            /\ ww[i].left = IF i = slot - Len(p) THEN time ELSE w[i].left
  <2>1. CASE slot \in DOMAIN p
    <3>1. \A i \in 1 .. Len(w) : i # slot - Len(p)
      BY <1>1, <2>1
    <3> QED
      BY <2>1, <3>1 DEF Retimes
  <2>2. CASE slot \notin DOMAIN p
    <3>1. slot - Len(p) \in 1 .. Len(w) /\ ww = [w EXCEPT ![slot - Len(p)].left = time]
      BY <1>1, <2>2 DEF Retimes
    <3> QED
      BY <3>1, ListRetimed
  <2> QED
    BY <2>1, <2>2
<1>5. Slotted(pp, ww)
  BY <1>2, <1>3, Slots
<1>4. ASSUME NEW i \in 1 .. Len(p) + Len(w)
      PROVE  /\ Queue(pp, ww)[i].client = Queue(p, w)[i].client
             /\ Queue(pp, ww)[i].left = IF i = slot THEN time ELSE Queue(p, w)[i].left
  <2>1. CASE i \in 1 .. Len(p)
    <3>1. Queue(pp, ww)[i] = pp[i] /\ Queue(p, w)[i] = p[i]
      BY <1>0, <1>5, <1>2, <1>3, <2>1 DEF Slotted
    <3> QED
      BY <1>2, <2>1, <3>1
  <2>2. CASE i \notin 1 .. Len(p)
    <3>1. /\ Queue(pp, ww)[i] = ww[i - Len(p)] /\ Queue(p, w)[i] = w[i - Len(p)]
          /\ i - Len(p) \in 1 .. Len(w)
      BY <1>0, <1>5, <1>2, <1>3, <2>2 DEF Slotted
    <3>2. i - Len(p) = slot - Len(p) <=> i = slot
      BY <1>1
    <3> QED
      BY <1>3, <3>1, <3>2
  <2> QED
    BY <2>1, <2>2
<1>6. Len(Queue(pp, ww)) = Len(p) + Len(w) /\ Len(Queue(p, w)) = Len(p) + Len(w)
  BY <1>0, <1>2, <1>3, <1>5 DEF Slotted
<1> QED
  BY <1>2, <1>3, <1>4, <1>6

\* An entry is put somewhere into a queue that has none of the same client.
LEMMA InsertKeeps ==
    ASSUME NEW old \in Seq(Entries), NEW new \in Seq(Entries), NEW k \in 1 .. Len(new),
           Len(new) = Len(old) + 1,
           \A i \in 1 .. Len(new) : i # k => new[i] = old[IF i < k THEN i ELSE i - 1],
           \A i \in 1 .. Len(old) : old[i].client # new[k].client,
           OneEntry(old), Timely(old), new[k].left \in -1 .. 27
    PROVE  OneEntry(new) /\ Timely(new)
<1> DEFINE was(i) == IF i < k THEN i ELSE i - 1
<1>1. Len(new) \in Nat /\ Len(old) \in Nat
  OBVIOUS
<1>2. \A i \in 1 .. Len(new) : i # k => was(i) \in 1 .. Len(old) /\ new[i] = old[was(i)]
  BY <1>1
<1>3. \A i, j \in 1 .. Len(new) : i # k /\ j # k /\ was(i) = was(j) => i = j
  BY <1>1
<1> HIDE DEF was
<1>4. OneEntry(new)
  <2> SUFFICES ASSUME NEW i \in 1 .. Len(new), NEW j \in 1 .. Len(new),
                      new[i].client = new[j].client
               PROVE  i = j
    BY DEF OneEntry
  <2>1. CASE i = k \/ j = k
    BY <1>2, <2>1
  <2>2. CASE i # k /\ j # k
    BY <1>2, <1>3, <2>2 DEF OneEntry
  <2> QED
    BY <2>1, <2>2
<1>5. Timely(new)
  BY <1>2 DEF Timely
<1> QED
  BY <1>4, <1>5

\* Time passes for each entry by itself.
LEMMA AgedQueue ==
    ASSUME NEW p \in Seq(Entries), NEW w \in Seq(Entries),
           OneEntry(Queue(p, w)), Timely(Queue(p, w))
    PROVE  /\ Aged(p) \in Seq(Entries) /\ Aged(w) \in Seq(Entries)
           /\ OneEntry(Queue(Aged(p), Aged(w))) /\ Timely(Queue(Aged(p), Aged(w)))
           /\ Queue(p, w) = <<>> => Queue(Aged(p), Aged(w)) = <<>>
<1>1. ASSUME NEW s \in Seq(Entries)
      PROVE  /\ Aged(s) \in Seq(Entries) /\ Len(Aged(s)) = Len(s)
             /\ \A i \in 1 .. Len(s) :
                   /\ Aged(s)[i].client = s[i].client
                   /\ Aged(s)[i].left = IF s[i].left < 0 THEN s[i].left ELSE s[i].left - 1
  <2> DEFINE left(i) == IF s[i].left < 0 THEN s[i].left ELSE s[i].left - 1
             entry(i) == [s[i] EXCEPT !.left = left(i)]
             new == [i \in 1 .. Len(s) |-> entry(i)]
  <2>1. Len(s) \in Nat /\ DOMAIN s = 1 .. Len(s)
    OBVIOUS
  <2>2. ASSUME NEW i \in 1 .. Len(s)
        PROVE  entry(i) \in Entries /\ entry(i).client = s[i].client /\ entry(i).left = left(i)
    <3>1. s[i] \in Entries
      OBVIOUS
    <3>2. left(i) \in Int
      BY <3>1 DEF Entries
    <3> HIDE DEF left
    <3> QED
      BY <3>1, <3>2, EntryRetimed
  <2>3. Aged(s) = new
    BY <2>1 DEF Aged
  <2> HIDE DEF entry
  <2>4. new \in Seq(Entries) /\ Len(new) = Len(s) /\ \A i \in 1 .. Len(s) : new[i] = entry(i)
    BY <2>1, <2>2
  <2> HIDE DEF new
  <2> QED
    BY <2>2, <2>3, <2>4
<1> DEFINE pp == Aged(p)
           ww == Aged(w)
<1>2. /\ pp \in Seq(Entries) /\ Len(pp) = Len(p)
      /\ \A i \in 1 .. Len(p) :
            /\ pp[i].client = p[i].client
            /\ pp[i].left = IF p[i].left < 0 THEN p[i].left ELSE p[i].left - 1
  BY <1>1
<1>3. /\ ww \in Seq(Entries) /\ Len(ww) = Len(w)
      /\ \A i \in 1 .. Len(w) :
            /\ ww[i].client = w[i].client
            /\ ww[i].left = IF w[i].left < 0 THEN w[i].left ELSE w[i].left - 1
  BY <1>1
<1> HIDE DEF pp, ww
<1> DEFINE q == Queue(p, w)
           qq == Queue(pp, ww)
           L == Len(p) + Len(w)
<1>0. Slotted(p, w)
  BY Slots
<1>5. Slotted(pp, ww)
  BY <1>2, <1>3, Slots
<1>4. L \in Nat /\ Len(q) = L /\ Len(qq) = L /\ qq \in Seq(Entries)
  BY <1>0, <1>2, <1>3, <1>5 DEF Slotted
<1>9. \A i \in 1 .. L :
        /\ qq[i].client = q[i].client
        /\ qq[i].left = IF q[i].left < 0 THEN q[i].left ELSE q[i].left - 1
  <2> SUFFICES ASSUME NEW i \in 1 .. L
               PROVE  /\ qq[i].client = q[i].client
                      /\ qq[i].left = IF q[i].left < 0 THEN q[i].left ELSE q[i].left - 1
    OBVIOUS
  <2>1. CASE i \in 1 .. Len(p)
    <3>1. qq[i] = pp[i] /\ q[i] = p[i]
      BY <1>0, <1>5, <1>2, <1>3, <2>1 DEF Slotted
    <3> QED
      BY <1>2, <2>1, <3>1
  <2>2. CASE i \notin 1 .. Len(p)
    <3>1. qq[i] = ww[i - Len(p)] /\ q[i] = w[i - Len(p)] /\ i - Len(p) \in 1 .. Len(w)
      BY <1>0, <1>5, <1>2, <1>3, <2>2 DEF Slotted
    <3> QED
      BY <1>3, <3>1
  <2> QED
    BY <2>1, <2>2
<1> HIDE DEF L, q, qq
<1>6. OneEntry(q) => OneEntry(qq)
  BY <1>4, <1>9 DEF OneEntry
<1>7. Timely(q) => Timely(qq)
  <2> SUFFICES ASSUME Timely(q), NEW i \in 1 .. L
               PROVE  qq[i].left \in -1 .. 27
    BY <1>4 DEF Timely
  <2>1. q[i].left \in -1 .. 27
    BY <1>4 DEF Timely
  <2>2. qq[i].left = IF q[i].left < 0 THEN q[i].left ELSE q[i].left - 1
    BY <1>9
  <2>3. \A x \in -1 .. 27 : (IF x < 0 THEN x ELSE x - 1) \in -1 .. 27
    OBVIOUS
  <2> QED
    BY <2>1, <2>2, <2>3
<1>8. q = <<>> => qq = <<>>
  <2>1. ASSUME q = <<>>
        PROVE  qq = <<>>
    <3>1. Len(q) = 0
      BY <2>1
    <3> QED
      BY <1>4, <3>1
  <2> QED
    BY <2>1
<1> QED
  BY <1>2, <1>3, <1>6, <1>7, <1>8 DEF q, qq, pp, ww

\* An entry is erased from one of the two lists.
LEMMA Erased ==
    ASSUME NEW p \in Seq(Entries), NEW w \in Seq(Entries),
           NEW slot \in 1 .. Len(Queue(p, w)), NEW pp, NEW ww,
           IF slot \in DOMAIN p
           THEN pp = RemoveAt(p, slot) /\ ww = w
           ELSE pp = p /\ ww = RemoveAt(w, slot - Len(p))
    PROVE  /\ pp \in Seq(Entries) /\ ww \in Seq(Entries)
           /\ \E f : /\ Thins(f, Queue(pp, ww), Queue(p, w))
                     /\ \A i \in 1 .. Len(Queue(p, w)) : i # slot => Stays(f, Queue(pp, ww), i)
<1>1. Slotted(p, w)
  BY Slots
<1>2. /\ pp \in Seq(Entries)
      /\ \E f : Thins(f, pp, p) /\ \A i \in 1 .. Len(p) : i # slot => Stays(f, pp, i)
  <2>1. CASE slot \in DOMAIN p
    <3>1. slot \in 1 .. Len(p) /\ pp = RemoveAt(p, slot)
      BY <1>1, <2>1 DEF Slotted
    <3> QED
      BY <3>1, RemoveThins
  <2>2. CASE slot \notin DOMAIN p
    BY <2>2, SameThins
  <2> QED
    BY <2>1, <2>2
<1>3. /\ ww \in Seq(Entries)
      /\ \E f : /\ Thins(f, ww, w)
                /\ \A i \in 1 .. Len(w) : Len(p) + i # slot => Stays(f, ww, i)
  <2>1. CASE slot \in DOMAIN p
    BY <2>1, SameThins
  <2>2. CASE slot \notin DOMAIN p
    <3>1. slot - Len(p) \in 1 .. Len(w) /\ ww = RemoveAt(w, slot - Len(p))
      BY <1>1, <2>2 DEF Slotted
    <3>2. \A i \in 1 .. Len(w) : Len(p) + i # slot => i # slot - Len(p)
      BY <1>1, <3>1 DEF Slotted
    <3> QED
      BY <3>1, <3>2, RemoveThins
  <2> QED
    BY <2>1, <2>2
<1>4. PICK f : Thins(f, pp, p) /\ \A i \in 1 .. Len(p) : i # slot => Stays(f, pp, i)
  BY <1>2
<1>5. PICK g : /\ Thins(g, ww, w)
               /\ \A i \in 1 .. Len(w) : Len(p) + i # slot => Stays(g, ww, i)
  BY <1>3
<1>6. PICK h : /\ Thins(h, pp \o ww, p \o w)
               /\ \A i \in 1 .. Len(p) : Stays(f, pp, i) => Stays(h, pp \o ww, i)
               /\ \A i \in 1 .. Len(w) : Stays(g, ww, i) => Stays(h, pp \o ww, Len(p) + i)
  BY <1>2, <1>3, <1>4, <1>5, JoinThins
<1>7. ASSUME NEW i \in 1 .. Len(Queue(p, w)), i # slot
      PROVE  Stays(h, Queue(pp, ww), i)
  <2>1. CASE i \in 1 .. Len(p)
    BY <1>4, <1>6, <1>7, <2>1 DEF Queue
  <2>2. CASE i \notin 1 .. Len(p)
    <3>1. i - Len(p) \in 1 .. Len(w) /\ Len(p) + (i - Len(p)) = i
      BY <1>1, <2>2 DEF Slotted
    <3>2. Stays(h, pp \o ww, Len(p) + (i - Len(p)))
      BY <1>5, <1>6, <1>7, <3>1
    <3> QED
      BY <3>1, <3>2 DEF Queue
  <2> QED
    BY <2>1, <2>2
<1>8. Thins(h, Queue(pp, ww), Queue(p, w))
  BY <1>6 DEF Queue
<1> QED
  BY <1>2, <1>3, <1>7, <1>8

\* An entry is put at the end of one of the two lists.
Inserted(new, old, k, entry) ==
    /\ new \in Seq(Entries) /\ Len(new) = Len(old) + 1 /\ k \in 1 .. Len(new)
    /\ new[k] = entry
    /\ \A i \in 1 .. Len(new) : i # k => new[i] = old[IF i < k THEN i ELSE i - 1]

LEMMA PriorityAppended ==
    ASSUME NEW p \in Seq(Entries), NEW w \in Seq(Entries), NEW entry \in Entries
    PROVE  /\ Append(p, entry) \in Seq(Entries)
           /\ Inserted(Queue(Append(p, entry), w), Queue(p, w), Len(p) + 1, entry)
<1> DEFINE pp == Append(p, entry)
           new == Queue(pp, w)
           old == Queue(p, w)
           k == Len(p) + 1
<1>1. /\ Len(p) \in Nat /\ pp \in Seq(Entries) /\ Len(pp) = k /\ pp[k] = entry
      /\ \A i \in 1 .. Len(p) : pp[i] = p[i]
  OBVIOUS
<1> HIDE DEF pp
<1>2. Slotted(p, w) /\ Slotted(pp, w)
  BY <1>1, Slots
<1>3. new \in Seq(Entries) /\ Len(new) = Len(old) + 1 /\ k \in 1 .. Len(new) /\ new[k] = entry
  BY <1>1, <1>2 DEF Slotted
<1>4. ASSUME NEW i \in 1 .. Len(new), i # k
      PROVE  new[i] = old[IF i < k THEN i ELSE i - 1]
  <2>1. CASE i < k
    <3>1. i \in 1 .. Len(p) /\ i \in 1 .. Len(pp)
      BY <1>1, <1>2, <2>1 DEF Slotted
    <3>2. new[i] = pp[i] /\ old[i] = p[i]
      BY <1>2, <3>1 DEF Slotted
    <3> QED
      BY <1>1, <2>1, <3>1, <3>2
  <2>2. CASE ~(i < k)
    <3>1. /\ i \in 1 .. Len(pp) + Len(w) /\ i \notin 1 .. Len(pp)
          /\ i - 1 \in 1 .. Len(p) + Len(w) /\ i - 1 \notin 1 .. Len(p)
          /\ i - Len(pp) = (i - 1) - Len(p)
      BY <1>1, <1>2, <1>4, <2>2 DEF Slotted
    <3>2. new[i] = w[i - Len(pp)] /\ old[i - 1] = w[(i - 1) - Len(p)]
      BY <1>2, <3>1 DEF Slotted
    <3> QED
      BY <2>2, <3>1, <3>2
  <2> QED
    BY <2>1, <2>2
<1> HIDE DEF new, old, k
<1>5. Inserted(new, old, k, entry)
  BY <1>3, <1>4 DEF Inserted
<1> QED
  BY <1>1, <1>5 DEF new, old, k, pp

LEMMA WaitAppended ==
    ASSUME NEW p \in Seq(Entries), NEW w \in Seq(Entries), NEW entry \in Entries
    PROVE  /\ Append(w, entry) \in Seq(Entries)
           /\ Inserted(Queue(p, Append(w, entry)), Queue(p, w), Len(p) + Len(w) + 1, entry)
<1> DEFINE ww == Append(w, entry)
           new == Queue(p, ww)
           old == Queue(p, w)
           k == Len(p) + Len(w) + 1
<1>1. /\ Len(w) \in Nat /\ ww \in Seq(Entries) /\ Len(ww) = Len(w) + 1 /\ ww[Len(w) + 1] = entry
      /\ \A i \in 1 .. Len(w) : ww[i] = w[i]
  OBVIOUS
<1> HIDE DEF ww
<1>2. Slotted(p, w) /\ Slotted(p, ww)
  BY <1>1, Slots
<1>3. new \in Seq(Entries) /\ Len(new) = Len(old) + 1 /\ k \in 1 .. Len(new)
  BY <1>1, <1>2 DEF Slotted
<1>4. new[k] = entry
  <2>1. k \in 1 .. Len(p) + Len(ww) /\ k \notin 1 .. Len(p) /\ k - Len(p) = Len(w) + 1
    BY <1>1, <1>2 DEF Slotted
  <2>2. new[k] = ww[k - Len(p)]
    BY <1>2, <2>1 DEF Slotted
  <2> QED
    BY <1>1, <2>1, <2>2
<1>5. ASSUME NEW i \in 1 .. Len(new), i # k
      PROVE  new[i] = old[IF i < k THEN i ELSE i - 1]
  <2>1. i < k /\ i \in 1 .. Len(p) + Len(w) /\ i \in 1 .. Len(p) + Len(ww)
    BY <1>1, <1>2, <1>5 DEF Slotted
  <2>2. new[i] = old[i]
    <3>1. CASE i \in 1 .. Len(p)
      BY <1>2, <3>1 DEF Slotted
    <3>2. CASE i \notin 1 .. Len(p)
      <4>1. new[i] = ww[i - Len(p)] /\ old[i] = w[i - Len(p)] /\ i - Len(p) \in 1 .. Len(w)
        BY <1>2, <2>1, <3>2 DEF Slotted
      <4> QED
        BY <1>1, <4>1
    <3> QED
      BY <3>1, <3>2
  <2> QED
    BY <2>1, <2>2
<1> HIDE DEF new, old, k
<1>6. Inserted(new, old, k, entry)
  BY <1>3, <1>4, <1>5 DEF Inserted
<1> QED
  BY <1>1, <1>6 DEF new, old, k, ww

-----------------------------------------------------------------------------
(* The inductive invariant of the login queue *)

WaitingQueue == Queue(priorityWaitList, waitList)

\* No client waits twice, nobody waits for a server without a limit, and whoever was refused
\* since the last tick has an entry that outlasts the time it was told.
WaitingInv ==
    /\ online \subseteq Clients
    /\ premium \subseteq Clients \ Privileged
    /\ priorityWaitList \in Seq(Entries) /\ waitList \in Seq(Entries)
    /\ skew \in 0 .. MaxSkew
    /\ refused \subseteq Clients
    /\ OneEntry(WaitingQueue) /\ Timely(WaitingQueue)
    /\ MaxPlayers = 0 => WaitingQueue = <<>>
    /\ \A c \in refused : Found(WaitingQueue, c)

\* What clientLogin() finds when it has cleaned up the lists.
LEMMA AfterCleanup ==
    ASSUME WaitingInv
    PROVE  LET p == CleanupList(priorityWaitList)
               w == CleanupList(waitList)
           IN  /\ p \in Seq(Entries) /\ w \in Seq(Entries)
               /\ OneEntry(Queue(p, w)) /\ Timely(Queue(p, w))
               /\ \E f : /\ Thins(f, Queue(p, w), WaitingQueue)
                         /\ \A c \in refused : \E i \in 1 .. Len(WaitingQueue) :
                               /\ WaitingQueue[i].client = c
                               /\ WaitingQueue[i].left > GetTime(i)
                               /\ Stays(f, Queue(p, w), i)
<1> DEFINE p == CleanupList(priorityWaitList)
           w == CleanupList(waitList)
           q == Queue(p, w)
<1>1. priorityWaitList \in Seq(Entries) /\ waitList \in Seq(Entries)
  BY DEF WaitingInv
<1>2. PICK f : /\ Thins(f, q, WaitingQueue)
               /\ \A i \in 1 .. Len(WaitingQueue) : ~IsExpired(WaitingQueue[i]) => Stays(f, q, i)
  BY <1>1, CleanedQueue DEF WaitingQueue
<1>3. /\ p \in Seq(Entries) /\ w \in Seq(Entries)
      /\ q \in Seq(Entries) /\ WaitingQueue \in Seq(Entries)
  BY <1>1, CleanedQueue DEF WaitingQueue
<1> HIDE DEF p, w, q
<1>4. OneEntry(q) /\ Timely(q)
  BY <1>2, <1>3, ThinsKeeps DEF WaitingInv
<1>5. ASSUME NEW c \in refused
      PROVE  \E i \in 1 .. Len(WaitingQueue) :
                /\ WaitingQueue[i].client = c
                /\ WaitingQueue[i].left > GetTime(i)
                /\ Stays(f, q, i)
  <2>1. PICK i \in 1 .. Len(WaitingQueue) :
           WaitingQueue[i].client = c /\ WaitingQueue[i].left > GetTime(i)
    BY DEF WaitingInv, Found
  <2>2. i \in Nat
    BY <1>3
  <2>3. GetTime(i) \in 1 .. 24
    BY <2>2, GetTimeType
  <2>4. WaitingQueue[i].left \in -1 .. 27
    BY DEF WaitingInv, Timely
  <2>5. WaitingQueue[i].left \in 1 .. 27
    <3>1. \A x \in -1 .. 27, y \in 1 .. 24 : x > y => x \in 1 .. 27
      OBVIOUS
    <3> QED
      BY <2>1, <2>3, <2>4, <3>1
  <2>6. Stays(f, q, i)
    BY <1>2, <2>5, NotExpired
  <2> QED
    BY <2>1, <2>6
<1> QED
  BY <1>2, <1>3, <1>4, <1>5 DEF p, w, q

LEMMA WaitingStarts ==
    ASSUME WaitingInit
    PROVE  WaitingInv
<1>1. WaitingQueue = <<>> /\ Len(WaitingQueue) = 0
  BY DEF WaitingInit, WaitingQueue, Queue
<1>2. OneEntry(WaitingQueue) /\ Timely(WaitingQueue)
  BY <1>1 DEF OneEntry, Timely
<1>3. 0 \in 0 .. MaxSkew
  BY WaitingListAssumption
<1> QED
  BY <1>1, <1>2, <1>3 DEF WaitingInit, WaitingInv

\* A login from the list erases one entry; those who were refused keep theirs.
LEMMA LoginFromListKeeps ==
    ASSUME WaitingInv, NEW c \in Clients, LoginFromList(c)
    PROVE  WaitingInv'
<1> DEFINE p == CleanupList(priorityWaitList)
           w == CleanupList(waitList)
           q == Queue(p, w)
           new == WaitingQueue'
<1>1. /\ p \in Seq(Entries) /\ w \in Seq(Entries)
      /\ OneEntry(q) /\ Timely(q)
      /\ \E f : /\ Thins(f, q, WaitingQueue)
                /\ \A d \in refused : \E i \in 1 .. Len(WaitingQueue) :
                      /\ WaitingQueue[i].client = d
                      /\ WaitingQueue[i].left > GetTime(i)
                      /\ Stays(f, q, i)
  BY AfterCleanup
<1>2. PICK f : /\ Thins(f, q, WaitingQueue)
               /\ \A d \in refused : \E i \in 1 .. Len(WaitingQueue) :
                     /\ WaitingQueue[i].client = d
                     /\ WaitingQueue[i].left > GetTime(i)
                     /\ Stays(f, q, i)
  BY <1>1
<1>3. PICK slot \in FindClient(p, w, c) :
         IF slot \in DOMAIN p
         THEN /\ skew < MaxSkew /\ skew' = skew + 1
              /\ priorityWaitList' = RemoveAt(p, slot) /\ waitList' = w
         ELSE /\ skew' = skew
              /\ priorityWaitList' = p /\ waitList' = RemoveAt(w, slot - Len(p))
  BY DEF LoginFromList
<1>4. /\ MaxPlayers # 0 /\ online' \in {online, online \cup {c}}
      /\ refused' = refused \ {c} /\ premium' = premium
  BY DEF LoginFromList, Waits, Placed
<1> HIDE DEF p, w
<1>5. q \in Seq(Entries) /\ WaitingQueue \in Seq(Entries)
  BY <1>1, Slots DEF Slotted, WaitingInv, WaitingQueue
<1>6. slot \in 1 .. Len(q) /\ q[slot].client = c
  BY <1>3, <1>5 DEF FindClient
<1>7. /\ priorityWaitList' \in Seq(Entries) /\ waitList' \in Seq(Entries)
      /\ \E g : Thins(g, new, q) /\ \A i \in 1 .. Len(q) : i # slot => Stays(g, new, i)
  <2>1. IF slot \in DOMAIN p
        THEN priorityWaitList' = RemoveAt(p, slot) /\ waitList' = w
        ELSE priorityWaitList' = p /\ waitList' = RemoveAt(w, slot - Len(p))
    BY <1>3
  <2> QED
    BY <1>1, <1>6, <2>1, Erased DEF WaitingQueue
<1>8. PICK g : Thins(g, new, q) /\ \A i \in 1 .. Len(q) : i # slot => Stays(g, new, i)
  BY <1>7
<1>9. new \in Seq(Entries)
  BY <1>7, Slots DEF Slotted, WaitingQueue
<1> HIDE DEF q, new
<1>10. PICK h : Thins(h, new, WaitingQueue) /\ \A n \in 1 .. Len(new) : h[n] = f[g[n]]
  BY <1>2, <1>5, <1>8, <1>9, ThinsAgain
<1>11. OneEntry(new) /\ Timely(new)
  BY <1>1, <1>5, <1>8, <1>9, ThinsKeeps
<1>12. ASSUME NEW d \in refused'
       PROVE  Found(new, d)
  <2>1. d \in refused /\ d # c
    BY <1>4
  <2>2. PICK i \in 1 .. Len(WaitingQueue) :
           /\ WaitingQueue[i].client = d
           /\ WaitingQueue[i].left > GetTime(i)
           /\ Stays(f, q, i)
    BY <1>2, <2>1
  <2>3. PICK k \in 1 .. Len(q) : f[k] = i
    BY <2>2 DEF Stays
  <2>4. q[k] = WaitingQueue[i]
    BY <1>2, <2>3 DEF Thins
  <2>5. Stays(g, new, k)
    BY <1>6, <1>8, <2>1, <2>2, <2>4
  <2>6. PICK n \in 1 .. Len(new) : g[n] = k
    BY <2>5 DEF Stays
  <2>7. Stays(h, new, i)
    BY <1>10, <2>3, <2>6 DEF Stays
  <2> QED
    BY <1>5, <1>9, <1>10, <2>2, <2>7, ThinsKeeps
<1>13. skew' \in 0 .. MaxSkew
  BY <1>3, WaitingListAssumption DEF WaitingInv
<1>14. /\ online' \subseteq Clients /\ refused' \subseteq Clients
       /\ premium' \subseteq Clients \ Privileged
  BY <1>4 DEF WaitingInv
<1> QED
  BY <1>4, <1>7, <1>11, <1>12, <1>13, <1>14 DEF WaitingInv, new

\* A refused client that waits already gets a longer timeout.
LEMMA WaitLongerKeeps ==
    ASSUME WaitingInv, NEW c \in Clients, WaitLonger(c)
    PROVE  WaitingInv'
<1> DEFINE p == CleanupList(priorityWaitList)
           w == CleanupList(waitList)
           q == Queue(p, w)
           new == WaitingQueue'
<1>1. p \in Seq(Entries) /\ w \in Seq(Entries) /\ OneEntry(q) /\ Timely(q)
  BY AfterCleanup
<1>2. PICK slot \in FindClient(p, w, c) :
         IF slot \in DOMAIN p
         THEN /\ priorityWaitList' = [p EXCEPT ![slot].left = GetTimeout(slot)]
              /\ waitList' = w
         ELSE /\ priorityWaitList' = p
              /\ waitList' = [w EXCEPT ![slot - Len(p)].left = GetTimeout(slot)]
  BY DEF WaitLonger
<1>3. /\ MaxPlayers # 0 /\ refused' = {c}
      /\ online' = online /\ premium' = premium /\ skew' = skew
  BY DEF WaitLonger, Waits
<1> HIDE DEF p, w
<1>4. q \in Seq(Entries)
  BY <1>1, Slots DEF Slotted
<1>5. slot \in 1 .. Len(q) /\ q[slot].client = c /\ slot \in Nat
  BY <1>2, <1>4 DEF FindClient
<1>6. GetTimeout(slot) \in 4 .. 27 /\ GetTime(slot) < GetTimeout(slot)
  BY <1>5, GetTimeGrows, GetTimeType
<1>7. /\ priorityWaitList' \in Seq(Entries) /\ waitList' \in Seq(Entries)
      /\ Len(new) = Len(q)
      /\ \A i \in 1 .. Len(q) :
            /\ new[i].client = q[i].client
            /\ new[i].left = IF i = slot THEN GetTimeout(slot) ELSE q[i].left
  <2>1. GetTimeout(slot) \in Int
    BY <1>6
  <2> DEFINE pp == priorityWaitList'
             ww == waitList'
  <2>2. Retimes(pp, ww, p, w, slot, GetTimeout(slot))
    BY <1>2 DEF Retimes
  <2>3. new = Queue(pp, ww)
    BY DEF WaitingQueue
  <2> HIDE DEF pp, ww, new
  <2>4. /\ pp \in Seq(Entries) /\ ww \in Seq(Entries)
        /\ Len(Queue(pp, ww)) = Len(Queue(p, w))
        /\ \A i \in 1 .. Len(Queue(p, w)) :
              /\ Queue(pp, ww)[i].client = Queue(p, w)[i].client
              /\ Queue(pp, ww)[i].left
                    = IF i = slot THEN GetTimeout(slot) ELSE Queue(p, w)[i].left
    BY <1>1, <1>5, <2>1, <2>2, Retimed
  <2> QED
    BY <2>3, <2>4 DEF pp, ww
<1> HIDE DEF q, new
<1>8. OneEntry(new)
  BY <1>1, <1>7 DEF OneEntry
<1>9. Timely(new)
  <2>1. GetTimeout(slot) \in -1 .. 27
    BY <1>6
  <2> QED
    BY <1>1, <1>7, <2>1 DEF Timely
<1>10. Found(new, c)
  <2>1. new[slot].client = c /\ new[slot].left = GetTimeout(slot) /\ slot \in 1 .. Len(new)
    BY <1>5, <1>7
  <2>2. new[slot].left > GetTime(slot)
    <3>1. GetTime(slot) \in 1 .. 24
      BY <1>5, GetTimeType
    <3> QED
      BY <1>6, <2>1, <3>1
  <2> QED
    BY <2>1, <2>2 DEF Found
<1> QED
  BY <1>3, <1>7, <1>8, <1>9, <1>10 DEF WaitingInv, new

\* A refused client that did not wait is put behind those it was found behind.
LEMMA StartWaitingKeeps ==
    ASSUME WaitingInv, NEW c \in Clients, StartWaiting(c)
    PROVE  WaitingInv'
<1> DEFINE p == CleanupList(priorityWaitList)
           w == CleanupList(waitList)
           q == Queue(p, w)
           new == WaitingQueue'
           sizes == (PrioritySize(p) + WaitSize(w)) % Sizes
           size == IF c \in premium THEN PrioritySize(p) ELSE sizes
           entry == [client |-> c, left |-> GetTimeout(size + 1)]
<1>1. p \in Seq(Entries) /\ w \in Seq(Entries) /\ OneEntry(q) /\ Timely(q)
  BY AfterCleanup
<1>2. /\ FindClient(p, w, c) = {}
      /\ IF c \in premium
         THEN priorityWaitList' = Append(p, entry) /\ waitList' = w
         ELSE priorityWaitList' = p /\ waitList' = Append(w, entry)
  BY DEF StartWaiting
<1>3. /\ MaxPlayers # 0 /\ refused' = {c}
      /\ online' = online /\ premium' = premium /\ skew' = skew
  BY DEF StartWaiting, Waits
<1> HIDE DEF p, w
<1>4. Slotted(p, w)
  BY <1>1, Slots
<1>5. Len(p) \in Nat /\ Len(w) \in Nat /\ Len(q) = Len(p) + Len(w) /\ q \in Seq(Entries)
  BY <1>4 DEF Slotted
<1>6. \A i \in 1 .. Len(q) : q[i].client # c
  BY <1>2, <1>5 DEF FindClient
<1>7. Len(p) + Len(w) < Sizes /\ Sizes \in Nat /\ skew \in 0 .. Sizes - 1
  <2>1. Len(q) <= Cardinality(Clients)
    BY <1>1, <1>5, QueueFits
  <2>2. /\ Cardinality(Clients) \in Nat /\ MaxSkew \in Nat /\ Sizes \in Nat
        /\ Cardinality(Clients) < Sizes /\ MaxSkew < Sizes
    BY WaitingListAssumption, FS_CardinalityType
  <2> HIDE DEF q
  <2> QED
    BY <1>5, <2>1, <2>2 DEF WaitingInv
<1>8. PrioritySize(p) \in Nat /\ Len(p) <= PrioritySize(p)
  BY <1>5, <1>7 DEF PrioritySize
<1>9. sizes = Len(p) + Len(w)
  BY <1>5, <1>7, SizesTogether DEF PrioritySize, WaitSize
<1> DEFINE k == IF c \in premium THEN Len(p) + 1 ELSE Len(p) + Len(w) + 1
<1>10. /\ k \in Nat /\ size + 1 \in Nat /\ k <= size + 1
  <2> HIDE DEF sizes
  <2> QED
    BY <1>5, <1>8, <1>9
<1> HIDE DEF size, k, sizes
<1>11. GetTimeout(size + 1) \in 4 .. 27 /\ GetTime(k) \in 1 .. 24 /\ GetTime(k) < GetTimeout(size + 1)
  <2>1. GetTime(k) < GetTimeout(size + 1)
    BY <1>10, GetTimeGrows
  <2>2. GetTime(k) \in 1 .. 24 /\ GetTimeout(size + 1) \in 4 .. 27
    BY <1>10, GetTimeType
  <2> QED
    BY <2>1, <2>2
<1>12. entry \in Entries /\ entry.client = c /\ entry.left = GetTimeout(size + 1)
  BY <1>11 DEF Entries
<1> HIDE DEF entry, q, new
<1>13. /\ priorityWaitList' \in Seq(Entries) /\ waitList' \in Seq(Entries)
       /\ Inserted(new, q, k, entry)
  <2>1. CASE c \in premium
    <3>1. priorityWaitList' = Append(p, entry) /\ waitList' = w /\ k = Len(p) + 1
      BY <1>2, <2>1 DEF k
    <3>2. Append(p, entry) \in Seq(Entries) /\ Inserted(Queue(Append(p, entry), w), q, k, entry)
      BY <1>1, <1>12, <3>1, PriorityAppended DEF q
    <3> QED
      BY <1>1, <3>1, <3>2 DEF new, WaitingQueue
  <2>2. CASE c \notin premium
    <3>1. priorityWaitList' = p /\ waitList' = Append(w, entry) /\ k = Len(p) + Len(w) + 1
      BY <1>2, <2>2 DEF k
    <3>2. Append(w, entry) \in Seq(Entries) /\ Inserted(Queue(p, Append(w, entry)), q, k, entry)
      BY <1>1, <1>12, <3>1, WaitAppended DEF q
    <3> QED
      BY <1>1, <3>1, <3>2 DEF new, WaitingQueue
  <2> QED
    BY <2>1, <2>2
<1>14. OneEntry(new) /\ Timely(new)
  <2>1. /\ new \in Seq(Entries) /\ k \in 1 .. Len(new) /\ Len(new) = Len(q) + 1
        /\ \A i \in 1 .. Len(new) : i # k => new[i] = q[IF i < k THEN i ELSE i - 1]
        /\ new[k] = entry
    BY <1>13 DEF Inserted
  <2>2. \A i \in 1 .. Len(q) : q[i].client # new[k].client
    BY <1>6, <1>12, <2>1
  <2>3. new[k].left \in -1 .. 27
    BY <1>11, <1>12, <2>1
  <2> QED
    BY <1>1, <1>5, <2>1, <2>2, <2>3, InsertKeeps
<1>15. Found(new, c)
  <2>1. k \in 1 .. Len(new) /\ new[k].client = c /\ new[k].left = GetTimeout(size + 1)
    BY <1>12, <1>13 DEF Inserted
  <2>2. new[k].left > GetTime(k)
    BY <1>11, <2>1
  <2> QED
    BY <2>1, <2>2 DEF Found
<1> QED
  BY <1>3, <1>13, <1>14, <1>15 DEF WaitingInv, new

LEMMA TickKeeps ==
    ASSUME WaitingInv, Tick
    PROVE  WaitingInv'
<1>1. /\ priorityWaitList' = Aged(priorityWaitList) /\ waitList' = Aged(waitList)
      /\ refused' = {} /\ online' = online /\ premium' = premium /\ skew' = skew
  BY DEF Tick
<1>2. /\ priorityWaitList' \in Seq(Entries) /\ waitList' \in Seq(Entries)
      /\ OneEntry(WaitingQueue') /\ Timely(WaitingQueue')
      /\ WaitingQueue = <<>> => WaitingQueue' = <<>>
  BY <1>1, AgedQueue DEF WaitingInv, WaitingQueue
<1> QED
  BY <1>1, <1>2 DEF WaitingInv

LEMMA WaitingSteps == WaitingInv /\ [WaitingNext]_waitingVars => WaitingInv'
<1> SUFFICES ASSUME WaitingInv, [WaitingNext]_waitingVars
             PROVE  WaitingInv'
  OBVIOUS
<1>1. ASSUME NEW c \in Clients, LoginAtOnce(c)
      PROVE  WaitingInv'
  BY <1>1 DEF LoginAtOnce, Placed, WaitingInv, WaitingQueue
<1>2. ASSUME NEW c \in Clients, LoginFromList(c)
      PROVE  WaitingInv'
  BY <1>2, LoginFromListKeeps
<1>3. ASSUME NEW c \in Clients, WaitLonger(c)
      PROVE  WaitingInv'
  BY <1>3, WaitLongerKeeps
<1>4. ASSUME NEW c \in Clients, StartWaiting(c)
      PROVE  WaitingInv'
  BY <1>4, StartWaitingKeeps
<1>5. ASSUME NEW c \in Clients, LeaveGame(c)
      PROVE  WaitingInv'
  BY <1>5 DEF LeaveGame, WaitingInv, WaitingQueue
<1>6. ASSUME NEW c \in Clients, ChangeAccount(c)
      PROVE  WaitingInv'
  BY <1>6 DEF ChangeAccount, WaitingInv, WaitingQueue
<1>7. CASE Tick
  BY <1>7, TickKeeps
<1>8. CASE UNCHANGED waitingVars
  BY <1>8 DEF waitingVars, WaitingInv, WaitingQueue
<1> QED
  BY <1>1, <1>2, <1>3, <1>4, <1>5, <1>6, <1>7, <1>8 DEF WaitingNext

-----------------------------------------------------------------------------
(* The theorems of the login queue *)

THEOREM WaitingInvHolds == WaitingSpec => []WaitingInv
<1>1. WaitingInit => WaitingInv
  BY WaitingStarts
<1> QED
  BY <1>1, WaitingSteps, PTL DEF WaitingSpec

\* Whoever is refused and comes back when told finds its entry, its only one, although entries
\* are cleaned up and erased meanwhile and size() of the lists is wrong (clientLogin).
THEOREM RefusedHolds == WaitingSpec => []RefusedMayComeBack
<1>1. ASSUME WaitingInv
      PROVE  RefusedMayComeBack
  <2> DEFINE q == Queue(priorityWaitList, waitList)
  <2> SUFFICES ASSUME NEW c \in refused
               PROVE  \E slot \in DOMAIN q :
                         /\ \A i \in DOMAIN q : q[i].client = c <=> i = slot
                         /\ q[slot].left > GetTime(slot)
    BY DEF RefusedMayComeBack
  <2>1. q = WaitingQueue /\ DOMAIN q = 1 .. Len(q)
    BY <1>1, Slots DEF Slotted, WaitingInv, WaitingQueue
  <2> HIDE DEF q
  <2>2. PICK slot \in 1 .. Len(q) : q[slot].client = c /\ q[slot].left > GetTime(slot)
    BY <1>1, <2>1 DEF WaitingInv, Found
  <2>3. \A i \in 1 .. Len(q) : q[i].client = c <=> i = slot
    BY <1>1, <2>1, <2>2 DEF WaitingInv, OneEntry
  <2> QED
    BY <2>1, <2>2, <2>3
<1> QED
  BY <1>1, WaitingInvHolds, PTL

\* No timeout in waitList is longer than that of the last slot there is a client for.
Within(list) == \A i \in 1 .. Len(list) : list[i].left <= GetTimeout(Cardinality(Clients))

LEMMA ThinsWithin ==
    ASSUME NEW old, NEW new, NEW f, Thins(f, new, old), Within(old)
    PROVE  Within(new)
BY DEF Thins, Within

LEMMA WithinSteps ==
    ASSUME WaitingInv, WaitingInv', Within(waitList), [WaitingNext]_waitingVars
    PROVE  Within(waitList')
<1> DEFINE p == CleanupList(priorityWaitList)
           w == CleanupList(waitList)
           q == Queue(p, w)
           T == GetTimeout(Cardinality(Clients))
<1>1. p \in Seq(Entries) /\ w \in Seq(Entries) /\ OneEntry(q)
  BY AfterCleanup
<1>2. Slotted(p, w)
  BY <1>1, Slots
<1>3. Len(q) \in Nat /\ Len(q) <= Cardinality(Clients)
  BY <1>1, <1>2, QueueFits DEF Slotted
<1>4. Cardinality(Clients) \in Nat /\ T \in 4 .. 27
  BY WaitingListAssumption, FS_CardinalityType, GetTimeType
<1>5. Within(w)
  <2>1. PICK f : Thins(f, w, waitList)
    BY CleanupThins DEF WaitingInv
  <2> HIDE DEF w
  <2> QED
    BY <2>1, ThinsWithin
<1>6. \A n \in Nat : n <= Cardinality(Clients) => GetTimeout(n) <= T
  <2> SUFFICES ASSUME NEW n \in Nat, n <= Cardinality(Clients)
               PROVE  GetTimeout(n) <= T
    OBVIOUS
  <2>1. GetTime(n) <= GetTime(Cardinality(Clients))
    BY <1>4, GetTimeGrows
  <2>2. GetTime(n) \in 1 .. 24 /\ GetTime(Cardinality(Clients)) \in 1 .. 24
    BY <1>4, GetTimeType
  <2> QED
    BY <2>1, <2>2 DEF GetTimeout
<1>7. ASSUME NEW c \in Clients, LoginFromList(c)
      PROVE  Within(waitList')
  <2>1. PICK slot \in FindClient(p, w, c) :
           IF slot \in DOMAIN p
           THEN waitList' = w
           ELSE waitList' = RemoveAt(w, slot - Len(p))
    BY <1>7 DEF LoginFromList
  <2> HIDE DEF p, w
  <2>2. slot \in 1 .. Len(p) + Len(w)
    BY <1>2, <2>1 DEF FindClient, Slotted
  <2>3. CASE slot \in DOMAIN p
    BY <1>5, <2>1, <2>3
  <2>4. CASE slot \notin DOMAIN p
    <3>1. slot - Len(p) \in 1 .. Len(w) /\ waitList' = RemoveAt(w, slot - Len(p))
      BY <1>2, <2>1, <2>2, <2>4 DEF Slotted
    <3>2. \E f : Thins(f, waitList', w)
      BY <1>1, <3>1, RemoveThins
    <3> QED
      BY <1>5, <3>2, ThinsWithin
  <2> QED
    BY <2>3, <2>4
<1>8. ASSUME NEW c \in Clients, WaitLonger(c)
      PROVE  Within(waitList')
  <2>1. PICK slot \in FindClient(p, w, c) :
           IF slot \in DOMAIN p
           THEN waitList' = w
           ELSE waitList' = [w EXCEPT ![slot - Len(p)].left = GetTimeout(slot)]
    BY <1>8 DEF WaitLonger
  <2> HIDE DEF p, w
  <2>2. slot \in 1 .. Len(p) + Len(w) /\ Len(q) = Len(p) + Len(w)
    BY <1>2, <2>1 DEF FindClient, Slotted
  <2> HIDE DEF q, T
  <2>3. GetTimeout(slot) <= T /\ GetTimeout(slot) \in Int
    <3>1. slot \in Nat /\ slot <= Cardinality(Clients)
      BY <1>3, <1>4, <2>2
    <3> QED
      BY <1>6, <3>1, GetTimeType
  <2>4. CASE slot \in DOMAIN p
    BY <1>5, <2>1, <2>4
  <2>5. CASE slot \notin DOMAIN p
    <3>1. /\ slot - Len(p) \in 1 .. Len(w)
          /\ waitList' = [w EXCEPT ![slot - Len(p)].left = GetTimeout(slot)]
      BY <1>2, <2>1, <2>2, <2>5 DEF Slotted
    <3>2. /\ Len(waitList') = Len(w)
          /\ \A i \in 1 .. Len(w) : waitList'[i].left
                = IF i = slot - Len(p) THEN GetTimeout(slot) ELSE w[i].left
      BY <1>1, <2>3, <3>1, ListRetimed
    <3> QED
      BY <1>5, <2>3, <3>2 DEF Within, T
  <2> QED
    BY <2>4, <2>5
<1>9. ASSUME NEW c \in Clients, StartWaiting(c)
      PROVE  Within(waitList')
  <2> DEFINE sizes == (PrioritySize(p) + WaitSize(w)) % Sizes
             entry == [client |-> c, left |-> GetTimeout(sizes + 1)]
  <2>1. IF c \in premium
        THEN waitList' = w
        ELSE priorityWaitList' = p /\ waitList' = Append(w, entry)
    BY <1>9 DEF StartWaiting
  <2> HIDE DEF p, w
  <2>2. Len(p) \in Nat /\ Len(w) \in Nat /\ Len(q) = Len(p) + Len(w)
    BY <1>2 DEF Slotted
  <2> HIDE DEF q, T
  <2>3. CASE c \in premium
    BY <1>5, <2>1, <2>3
  <2>4. CASE c \notin premium
    <3>1. priorityWaitList' = p /\ waitList' = Append(w, entry)
      BY <2>1, <2>4
    <3>2. sizes = Len(p) + Len(w)
      <4>1. /\ Sizes \in Nat /\ Cardinality(Clients) < Sizes
            /\ MaxSkew \in Nat /\ MaxSkew < Sizes
        BY WaitingListAssumption
      <4>2. Len(p) + Len(w) < Sizes /\ skew \in 0 .. Sizes - 1
        BY <1>3, <1>4, <2>2, <4>1 DEF WaitingInv
      <4> QED
        BY <2>2, <4>1, <4>2, SizesTogether DEF PrioritySize, WaitSize
    <3>3. Len(p) + Len(w) + 1 <= Cardinality(Clients)
      <4>1. Len(Append(w, entry)) = Len(w) + 1
        BY <1>1
      <4>2. Len(WaitingQueue') = Len(p) + (Len(w) + 1)
        <5>1. Slotted(priorityWaitList', waitList')
          BY Slots DEF WaitingInv
        <5> QED
          BY <3>1, <4>1, <5>1 DEF WaitingQueue, Slotted
      <4>3. WaitingQueue' \in Seq(Entries) /\ OneEntry(WaitingQueue')
        BY Slots DEF WaitingInv, WaitingQueue, Slotted
      <4>4. Len(WaitingQueue') <= Cardinality(Clients)
        BY <4>3, QueueFits
      <4> QED
        BY <2>2, <4>2, <4>4
    <3> HIDE DEF sizes
    <3>4. GetTimeout(sizes + 1) <= T
      BY <1>6, <2>2, <3>2, <3>3
    <3>5. entry.left <= T
      BY <3>4
    <3> HIDE DEF entry
    <3>6. /\ Len(waitList') = Len(w) + 1 /\ waitList'[Len(w) + 1] = entry
          /\ \A i \in 1 .. Len(w) : waitList'[i] = w[i]
      BY <1>1, <3>1
    <3> QED
      BY <1>5, <2>2, <3>5, <3>6 DEF Within, T
  <2> QED
    BY <2>3, <2>4
<1>10. CASE Tick
  <2>1. waitList' = Aged(waitList) /\ waitList \in Seq(Entries)
    BY <1>10 DEF Tick, WaitingInv
  <2>2. DOMAIN waitList = 1 .. Len(waitList) /\ Len(waitList) \in Nat
    BY <2>1
  <2>3. /\ Len(waitList') = Len(waitList)
        /\ \A i \in 1 .. Len(waitList) : waitList'[i]
              = [waitList[i] EXCEPT !.left = IF waitList[i].left < 0 THEN waitList[i].left
                                                                    ELSE waitList[i].left - 1]
    BY <2>1, <2>2 DEF Aged, WaitingInv
  <2>4. ASSUME NEW i \in 1 .. Len(waitList)
        PROVE  waitList'[i].left <= T
    <3>1. waitList[i] \in Entries /\ waitList[i].left \in Int
      <4>1. waitList[i] \in Entries
        BY <2>1
      <4> QED
        BY <4>1 DEF Entries
    <3>2. waitList'[i].left = IF waitList[i].left < 0 THEN waitList[i].left
                                                      ELSE waitList[i].left - 1
      BY <2>3, <3>1 DEF Entries
    <3>3. waitList[i].left <= T
      BY DEF Within
    <3>4. \A x, y \in Int : x <= y => (IF x < 0 THEN x ELSE x - 1) <= y
      OBVIOUS
    <3>5. T \in Int
      BY <1>4
    <3> HIDE DEF T
    <3> QED
      BY <3>1, <3>2, <3>3, <3>4, <3>5
  <2> QED
    BY <2>3, <2>4 DEF Within
<1>11. ASSUME NEW c \in Clients, LoginAtOnce(c) \/ LeaveGame(c) \/ ChangeAccount(c)
       PROVE  Within(waitList')
  BY <1>11 DEF LoginAtOnce, LeaveGame, ChangeAccount
<1>12. CASE UNCHANGED waitingVars
  BY <1>12 DEF waitingVars
<1> QED
  BY <1>7, <1>8, <1>9, <1>10, <1>11, <1>12 DEF WaitingNext

\* Types, and that no timeout in waitList is longer than it may be although clientLogin()
\* computes it from size() of two lists that are off.
THEOREM WaitingTypeCorrect == WaitingSpec => []WaitingTypeOK
<1>1. WaitingInit => Within(waitList)
  <2> SUFFICES ASSUME WaitingInit
               PROVE  Within(waitList)
    OBVIOUS
  <2>1. Len(waitList) = 0
    BY DEF WaitingInit
  <2> QED
    BY <2>1 DEF Within
<1>2. WaitingInv /\ WaitingInv' /\ Within(waitList) /\ [WaitingNext]_waitingVars => Within(waitList)'
  BY WithinSteps DEF Within
<1>3. WaitingInv /\ Within(waitList) => WaitingTypeOK
  <2> SUFFICES ASSUME WaitingInv, Within(waitList)
               PROVE  WaitingTypeOK
    OBVIOUS
  <2>1. Slotted(priorityWaitList, waitList)
    BY Slots DEF WaitingInv
  <2>2. ASSUME NEW i \in DOMAIN waitList
        PROVE  waitList[i].left \in -1 .. GetTimeout(Cardinality(Clients))
    <3>1. Len(priorityWaitList) \in Nat /\ Len(waitList) \in Nat /\ i \in 1 .. Len(waitList)
      BY <2>1 DEF Slotted
    <3> DEFINE j == Len(priorityWaitList) + i
    <3>2. /\ j \in 1 .. Len(priorityWaitList) + Len(waitList)
          /\ j \notin 1 .. Len(priorityWaitList) /\ j - Len(priorityWaitList) = i
      BY <3>1
    <3> HIDE DEF j
    <3>3. j \in 1 .. Len(WaitingQueue) /\ WaitingQueue[j] = waitList[i]
      BY <2>1, <3>2 DEF Slotted, WaitingQueue
    <3>4. waitList[i].left \in -1 .. 27
      BY <3>3 DEF WaitingInv, Timely
    <3>5. waitList[i].left <= GetTimeout(Cardinality(Clients))
      BY <3>1 DEF Within
    <3>6. GetTimeout(Cardinality(Clients)) \in Int
      BY WaitingListAssumption, FS_CardinalityType, GetTimeType
    <3>7. \A x \in -1 .. 27, y \in Int : x <= y => x \in -1 .. y
      OBVIOUS
    <3> QED
      BY <3>4, <3>5, <3>6, <3>7
  <2> QED
    BY <2>2 DEF WaitingInv, WaitingTypeOK
<1> QED
  BY <1>1, <1>2, <1>3, WaitingInvHolds, PTL DEF WaitingSpec

StillBefore(slot) == {i \in 1 .. slot - 1 : WaitingQueue[i].client
                  \in WaitingClients(priorityWaitList', waitList')}

\* There is room for a client and for all of those that were before it and still wait.
LEMMA RoomStep ==
    ASSUME WaitingInv, WaitingInv', NEW c \in Clients, LoginFromList(c), c \in online',
           NEW old \in 1 .. Len(WaitingQueue), WaitingQueue[old].client = c
    PROVE  Cardinality(online') + Cardinality(StillBefore(old)) <= MaxPlayers
<1> DEFINE p == CleanupList(priorityWaitList)
           w == CleanupList(waitList)
           q == Queue(p, w)
           new == WaitingQueue'
<1>1. /\ p \in Seq(Entries) /\ w \in Seq(Entries)
      /\ \E f : Thins(f, q, WaitingQueue)
  BY AfterCleanup
<1>2. PICK f : Thins(f, q, WaitingQueue)
  BY <1>1
<1>3. PICK slot \in FindClient(p, w, c) :
         /\ FitsNow(slot)
         /\ IF slot \in DOMAIN p
            THEN priorityWaitList' = RemoveAt(p, slot) /\ waitList' = w
            ELSE priorityWaitList' = p /\ waitList' = RemoveAt(w, slot - Len(p))
  BY DEF LoginFromList
<1>4. c \notin online /\ online' = online \cup {c}
  BY DEF LoginFromList, Waits, Placed
<1> HIDE DEF p, w
<1>5. q \in Seq(Entries) /\ WaitingQueue \in Seq(Entries) /\ new \in Seq(Entries)
  BY <1>1, Slots DEF Slotted, WaitingInv, WaitingQueue
<1>6. slot \in 1 .. Len(q) /\ q[slot].client = c
  BY <1>3, <1>5 DEF FindClient
<1>7. \E g : Thins(g, new, q)
  BY <1>1, <1>3, <1>6, Erased DEF WaitingQueue
<1>8. PICK g : Thins(g, new, q)
  BY <1>7
<1>9. \A n \in 1 .. Len(new) : new[n].client \in Clients
  <2>1. \A n \in 1 .. Len(new) : new[n] \in Entries
    BY <1>5
  <2> QED
    BY <2>1 DEF Entries
<1>10. WaitingClients(priorityWaitList', waitList') = {new[n].client : n \in 1 .. Len(new)}
  <2>1. DOMAIN new = 1 .. Len(new)
    BY <1>5
  <2> QED
    BY <2>1 DEF WaitingClients, WaitingQueue
<1> HIDE DEF q, new
<1>11. f[slot] = old
  <2>1. f[slot] \in 1 .. Len(WaitingQueue) /\ WaitingQueue[f[slot]].client = c
    BY <1>2, <1>6 DEF Thins
  <2> QED
    BY <2>1 DEF WaitingInv, OneEntry
<1>12. ASSUME NEW i \in StillBefore(old)
       PROVE  \E k \in 1 .. slot - 1 : f[k] = i
  <2>1. i \in 1 .. Len(WaitingQueue) /\ i < old
    BY <1>5 DEF StillBefore
  <2>2. PICK n \in 1 .. Len(new) : new[n].client = WaitingQueue[i].client
    BY <1>10 DEF StillBefore
  <2>3. g[n] \in 1 .. Len(q) /\ new[n] = q[g[n]]
    BY <1>8 DEF Thins
  <2>4. f[g[n]] \in 1 .. Len(WaitingQueue) /\ q[g[n]] = WaitingQueue[f[g[n]]]
    BY <1>2, <2>3 DEF Thins
  <2>5. f[g[n]] = i
    BY <2>1, <2>2, <2>3, <2>4 DEF WaitingInv, OneEntry
  <2>6. Len(q) \in Nat /\ Len(WaitingQueue) \in Nat
    BY <1>5
  <2>7. g[n] # slot /\ ~(slot < g[n])
    <3>1. g[n] # slot
      BY <1>11, <2>1, <2>5, <2>6
    <3>2. slot < g[n] => f[slot] < f[g[n]]
      BY <1>2, <1>6, <2>3 DEF Thins
    <3> QED
      BY <1>11, <2>1, <2>5, <2>6, <3>1, <3>2
  <2>8. g[n] \in 1 .. slot - 1
    BY <1>6, <2>3, <2>6, <2>7
  <2> QED
    BY <2>5, <2>8
<1>13. slot \in Nat /\ slot - 1 \in Nat
  BY <1>5, <1>6
<1>14. Cardinality(StillBefore(old)) \in Nat /\ Cardinality(StillBefore(old)) <= slot - 1
  <2> DEFINE place == [i \in StillBefore(old) |-> CHOOSE k \in 1 .. slot - 1 : f[k] = i]
  <2>1. \A i \in StillBefore(old) : place[i] \in 1 .. slot - 1 /\ f[place[i]] = i
    BY <1>12
  <2>2. place \in Injection(StillBefore(old), 1 .. slot - 1)
    BY <2>1 DEF Injection, IsInjective
  <2>3. IsFiniteSet(1 .. slot - 1) /\ Cardinality(1 .. slot - 1) = slot - 1
    <3>1. \A n \in Nat : IsFiniteSet(1 .. n) /\ Cardinality(1 .. n) = n
      BY UpTo
    <3> HIDE DEF place
    <3> QED
      BY <1>13, <3>1
  <2> HIDE DEF place
  <2>4. IsFiniteSet(StillBefore(old)) /\ Cardinality(StillBefore(old)) <= Cardinality(1 .. slot - 1)
    BY <2>2, <2>3, FS_Injection
  <2> QED
    BY <2>3, <2>4, FS_CardinalityType
<1>15. /\ Cardinality(online) \in Nat
       /\ Cardinality(online') = Cardinality(online) + 1
  <2>1. IsFiniteSet(online)
    BY WaitingListAssumption, FS_Subset DEF WaitingInv
  <2> QED
    BY <1>4, <2>1, FS_AddElement, FS_CardinalityType
<1>16. Cardinality(online) + slot <= MaxPlayers /\ MaxPlayers \in Nat
  BY <1>3, WaitingListAssumption DEF FitsNow
<1> QED
  BY <1>13, <1>14, <1>15, <1>16

\* Nobody takes the place of those before it (clientLogin).
THEOREM RoomHolds == WaitingSpec => RoomForThoseBefore
<1> DEFINE Room == \A c \in online' \ online : \A slot \in FindClient(priorityWaitList, waitList, c) :
                      c \notin Privileged =>
                          Cardinality(online') + Cardinality({i \in 1 .. slot - 1 :
                                Queue(priorityWaitList, waitList)[i].client
                                    \in WaitingClients(priorityWaitList', waitList')})
                            <= MaxPlayers
<1>1. ASSUME WaitingInv, WaitingInv', [WaitingNext]_waitingVars
      PROVE  Room
  <2> SUFFICES ASSUME NEW c \in online', c \notin online, c \notin Privileged,
                      NEW slot \in FindClient(priorityWaitList, waitList, c)
               PROVE  Cardinality(online') + Cardinality(StillBefore(slot)) <= MaxPlayers
    BY DEF StillBefore, WaitingQueue
  <2>1. /\ slot \in 1 .. Len(WaitingQueue) /\ WaitingQueue[slot].client = c
        /\ WaitingQueue # <<>>
    <3>1. DOMAIN WaitingQueue = 1 .. Len(WaitingQueue)
      BY <1>1, Slots DEF Slotted, WaitingInv, WaitingQueue
    <3>2. slot \in 1 .. Len(WaitingQueue) /\ WaitingQueue[slot].client = c
      BY <3>1 DEF FindClient, WaitingQueue
    <3>3. WaitingQueue # <<>>
      BY <3>1, <3>2
    <3> QED
      BY <3>2, <3>3
  <2>2. c \in Clients
    BY <1>1 DEF WaitingInv
  <2>3. MaxPlayers # 0 /\ (priorityWaitList # <<>> \/ waitList # <<>>)
    <3>1. MaxPlayers # 0
      BY <1>1, <2>1 DEF WaitingInv
    <3>2. ~(priorityWaitList = <<>> /\ waitList = <<>>)
      BY <1>1, <2>1, Slots DEF Slotted, WaitingInv, WaitingQueue
    <3> QED
      BY <3>1, <3>2
  <2>4. ASSUME NEW d \in Clients, LoginAtOnce(d)
        PROVE  FALSE
    <3>1. c = d
      BY <2>4 DEF LoginAtOnce, Placed
    <3> QED
      BY <2>3, <2>4, <3>1 DEF LoginAtOnce
  <2>5. ASSUME NEW d \in Clients, LoginFromList(d)
        PROVE  c = d
    BY <2>5 DEF LoginFromList, Placed
  <2>6. ASSUME NEW d \in Clients, WaitLonger(d) \/ StartWaiting(d) \/ LeaveGame(d) \/ ChangeAccount(d)
        PROVE  FALSE
    BY <2>6 DEF WaitLonger, StartWaiting, LeaveGame, ChangeAccount
  <2>7. ~Tick /\ ~(UNCHANGED waitingVars)
    BY DEF Tick, waitingVars
  <2>8. LoginFromList(c)
    BY <1>1, <2>4, <2>5, <2>6, <2>7 DEF WaitingNext
  <2> QED
    BY <1>1, <2>1, <2>2, <2>8, RoomStep
<1>2. ASSUME WaitingInv, WaitingInv', [WaitingNext]_waitingVars
      PROVE  [Room]_waitingVars
  BY <1>1, <1>2
<1> HIDE DEF Room
<1>3. WaitingSpec => [][Room]_waitingVars
  BY <1>2, WaitingInvHolds, PTL DEF WaitingSpec
<1> QED
  BY <1>3 DEF Room, RoomForThoseBefore
=============================================================================
