----------------------------- MODULE WaitingList -----------------------------
(***************************************************************************)
(* The login queue (src/waitlist.cpp): when the server is full, clients    *)
(* wait in two lists, premium accounts in front of the others, and retry   *)
(* after the time they are told; an entry carries a timeout so that        *)
(* clients that do not come back make room.  It is called by               *)
(* ProtocolGame::login, on the dispatcher thread.                          *)
(*                                                                         *)
(* Time is in units of five seconds, and a timeout is kept as the time     *)
(* that is left: -1 stands for every moment after it.                      *)
(***************************************************************************)
EXTENDS Integers, SequencesExt

CONSTANTS Clients,
          Privileged,     \* CanAlwaysLogin or a gamemaster's account
          MaxPlayers,     \* the configured maximum, 0 for none
          Width,          \* bits of std::size_t
          MaxSkew         \* bound: priority entries erased through the other list

\* The values of std::size_t: more than there are clients or units of time in a timeout.
Sizes == 2^Width

ASSUME WaitingListAssumption ==
    /\ IsFiniteSet(Clients) /\ Privileged \subseteq Clients
    /\ {MaxPlayers, MaxSkew, Sizes} \subseteq Nat
    /\ Cardinality(Clients) < Sizes /\ MaxSkew < Sizes /\ 27 < Sizes

VARIABLES online,          \* g_game.getPlayersOnline() counts these
          premium,         \* clients whose account is premium
          priorityWaitList,
          waitList,
          skew,            \* how far the size fields of the two lists are off
          refused          \* the client whose login was refused last, since the last tick

waitingVars == <<online, premium, priorityWaitList, waitList, skew, refused>>

Entries == [client : Clients, left : Int]

WaitingInit ==
    /\ online = {}
    /\ premium \in SUBSET (Clients \ Privileged)
    /\ priorityWaitList = <<>>
    /\ waitList = <<>>
    /\ skew = 0
    /\ refused = {}

-----------------------------------------------------------------------------

\* getTime(): when the client at this slot is told to retry.
GetTime(slot) ==
    CASE slot < 5  -> 1
      [] slot \in 5 .. 9 -> 2
      [] slot \in 10 .. 19 -> 4
      [] slot \in 20 .. 49 -> 12
      [] OTHER -> 24

Mut_GetTimeout(slot) == GetTime(slot)

\* getTimeout(): fifteen seconds longer.
GetTimeout(slot) == GetTime(slot) + 3

\* cleanupList(): the unsigned difference of the timeout and the time is <= 0.
IsExpired(entry) == entry.left % Sizes <= 0

\* The others stay, in the same order: the n-th one is that which is not behind n of them.
CleanupList(list) ==
    LET kept == {slot \in DOMAIN list : ~IsExpired(list[slot])}
        before(slot) == {i \in kept : i <= slot}
    IN  [n \in 1 .. Cardinality(kept) |->
            list[CHOOSE slot \in kept : Cardinality(before(slot)) = n]]

Queue(priority, wait) == priority \o wait

\* findClient(): the slots of the client, counted through both lists.
FindClient(priority, wait, c) ==
    {slot \in DOMAIN Queue(priority, wait) : Queue(priority, wait)[slot].client = c}

Mut_FitsNow(slot) == Cardinality(online) < MaxPlayers

\* clientLogin(): there is room for the client and for all that wait before it.
FitsNow(slot) == Cardinality(online) + slot <= MaxPlayers

\* The size fields of the lists: waitList.erase() is also called with an iterator
\* of priorityWaitList, and then counts down the size of waitList instead.
PrioritySize(priority) == Len(priority) + skew

WaitSize(wait) == (Len(wait) - skew) % Sizes

-----------------------------------------------------------------------------

\* After clientLogin returned true the player is loaded and placed, which may fail.
Placed(c) == online' \in {online, online \cup {c}}

\* clientLogin(): who need not wait.
LoginAtOnce(c) ==
    /\ c \notin online
    /\ \/ c \in Privileged
       \/ MaxPlayers = 0
       \/ priorityWaitList = <<>> /\ waitList = <<>> /\ Cardinality(online) < MaxPlayers
    /\ Placed(c)
    /\ refused' = refused \ {c}
    /\ UNCHANGED <<premium, priorityWaitList, waitList, skew>>

\* clientLogin() beyond that test: the lists are cleaned up and the client is found or not.
Waits(c) ==
    /\ c \notin online \cup Privileged
    /\ MaxPlayers # 0
    /\ priorityWaitList # <<>> \/ waitList # <<>> \/ Cardinality(online) >= MaxPlayers

\* A waiting client can log in now: its entry is erased.
LoginFromList(c) ==
    LET priority == CleanupList(priorityWaitList)
        wait     == CleanupList(waitList)
    IN  /\ Waits(c)
        /\ \E slot \in FindClient(priority, wait, c) :
              /\ FitsNow(slot)
              /\ IF slot \in DOMAIN priority
                 THEN /\ skew < MaxSkew /\ skew' = skew + 1
                      /\ priorityWaitList' = RemoveAt(priority, slot)
                      /\ waitList' = wait
                 ELSE /\ skew' = skew
                      /\ priorityWaitList' = priority
                      /\ waitList' = RemoveAt(wait, slot - Len(priority))
        /\ Placed(c)
        /\ refused' = refused \ {c}
        /\ UNCHANGED premium

\* A waiting client cannot log in yet: its timeout is set again.
WaitLonger(c) ==
    LET priority == CleanupList(priorityWaitList)
        wait     == CleanupList(waitList)
    IN  /\ Waits(c)
        /\ \E slot \in FindClient(priority, wait, c) :
              /\ ~FitsNow(slot)
              /\ IF slot \in DOMAIN priority
                 THEN /\ priorityWaitList' = [priority EXCEPT ![slot].left = GetTimeout(slot)]
                      /\ waitList' = wait
                 ELSE /\ priorityWaitList' = priority
                      /\ waitList' = [wait EXCEPT ![slot - Len(priority)].left = GetTimeout(slot)]
        /\ refused' = {c}
        /\ UNCHANGED <<online, premium, skew>>

\* A client that does not wait yet is put at the end of its list.
StartWaiting(c) ==
    LET priority == CleanupList(priorityWaitList)
        wait     == CleanupList(waitList)
        entry(size) == [client |-> c, left |-> GetTimeout(size + 1)]
    IN  /\ Waits(c)
        /\ FindClient(priority, wait, c) = {}
        /\ IF c \in premium
           THEN /\ priorityWaitList' = Append(priority, entry(PrioritySize(priority)))
                /\ waitList' = wait
           ELSE /\ priorityWaitList' = priority
                /\ waitList' = Append(wait, entry((PrioritySize(priority) + WaitSize(wait))
                                                      % Sizes))
        /\ refused' = {c}
        /\ UNCHANGED <<online, premium, skew>>

LeaveGame(c) ==
    /\ c \in online
    /\ online' = online \ {c}
    /\ UNCHANGED <<premium, priorityWaitList, waitList, skew, refused>>

\* Premium time is bought or ends.
ChangeAccount(c) ==
    /\ c \notin Privileged
    /\ premium' = IF c \in premium THEN premium \ {c} ELSE premium \cup {c}
    /\ UNCHANGED <<online, priorityWaitList, waitList, skew, refused>>

Aged(list) ==
    [slot \in DOMAIN list |->
        [list[slot] EXCEPT !.left = IF @ < 0 THEN @ ELSE @ - 1]]

Tick ==
    /\ priorityWaitList # <<>> \/ waitList # <<>>
    /\ priorityWaitList' = Aged(priorityWaitList)
    /\ waitList' = Aged(waitList)
    /\ refused' = {}
    /\ UNCHANGED <<online, premium, skew>>

WaitingNext ==
    \/ \E c \in Clients :
          \/ LoginAtOnce(c) \/ LoginFromList(c) \/ WaitLonger(c) \/ StartWaiting(c)
          \/ LeaveGame(c) \/ ChangeAccount(c)
    \/ Tick

WaitingSpec == WaitingInit /\ [][WaitingNext]_waitingVars

-----------------------------------------------------------------------------

WaitingClients(priority, wait) ==
    {Queue(priority, wait)[slot].client : slot \in DOMAIN Queue(priority, wait)}

\* Every variable keeps its type, no timeout is longer than that of the last slot there is
\* a client for, although it is computed from size fields that are off.
WaitingTypeOK ==
    /\ online \subseteq Clients
    /\ premium \subseteq Clients \ Privileged
    /\ priorityWaitList \in Seq(Entries) /\ waitList \in Seq(Entries)
    /\ skew \in 0 .. MaxSkew
    /\ refused \subseteq Clients
    /\ \A slot \in DOMAIN waitList :
          waitList[slot].left \in -1 .. GetTimeout(Cardinality(Clients))

\* Nobody takes the place of those before it: when a client leaves its list for the game,
\* there is still room for every client before it in the queue.
RoomForThoseBefore ==
    [][\A c \in online' \ online : \A slot \in FindClient(priorityWaitList, waitList, c) :
          c \notin Privileged =>
              Cardinality(online') + Cardinality({i \in 1 .. slot - 1 :
                    Queue(priorityWaitList, waitList)[i].client
                        \in WaitingClients(priorityWaitList', waitList')})
                <= MaxPlayers]_waitingVars

\* Whoever is refused and comes back when told, at getTime of its slot, finds its entry: it has
\* one in both lists together, even if its account became premium or stopped to be while it
\* waits, and the timeout it was just given lies later, however the lists changed meanwhile.
RefusedMayComeBack ==
    \A c \in refused :
        \E slot \in DOMAIN Queue(priorityWaitList, waitList) :
            /\ \A i \in DOMAIN Queue(priorityWaitList, waitList) :
                  Queue(priorityWaitList, waitList)[i].client = c <=> i = slot
            /\ Queue(priorityWaitList, waitList)[slot].left > GetTime(slot)
=============================================================================
