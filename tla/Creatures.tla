----------------------------- MODULE Creatures ------------------------------
(***************************************************************************)
(* The life of creatures (src/creature.cpp, monster.cpp, spawn.cpp and the *)
(* placing, moving, checking and removing of creatures in src/game.cpp and *)
(* map.cpp).                                                               *)
(*                                                                         *)
(* A creature is an object whose reference counter counts the game, the    *)
(* list of creatures to check, the spawn, its master and the monsters that *)
(* have it in their target or friend list; the last of them that lets go   *)
(* deletes it.  Other pointers (attackedCreature, followCreature, master)  *)
(* are not counted: they are safe only because those who see a creature    *)
(* are told when it disappears.  A monster that has no target is idle and  *)
(* is not checked at all until somebody comes into view.                   *)
(*                                                                         *)
(* All of this runs on the dispatcher thread.  Handlers are functions on   *)
(* the whole state w, so that they call each other as in the code.         *)
(* Positions are places in a row; a creature sees its own place and the    *)
(* neighbouring ones.  Conditions, invisibility, parties and the scripts   *)
(* of single monsters are left out.                                        *)
(***************************************************************************)
EXTENDS Integers, FiniteSets, FiniteSetsExt

CONSTANTS Players, Monsters,  \* the addresses that Player and Monster objects have
          Places,             \* 1 .. n
          Slots,              \* the spawnMap of the spawn: an id for each monster
          Home,               \* the place of the spawn
          MaxSummons,         \* MonsterType::maxSummons
          MaxDying,           \* bound: how many creatures are hit to death before one is buried
          Nobody              \* nullptr

ASSUME CreaturesAssumption ==
    /\ IsFiniteSet(Players) /\ IsFiniteSet(Monsters) /\ IsFiniteSet(Slots)
    /\ Players \cap Monsters = {} /\ Nobody \notin Players \cup Monsters
    /\ Places \subseteq Int /\ Home \in Places
    /\ MaxSummons \in Nat /\ MaxDying \in Nat
    /\ Cardinality(Slots) <= Cardinality(Monsters)

VARIABLE w

Creatures == Players \cup Monsters

(***************************************************************************)
(* status: there is no object at the address, it is in the world, or it is *)
(* removed from the world; at: its position; alive: health > 0; refs:      *)
(* referenceCounter; toRelease: how often it is in ToReleaseCreatures;     *)
(* checked and inVector: creatureCheck and inCheckCreaturesVector.         *)
(* Of monsters: isIdle, targetList, friendList.  Of the spawn: spawnedMap, *)
(* checkSpawnEvent, and the slots of which scheduleSpawn is under way.     *)
(* forgotten and filled are history: whom a monster put to sleep at home   *)
(* saw there, and the slots that ever had a monster.                       *)
(***************************************************************************)
Placed(v, c) == v.status[c] = "placed"

\* Creature::canSee, and the range of Map::getSpectators.
InView(a, b) == a - b \in -1 .. 1

Spectators(v, place) == {c \in Creatures : Placed(v, c) /\ InView(v.at[c], place)}

\* The creatures of a set take their turn, in some order.
InTurn(op(_, _), v, cs) == FoldSet(LAMBDA c, u : op(u, c), v, cs)

\* First those of before, then c, then the others.
InOrder(op(_, _), v, cs, before, c) ==
    InTurn(op, InTurn(op, InTurn(op, v, cs \cap before), {c}), cs \ before)

-----------------------------------------------------------------------------
\* Reference counting.

Count(P) == IF P THEN 1 ELSE 0

IncrementReferenceCounter(v, c) == [v EXCEPT !.refs[c] = @ + 1]

(***************************************************************************)
(* Who turns to c, or to nobody, when x does: its summons and theirs, as   *)
(* far as those who command them see c.  There are no more than these: the *)
(* master of a monster that is itself a master is a player                 *)
(* (PointersAreLive).                                                      *)
(***************************************************************************)
CanAttack(v, x, c) == c = Nobody \/ InView(v.at[x], v.at[c])

Commanded(v, xs, c) == UNION {v.summons[x] : x \in {y \in xs : CanAttack(v, y, c)}}

AttackingWith(v, x, c) ==
    LET line == Commanded(v, {x}, c) IN {x} \cup line \cup Commanded(v, line, c)

\* Creature::setAttackedCreature: the summons attack what their master attacks.
SetAttackedCreature(v, x, c) ==
    LET with == AttackingWith(v, x, c)
    IN  [v EXCEPT !.attacked = [y \in Creatures |->
            IF y \notin with THEN @[y] ELSE IF CanAttack(v, y, c) THEN c ELSE Nobody]]

(***************************************************************************)
(* What is deleted lets go of others, which may be deleted too: ~Monster   *)
(* clears its lists, ~Creature takes leave of the summons.  The garbage is *)
(* the least set that contains every object whose counter is 0, or comes   *)
(* to 0 when those of the set let go.  The order in which they go makes no *)
(* difference to what is left.                                             *)
(***************************************************************************)
HeldBy(v, D, c) ==
    Cardinality({m \in D : c \in v.targets[m]}) + Cardinality({m \in D : c \in v.friends[m]})
    + Count(v.master[c] # Nobody /\ \E m \in D : c \in v.summons[m])

Garbage(v) ==
    {c \in Creatures : \A D \in SUBSET Creatures :
        (\A x \in Creatures \ D : v.status[x] # "free" => HeldBy(v, D, x) < v.refs[x])
        => c \in D}

Orphans(v, D) == UNION {v.summons[c] : c \in D}

\* The rest makes the address look unused.
Deleted(v, D) ==
    [v EXCEPT
        !.refs = [c \in Creatures |-> @[c] - HeldBy(v, D, c)],
        !.targets = [c \in Creatures |-> IF c \in D THEN {} ELSE @[c]],
        !.friends = [c \in Creatures |-> IF c \in D THEN {} ELSE @[c]],
        !.summons = [c \in Creatures |-> IF c \in D THEN {} ELSE @[c]],
        !.master = [c \in Creatures |-> IF c \in Orphans(v, D) THEN Nobody ELSE @[c]],
        !.attacked = [c \in Creatures |->
            IF c \in D \/ \E s \in Orphans(v, D) : c \in AttackingWith(v, s, Nobody)
            THEN Nobody ELSE @[c]],
        !.follow = [c \in Creatures |-> IF c \in D THEN Nobody ELSE @[c]],
        !.status = [c \in Creatures |-> IF c \in D THEN "free" ELSE @[c]],
        !.idle = [c \in Creatures |-> c \in D \/ @[c]],
        !.alive = [c \in Creatures |-> c \in D \/ @[c]],
        !.at = [c \in Creatures |-> IF c \in D THEN Home ELSE @[c]],
        !.forgotten = {f \in @ : f[1] \notin D /\ f[2] \notin D}]

\* Objects are deleted as soon as their counters come to 0.
Swept(v) == IF \A c \in Creatures : v.status[c] = "free" \/ v.refs[c] > 0
            THEN v ELSE Deleted(v, Garbage(v))

DecrementReferenceCounter(v, c) == Swept([v EXCEPT !.refs[c] = @ - 1])

\* Monster::clearTargetList and clearFriendList.
ClearLists(v, m) ==
    Swept([v EXCEPT !.targets[m] = {}, !.friends[m] = {},
                    !.refs = [c \in Creatures |-> @[c] - Count(c \in v.targets[m])
                                                       - Count(c \in v.friends[m])]])

\* Game::ReleaseCreature, and Game::cleanup, which lets go of what was released.
ReleaseCreature(v, c) == [v EXCEPT !.toRelease[c] = @ + 1]

Cleanup(v) ==
    Swept([v EXCEPT !.toRelease = [c \in Creatures |-> 0],
                    !.refs = [c \in Creatures |-> @[c] - v.toRelease[c]]])

Mut_AddCreatureCheck(v, c) ==
    IF v.inVector[c] THEN [v EXCEPT !.checked[c] = TRUE]
    ELSE [v EXCEPT !.checked[c] = TRUE, !.inVector[c] = TRUE]

AddCreatureCheck(v, c) ==
    IF v.inVector[c] THEN [v EXCEPT !.checked[c] = TRUE]
    ELSE IncrementReferenceCounter([v EXCEPT !.checked[c] = TRUE, !.inVector[c] = TRUE], c)

RemoveCreatureCheck(v, c) == [v EXCEPT !.checked[c] = @ /\ ~v.inVector[c]]

-----------------------------------------------------------------------------
\* Who is whose friend, opponent, master and target.

IsSummon(v, m) == v.master[m] # Nobody

IsFriend(v, m, c) ==
    IF v.master[m] \in Players
    THEN v.master[m] = (IF c \in Players THEN c ELSE v.master[c])
    ELSE c \in Monsters /\ ~IsSummon(v, c)

IsOpponent(v, m, c) ==
    IF v.master[m] \in Players THEN c # v.master[m]
                               ELSE c \in Players \/ v.master[c] \in Players

Mut_SetIdle(v, m, idle) ==
    IF ~idle THEN AddCreatureCheck([v EXCEPT !.idle[m] = FALSE], m)
    ELSE RemoveCreatureCheck(ClearLists([v EXCEPT !.idle[m] = TRUE], m), m)

\* Monster::setIdle: nothing once the monster is removed or has no health left.
SetIdle(v, m, idle) ==
    IF v.status[m] = "removed" \/ ~v.alive[m] THEN v
    ELSE IF ~idle THEN AddCreatureCheck([v EXCEPT !.idle[m] = FALSE], m)
    ELSE RemoveCreatureCheck(ClearLists([v EXCEPT !.idle[m] = TRUE], m), m)

UpdateIdleStatus(v, m) == SetIdle(v, m, ~IsSummon(v, m) /\ v.targets[m] = {})

AddFriend(v, m, c) ==
    IF c \in v.friends[m] THEN v
    ELSE IncrementReferenceCounter([v EXCEPT !.friends[m] = @ \cup {c}], c)

RemoveFriend(v, m, c) ==
    IF c \notin v.friends[m] THEN v
    ELSE DecrementReferenceCounter([v EXCEPT !.friends[m] = @ \ {c}], c)

AddTarget(v, m, c) ==
    IF c \in v.targets[m] THEN v
    ELSE IncrementReferenceCounter([v EXCEPT !.targets[m] = @ \cup {c},
                                             !.forgotten = @ \ {<<m, c>>}], c)

RemoveTarget(v, m, c) ==
    IF c \notin v.targets[m] THEN v
    ELSE DecrementReferenceCounter([v EXCEPT !.targets[m] = @ \ {c}], c)

FoundFriend(v, m, c) == IF IsFriend(v, m, c) THEN AddFriend(v, m, c) ELSE v
FoundOpponent(v, m, c) == IF IsOpponent(v, m, c) THEN AddTarget(v, m, c) ELSE v

Mut_OnCreatureFound(v, m, c) == FoundOpponent(FoundFriend(v, m, c), m, c)

OnCreatureFound(v, m, c) == UpdateIdleStatus(FoundOpponent(FoundFriend(v, m, c), m, c), m)

IdleWithoutTargets(v, m) == IF v.targets[m] = {} THEN UpdateIdleStatus(v, m) ELSE v

\* What is removed from the lists depends on what the creature is when it leaves, which
\* need not be what it was when it came.
LeftFriend(v, m, c) == IF IsFriend(v, m, c) THEN RemoveFriend(v, m, c) ELSE v
LeftOpponent(v, m, c) ==
    IF IsOpponent(v, m, c) THEN IdleWithoutTargets(RemoveTarget(v, m, c), m) ELSE v

OnCreatureLeave(v, m, c) == LeftOpponent(LeftFriend(v, m, c), m, c)

\* Monster::updateTargetList: first the lists are cleaned, then the spectators are found.
Lost(v, m, c) == ~v.alive[c] \/ ~InView(v.at[m], v.at[c])

WithoutLostFriends(v, m) ==
    LET lost == {c \in v.friends[m] : Lost(v, m, c)}
    IN  Swept([v EXCEPT !.friends[m] = @ \ lost,
                        !.refs = [c \in Creatures |-> @[c] - Count(c \in lost)]])

WithoutLostTargets(v, m) ==
    LET lost == {c \in v.targets[m] : Lost(v, m, c)}
    IN  Swept([v EXCEPT !.targets[m] = @ \ lost,
                        !.refs = [c \in Creatures |-> @[c] - Count(c \in lost)]])

FindSpectators(v, m) ==
    InTurn(LAMBDA x, c : OnCreatureFound(x, m, c), v, Spectators(v, v.at[m]) \ {m})

UpdateTargetList(v, m) == FindSpectators(WithoutLostTargets(WithoutLostFriends(v, m), m), m)

\* Creature::setMaster.
SetMaster(v, c, m) ==
    LET old == v.master[c]
        u == IF m = Nobody THEN v
             ELSE IncrementReferenceCounter([v EXCEPT !.summons[m] = @ \cup {c}], c)
        t == [u EXCEPT !.master[c] = m]
    IN  IF old # Nobody /\ c \in v.summons[old]
        THEN DecrementReferenceCounter(
                 [t EXCEPT !.summons[old] = IF old = m THEN @ ELSE @ \ {c}], c)
        ELSE t

SetFollowCreature(v, x, c) ==
    [v EXCEPT !.follow[x] = IF c # Nobody /\ ~InView(v.at[x], v.at[c]) THEN Nobody ELSE c]

Mut_OnCreatureDisappear(v, x, c) ==
    IF v.attacked[x] = c THEN SetAttackedCreature(v, x, Nobody) ELSE v

\* Creature::onCreatureDisappear; a player that stops attacking also stops following.
OnCreatureDisappear(v, x, c) ==
    LET u == IF v.attacked[x] # c THEN v
             ELSE LET a == SetAttackedCreature(v, x, Nobody)
                  IN  IF x \in Players THEN SetFollowCreature(a, x, Nobody) ELSE a
    IN  IF u.follow[x] = c THEN SetFollowCreature(u, x, Nobody) ELSE u

-----------------------------------------------------------------------------
\* Placing, removing and moving.

OnCreatureAppear(v, s, c) ==
    IF s \notin Monsters THEN v
    ELSE IF s = c THEN UpdateIdleStatus(UpdateTargetList(v, s), s)
    ELSE OnCreatureFound(v, s, c)

\* Game::internalPlaceCreature.
InternalPlaceCreature(v, c, place) ==
    IncrementReferenceCounter([v EXCEPT !.status[c] = "placed", !.at[c] = place], c)

\* Game::placeCreature.
PlaceCreature(v, c, place) ==
    LET u == InternalPlaceCreature(v, c, place)
    IN  AddCreatureCheck(InTurn(LAMBDA x, s : OnCreatureAppear(x, s, c), u, Spectators(u, place)), c)

\* Monster::spawn is set as long as the spawn has the monster in its spawnedMap.
StartSpawnCheck(v, m) ==
    IF \E s \in Slots : m \in v.spawned[s] THEN [v EXCEPT !.checkSpawnEvent = TRUE] ELSE v

\* A creature that is removed leaves its master, unless that one is removed as well.
LeaveMaster(v, c) ==
    IF v.master[c] # Nobody /\ v.status[v.master[c]] # "removed" THEN SetMaster(v, c, Nobody) ELSE v

\* onRemoveCreature of the creature itself, and of the spectator s.
OnOwnRemoval(v, c) == IF c \in Monsters THEN SetIdle(StartSpawnCheck(v, c), c, TRUE) ELSE v

OnRemoveCreature(v, s, c) ==
    IF s = c THEN OnOwnRemoval(LeaveMaster(OnCreatureDisappear(v, c, c), c), c)
    ELSE IF s \in Monsters THEN OnCreatureLeave(OnCreatureDisappear(v, s, c), s, c)
    ELSE OnCreatureDisappear(v, s, c)

TellRemoval(v, ss, before, c) == InOrder(LAMBDA u, s : OnRemoveCreature(u, s, c), v, ss, before, c)

\* Its object is released, and what it attacked or followed, which nobody asks a removed
\* creature, is dropped.
TakenOut(v, c) ==
    RemoveCreatureCheck(ReleaseCreature(
        [v EXCEPT !.status[c] = "removed", !.attacked[c] = Nobody, !.follow[c] = Nobody], c), c)

(***************************************************************************)
(* Game::removeCreature.  The spectators are told in the order of a hash   *)
(* set; what matters is which of them come before the creature itself,     *)
(* since it leaves its master at its own turn and others judge it by its   *)
(* master.  Its summons go with it, and theirs.                            *)
(***************************************************************************)
RemoveAlone(v, c, before) ==
    IF ~Placed(v, c) THEN v
    ELSE TakenOut(TellRemoval(v, Spectators(v, v.at[c]) \ {c}, before, c), c)

RemoveSummon(v, c, before) ==
    LET u == RemoveAlone(v, c, before)
    IN  IF ~Placed(v, c) THEN v
        ELSE InTurn(LAMBDA x, s : RemoveAlone(x, s, before), u, u.summons[c])

RemoveCreature(v, c, before) ==
    LET u == RemoveAlone(v, c, before)
    IN  IF ~Placed(v, c) THEN v
        ELSE InTurn(LAMBDA x, s : RemoveSummon(x, s, before), u, u.summons[c])

\* Monster::isTarget and selectTarget.
SelectTarget(v, m, c) ==
    IF Placed(v, c) /\ InView(v.at[m], v.at[c]) /\ c \in v.targets[m]
    THEN SetFollowCreature(SetAttackedCreature(v, m, c), m, c) ELSE v

\* What a creature follows or attacks is let go when c's move takes it out of sight.
LetGo(v, s, x, c) ==
    IF x # Nobody /\ c \in {s, x} /\ ~InView(v.at[s], v.at[x]) THEN OnCreatureDisappear(v, s, x) ELSE v

LetGoFollowed(v, s, c) == LetGo(v, s, v.follow[s], c)
LetGoAttacked(v, s, c) == LetGo(v, s, v.attacked[s], c)

\* Creature::onCreatureMove: who moves may lose summons that are too far behind (far).
CreatureMoved(v, s, c, far, before) ==
    LetGoAttacked(LetGoFollowed(
        InTurn(LAMBDA u, x : RemoveCreature(u, x, before), v, IF s = c THEN far ELSE {}), s, c), s, c)

\* A monster sees c come or go, when c went from old to its present place.
Met(v, s, c, old) ==
    LET seesNew == InView(v.at[s], v.at[c])
        seesOld == InView(v.at[s], old)
    IN  UpdateIdleStatus(IF seesNew /\ ~seesOld THEN OnCreatureFound(v, s, c)
                         ELSE IF seesOld /\ ~seesNew THEN OnCreatureLeave(v, s, c)
                         ELSE v, s)

\* A monster that follows nobody goes for an opponent that moves.
Noticed(v, s, c) ==
    IF ~IsSummon(v, s) /\ v.follow[s] = Nobody /\ IsOpponent(v, s, c) THEN SelectTarget(v, s, c) ELSE v

MonsterMoved(v, s, c, old) ==
    IF s = c THEN UpdateIdleStatus(UpdateTargetList(v, s), s) ELSE Noticed(Met(v, s, c, old), s, c)

\* onCreatureMove of the spectator s.
OnCreatureMove(v, s, c, old, far, before) ==
    IF s \in Monsters THEN MonsterMoved(CreatureMoved(v, s, c, far, before), s, c, old)
                      ELSE CreatureMoved(v, s, c, far, before)

TellMove(v, ss, before, c, old, far) ==
    InOrder(LAMBDA u, s : OnCreatureMove(u, s, c, old, far, before), v, ss, before, c)

\* Map::moveCreature: the spectators are told in the order of a hash set.
MoveCreature(v, c, place, far, before) ==
    LET u == [v EXCEPT !.at[c] = place]
        others == (Spectators(v, v.at[c]) \cup Spectators(u, place)) \ {c}
    IN  IF place = v.at[c] THEN v ELSE TellMove(u, others, before, c, v.at[c], far)

-----------------------------------------------------------------------------
\* Spawns.

Free(v) == {m \in Monsters : v.status[m] = "free"}

\* Spawn::spawnMonster, when the monster can be placed.
SpawnMonster(v, slot, m) ==
    IncrementReferenceCounter(
        [PlaceCreature(v, m, Home) EXCEPT !.spawned[slot] = @ \cup {m}, !.filled = @ \cup {slot}], m)

Nowhere ==
    [status |-> [c \in Creatures |-> "free"], at |-> [c \in Creatures |-> Home],
     alive |-> [c \in Creatures |-> TRUE], refs |-> [c \in Creatures |-> 0],
     toRelease |-> [c \in Creatures |-> 0], checked |-> [c \in Creatures |-> FALSE],
     inVector |-> [c \in Creatures |-> FALSE], master |-> [c \in Creatures |-> Nobody],
     summons |-> [c \in Creatures |-> {}], attacked |-> [c \in Creatures |-> Nobody],
     follow |-> [c \in Creatures |-> Nobody], idle |-> [c \in Creatures |-> TRUE],
     targets |-> [c \in Creatures |-> {}], friends |-> [c \in Creatures |-> {}],
     spawned |-> [s \in Slots |-> {}], checkSpawnEvent |-> FALSE, scheduled |-> {},
     forgotten |-> {}, filled |-> {}]

\* Spawn::startup: monsters placed without telling anybody.
StartedWith(v, slots, m) ==
    LET placed == {m[s] : s \in slots}
    IN  [v EXCEPT !.status = [c \in Creatures |-> IF c \in placed THEN "placed" ELSE @[c]],
                  !.refs = [c \in Creatures |-> IF c \in placed THEN @[c] + 2 ELSE @[c]],
                  !.spawned = [s \in Slots |-> IF s \in slots THEN {m[s]} ELSE @[s]],
                  !.filled = slots]

\* The server is up; some monsters may have found no room.
CreaturesInit ==
    \E slots \in SUBSET Slots : \E m \in [slots -> Monsters] :
        /\ \A s, t \in slots : m[s] = m[t] => s = t
        /\ w = StartedWith(Nowhere, slots, m)

\* Spawn::cleanup.
SpawnCleanup(v) ==
    Swept([v EXCEPT !.spawned = [s \in Slots |-> {m \in @[s] : Placed(v, m)}],
                    !.refs = [c \in Creatures |->
                        @[c] - Cardinality({s \in Slots : c \in v.spawned[s] /\ ~Placed(v, c)})]])

\* What is in the spawnedMap.
SpawnedMap(v) == {g \in Slots \X Monsters : g[2] \in v.spawned[g[1]]}

Mut_Rescheduled(v) ==
    [v EXCEPT !.checkSpawnEvent =
        Cardinality(SpawnedMap(v)) + 1 < Cardinality(Slots)]

\* The end of checkSpawn: again as long as some monster is missing.
Rescheduled(v) ==
    [v EXCEPT !.checkSpawnEvent = Cardinality(SpawnedMap(v)) < Cardinality(Slots)]

(***************************************************************************)
(* Spawn::checkSpawn.  At most one monster appears (RATE_SPAWN is 1); none *)
(* does before its interval is over, while its kind does not appear at     *)
(* that time of the day, or when there is no room.  A kind of monster that *)
(* is blockable appears when no player sees its place, one that is not is  *)
(* announced and appears 4.2 seconds later; every spawntime of the map is  *)
(* longer, so that this is over when the next check runs.                  *)
(***************************************************************************)
CheckSpawn ==
    /\ w.checkSpawnEvent /\ w.scheduled = {}
    /\ LET v == SpawnCleanup([w EXCEPT !.checkSpawnEvent = FALSE])
           missing == {s \in Slots : v.spawned[s] = {}}
           watched == Players \cap Spectators(v, Home) # {}
       IN  \/ w' = Rescheduled(v)
           \/ \E s \in missing, m \in Free(v) :
                 ~watched /\ w' = Rescheduled(SpawnMonster(v, s, m))
           \/ \E s \in missing :
                 w' = Rescheduled([v EXCEPT !.scheduled = @ \cup {s}])

\* The last step of scheduleSpawn; the monster may find no room.
ScheduleSpawn(s) ==
    /\ s \in w.scheduled
    /\ LET v == [w EXCEPT !.scheduled = @ \ {s}]
       IN  w' = v \/ \E m \in Free(v) : w' = SpawnMonster(v, s, m)

-----------------------------------------------------------------------------
\* Players, scripts and fights.

Login(p, place) ==
    /\ w.status[p] = "free"
    /\ w' = PlaceCreature(w, p, place)

Logout(p) ==
    /\ Placed(w, p)
    /\ w' = RemoveCreature(w, p, {})

\* Summons that are out of sight may be as far away as to be removed.
Move(c, place, far, before) ==
    /\ Placed(w, c) /\ place # w.at[c]
    /\ far \subseteq {s \in w.summons[c] : Placed(w, s) /\ ~InView(w.at[s], place)}
    /\ w' = MoveCreature(w, c, place, far, before)

\* Game::playerSetAttackedCreature, or its end; whether the player chases is its own choice.
PlayerSetAttackedCreature(p, c, chase) ==
    /\ Placed(w, p) /\ p # c /\ (c # Nobody => Placed(w, c)) /\ (chase => c # Nobody)
    /\ LET u == SetAttackedCreature(w, p, c)
       IN  w' = IF u.attacked[p] # c THEN u
                ELSE SetFollowCreature(u, p, IF chase THEN c ELSE Nobody)

\* Game::playerFollowCreature.
PlayerFollowCreature(p, c) ==
    /\ Placed(w, p) /\ Placed(w, c) /\ p # c
    /\ w' = SetFollowCreature(SetAttackedCreature(w, p, Nobody), p, c)

\* The spells and scripts that make a monster the summon of a player (Creature:addSummon).
AddSummon(p, m) ==
    /\ Placed(w, p) /\ Placed(w, m) /\ w.alive[m] /\ w.master[m] # p
    /\ InView(w.at[p], w.at[m])
    /\ w' = SetMaster(SetFollowCreature(SetAttackedCreature(w, m, Nobody), m, Nobody), m, p)

\* changeHealth down to 0, by whatever hits the creature; a monster is awake then.
ChangeHealth(v, c) == [(IF c \in Monsters THEN SetIdle(v, c, FALSE) ELSE v) EXCEPT !.alive[c] = FALSE]

LoseHealth(c) ==
    /\ Placed(w, c) /\ w.alive[c]
    /\ Cardinality({x \in Creatures : Placed(w, x) /\ ~w.alive[x]}) < MaxDying
    /\ w' = ChangeHealth(w, c)

-----------------------------------------------------------------------------
\* Game::checkCreatures.

\* Creature::removeMaster, of all summons of m.
Released(v, m) ==
    Swept([v EXCEPT !.summons[m] = {},
                    !.master = [c \in Creatures |-> IF c \in v.summons[m] THEN Nobody ELSE @[c]],
                    !.refs = [c \in Creatures |->
                        @[c] - Count(c \in v.summons[m] /\ v.master[c] # Nobody)]])

\* Monster::death: the summons die too.
Death(v, m) ==
    LET u == SetAttackedCreature(v, m, Nobody)
    IN  ClearLists(Released(InTurn(ChangeHealth, u, u.summons[m]), m), m)

\* Creature::onDeath.  A player that is killed in an arena is healed and sent to its temple.
OnDeath(v, c) ==
    IF c \in Monsters
    THEN {RemoveCreature(SetMaster(Death(v, c), c, Nobody), c, {})}
    ELSE {RemoveCreature(v, c, {})}
         \cup {MoveCreature([v EXCEPT !.alive[c] = TRUE], c, temple, {}, {}) : temple \in Places}

\* Monster::onThink of a summon: attack with the master, or follow it.
SummonThinks(v, m) ==
    LET prey == v.attacked[v.master[m]]
    IN  IF v.attacked[m] # Nobody
        THEN SetFollowCreature(v, m, IF v.attacked[m] = m THEN Nobody ELSE v.attacked[m])
        ELSE IF prey # Nobody THEN SelectTarget(v, m, prey) ELSE SetFollowCreature(v, m, v.master[m])

\* searchTarget and onThinkTarget of a monster that is not a summon.
Searched(v, m) == {v} \cup {SelectTarget(v, m, c) : c \in v.targets[m]}

\* onThinkDefense: a monster that has a path to what it follows may summon.
Defended(v, m) ==
    {v} \cup {SetMaster(PlaceCreature(v, s, v.at[m]), s, m) :
                s \in {f \in Free(v) : /\ v.follow[m] # Nobody /\ ~IsSummon(v, m)
                                       /\ Cardinality(v.summons[m]) < MaxSummons}}
Thoughts(v, m) ==
    IF v.idle[m] THEN {v}
    ELSE IF IsSummon(v, m) THEN {SummonThinks(v, m)}
    ELSE UNION {Defended(u, m) : u \in Searched(v, m)}

\* The monster is put to sleep after it has looked around at home.
SentHome(v, m) ==
    [SetIdle(MoveCreature(v, m, Home, {}, {}), m, TRUE) EXCEPT
        !.forgotten = @ \cup ({m} \X (Players \cap Spectators(v, Home)))]

(***************************************************************************)
(* Monster::onThink: its kind does not live at this time of the day, it is *)
(* too far from its spawn and sent back, or it thinks.  Creature::onThink, *)
(* which is called first, lets go of what the creature cannot see, and     *)
(* there is no such thing (PointersAreLive).                               *)
(***************************************************************************)
OnThink(v, m) ==
    {RemoveCreature(v, m, before) :
        before \in IF IsSummon(v, m) THEN SUBSET (Monsters \ {m}) ELSE {{}}}
    \cup {SentHome(v, m) : s \in {s \in Slots : m \in v.spawned[s] /\ v.at[m] # Home}}
    \cup Thoughts(UpdateIdleStatus(v, m), m)

(***************************************************************************)
(* The turn of a creature in checkCreatures, with the cleanup at the end.  *)
(* The creatures are spread over EVENT_CREATURECOUNT lists at random; here *)
(* each is alone in its list.                                              *)
(***************************************************************************)
CheckCreature(c) ==
    /\ w.inVector[c]
    /\ \E v \in IF ~w.checked[c] THEN {ReleaseCreature([w EXCEPT !.inVector[c] = FALSE], c)}
               ELSE IF ~w.alive[c] THEN OnDeath(w, c)
               ELSE IF c \in Monsters THEN OnThink(w, c) ELSE {w} : w' = Cleanup(v)

CreaturesNext ==
    \/ CheckSpawn
    \/ \E s \in Slots : ScheduleSpawn(s)
    \/ \E p \in Players, place \in Places : Login(p, place)
    \/ \E p \in Players : Logout(p)
    \/ \E c \in Creatures, place \in Places, far \in SUBSET Monsters :
          \E before \in IF far = {} THEN {{}} ELSE SUBSET Monsters : Move(c, place, far, before)
    \/ \E p \in Players, c \in Creatures \cup {Nobody}, chase \in BOOLEAN :
          PlayerSetAttackedCreature(p, c, chase)
    \/ \E p \in Players, c \in Creatures : PlayerFollowCreature(p, c)
    \/ \E p \in Players, m \in Monsters : AddSummon(p, m)
    \/ \E c \in Creatures : LoseHealth(c)
    \/ \E c \in Creatures : CheckCreature(c)

CreaturesSpec == CreaturesInit /\ [][CreaturesNext]_w

-----------------------------------------------------------------------------

\* Who will decrement the counter of c: the game while it is in the world, the release list,
\* the check list, the spawn, the master, and every monster that has it in a list.
References(v, c) ==
    Count(Placed(v, c)) + v.toRelease[c] + Count(v.inVector[c])
    + Cardinality({s \in Slots : c \in v.spawned[s]})
    + Count(v.master[c] # Nobody)
    + Cardinality({m \in Creatures : c \in v.targets[m]})
    + Cardinality({m \in Creatures : c \in v.friends[m]})

\* The counter of a creature is the number of those who will decrement it, however these
\* change while creatures are summoned, convinced, killed and removed in the middle of each
\* other's handlers.  Nothing is deleted twice, and nobody that could decrement the counter
\* of a deleted creature is left.
ReferencesExact ==
    \A c \in Creatures : /\ w.refs[c] = References(w, c)
                         /\ w.status[c] = "free" <=> w.refs[c] = 0

\* The pointers that are not counted are safe: what a creature in the world attacks or
\* follows is in the world and in its view, the master of a summon in the world is in the
\* world, and master and summons agree.  The master of a master is a player.
PointersAreLive ==
    /\ \A x \in Creatures : Placed(w, x) =>
          /\ \A c \in {w.attacked[x], w.follow[x]} \ {Nobody} : Placed(w, c) /\ InView(w.at[x], w.at[c])
          /\ w.master[x] # Nobody => Placed(w, w.master[x])
    /\ \A x, m \in Creatures : w.master[x] = m <=> x \in w.summons[m]
    /\ \A x \in Creatures : w.master[x] \in Monsters => w.master[w.master[x]] \notin Monsters

\* Nobody walks past a sleeping monster: a monster in the world that sees a player is in
\* the list of creatures to check.  The exception is the monster that was sent home: it was
\* put to sleep after looking around there, and forgot whom it saw.
AwakeInSight ==
    \A m \in Monsters, p \in Players :
        /\ Placed(w, m) /\ w.alive[m] /\ Placed(w, p) /\ w.alive[p] /\ InView(w.at[m], w.at[p])
        /\ <<m, p>> \notin w.forgotten
        => w.checked[m] /\ w.inVector[m]

\* A slot of the spawn that had a monster and has none is looked after: a check is scheduled
\* or the monster is on its way, whoever removed the old one.
SpawnLooksAfter ==
    \A s \in w.filled : (\A m \in w.spawned[s] : ~Placed(w, m)) => w.checkSpawnEvent \/ s \in w.scheduled

\* What has no health left will be buried: it is in the list of creatures to check until it
\* is taken out of the world, and no change of its targets, of its master or of its place makes
\* the game stop checking it before.
DyingIsChecked ==
    \A c \in Creatures : Placed(w, c) /\ ~w.alive[c] => w.checked[c] /\ w.inVector[c]
=============================================================================
