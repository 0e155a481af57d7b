------------------------------- MODULE Party --------------------------------
(***************************************************************************)
(* Parties (src/party.cpp), the packet handlers of Game that operate on    *)
(* them and the calls that players make while they fight, idle and log     *)
(* out.  Everything here runs on the dispatcher thread, one handler at a   *)
(* time; what is hard is that the same facts are kept twice, as pointers   *)
(* in the player and as lists in the party, that a party deletes itself    *)
(* from inside other methods, and that its address may be used again.      *)
(*                                                                         *)
(* A handler is a function from states to states, so that handlers call    *)
(* each other as the methods do: a state is a record with the fields of    *)
(* Player and Party that parties use.                                      *)
(***************************************************************************)
EXTENDS Naturals, SequencesExt

CONSTANTS Players,
          Parties,         \* addresses at which a Party can be allocated
          NoPlayer,        \* nullptr
          NoParty,         \* nullptr
          NotGainInFight   \* players with the flag of that name

ASSUME PartyAssumption ==
    NoPlayer \notin Players /\ NoParty \notin Parties /\ NotGainInFight \subseteq Players

VARIABLES online,          \* players that getPlayerByID finds
          game             \* the fields of players and parties, see States

vars == <<online, game>>

-----------------------------------------------------------------------------

\* Player::party and Player::invitePartyList; Party's leader, memberList,
\* inviteList, ticksMap (the players that have an entry), sharedExpActive and
\* sharedExpEnabled.  A party is allocated when it has a leader.
States ==
    [party       : [Players -> Parties \cup {NoParty}],
     invitations : [Players -> SUBSET Parties],
     leader      : [Parties -> Players \cup {NoPlayer}],
     memberList  : [Parties -> Seq(Players)],
     inviteList  : [Parties -> SUBSET Players],
     ticks       : [Parties -> SUBSET Players],
     active      : [Parties -> BOOLEAN],
     enabled     : [Parties -> BOOLEAN]]

Init ==
    /\ online = {}
    /\ game = [party       |-> [p \in Players |-> NoParty],
               invitations |-> [p \in Players |-> {}],
               leader      |-> [P \in Parties |-> NoPlayer],
               memberList  |-> [P \in Parties |-> <<>>],
               inviteList  |-> [P \in Parties |-> {}],
               ticks       |-> [P \in Parties |-> {}],
               active      |-> [P \in Parties |-> FALSE],
               enabled     |-> [P \in Parties |-> FALSE]]

Members(g, P) == ToSet(g.memberList[P])

\* empty(): neither members nor invitees.
Empty(g, P) == g.memberList[P] = <<>> /\ g.inviteList[P] = {}

-----------------------------------------------------------------------------

\* canEnableSharedExperience(): every player of the party can use it.  fit is
\* the part that depends on levels, positions and the age of the ticks.
CanEnableSharedExperience(g, P, fit) ==
    /\ g.memberList[P] # <<>>
    /\ \A p \in Members(g, P) \cup {g.leader[P]} : p \in NotGainInFight \cup g.ticks[P]
    /\ fit

UpdateSharedExperience(g, P, fit) ==
    IF g.active[P]
    THEN [g EXCEPT !.enabled[P] = CanEnableSharedExperience(g, P, fit)]
    ELSE g

ClearPlayerPoints(g, P, p, fit) ==
    IF p \in g.ticks[P]
    THEN UpdateSharedExperience([g EXCEPT !.ticks[P] = @ \ {p}], P, fit)
    ELSE g

\* setSharedExperience(), called by the leader.
SetSharedExperience(g, P, newActive, fit) ==
    IF newActive = g.active[P]
    THEN g
    ELSE [g EXCEPT !.active[P] = newActive,
                   !.enabled[P] = IF newActive THEN CanEnableSharedExperience(g, P, fit) ELSE @]

-----------------------------------------------------------------------------

Cleared(f, Ps, none) == [P \in Parties |-> IF P \in Ps THEN none ELSE f[P]]

\* disband(), of the parties Ps one after the other: the leader, the invitees and
\* the members forget the party, then it is deleted.  onDisband of
\* data/events/scripts/party.lua returns true.
Disband(g, Ps) ==
    LET outside == UNION {Members(g, P) \cup {g.leader[P]} : P \in Ps}
    IN  [g EXCEPT !.party       = [p \in Players |-> IF p \in outside THEN NoParty ELSE @[p]],
                  !.invitations = [p \in Players |->
                                      @[p] \ {P \in Ps : p \in g.inviteList[P]}],
                  !.leader      = Cleared(@, Ps, NoPlayer),
                  !.memberList  = Cleared(@, Ps, <<>>),
                  !.inviteList  = Cleared(@, Ps, {}),
                  !.ticks       = Cleared(@, Ps, {}),
                  !.active      = Cleared(@, Ps, FALSE),
                  !.enabled     = Cleared(@, Ps, FALSE)]

\* passPartyLeadership(): the old leader goes to the front of the members.
PassPartyLeadership(g, P, p, fit) ==
    IF g.leader[P] = p \/ g.party[p] # P
    THEN g
    ELSE UpdateSharedExperience(
             [g EXCEPT !.memberList[P] = <<g.leader[P]>> \o RemoveFirst(@, p),
                       !.leader[P] = p], P, fit)

\* leaveParty(): a leader leaves nobody, or one member and no invitee, behind.
MissingLeader(g, P, p) ==
    /\ g.leader[P] = p
    /\ Len(g.memberList[P]) = 0 \/ (Len(g.memberList[P]) = 1 /\ g.inviteList[P] = {})

\* leaveParty(): the leadership is passed first, if there is somebody to take
\* it; the party is disbanded last, if nobody is left.
LeaveParty(g, P, p, fit) ==
    LET missing == MissingLeader(g, P, p)
        passed  == IF g.leader[P] = p /\ ~missing
                   THEN PassPartyLeadership(g, P, Head(g.memberList[P]), fit)
                   ELSE g
        left    == [passed EXCEPT !.memberList[P] = RemoveFirst(@, p), !.party[p] = NoParty]
        shared  == UpdateSharedExperience(left, P, fit)
        cleared == ClearPlayerPoints(shared, P, p, fit)
    IN  IF missing \/ Empty(cleared, P) THEN Disband(cleared, {P}) ELSE cleared

Mut_JoinParty(g, P, p, fit) ==
    [g EXCEPT !.inviteList[P] = @ \ {p}, !.party[p] = P, !.memberList[P] = Append(@, p),
              !.invitations[p] = @ \ {P}]

\* joinParty(): onJoin returns true; the caller knows that p is invited.
JoinParty(g, P, p, fit) ==
    UpdateSharedExperience(
        [g EXCEPT !.inviteList[P] = @ \ {p}, !.party[p] = P, !.memberList[P] = Append(@, p),
                  !.invitations[p] = @ \ {P}], P, fit)

\* removeInvite() of the parties Ps, and the parties it leaves empty.
InviteRemoved(g, Ps, p, removeFromPlayer) ==
    [g EXCEPT !.inviteList = [P \in Parties |-> IF P \in Ps THEN @[P] \ {p} ELSE @[P]],
              !.invitations[p] = IF removeFromPlayer THEN @ \ Ps ELSE @]

RemoveInvite(g, Ps, p, removeFromPlayer) ==
    LET inviting == {P \in Ps : p \in g.inviteList[P]}
        removed  == InviteRemoved(g, inviting, p, removeFromPlayer)
    IN  Disband(removed, {P \in inviting : Empty(removed, P)})

\* invitePlayer(): also enters the party into the player's invitations.
InvitePlayer(g, P, p) ==
    [g EXCEPT !.inviteList[P] = @ \cup {p}, !.invitations[p] = @ \cup {P}]

\* The constructor: the creator is the leader.
NewParty(g, P, p) == [g EXCEPT !.leader[P] = p, !.party[p] = P]

\* Player::clearPartyInvitations(): every inviting party removes the invitation.
ClearPartyInvitations(g, p) ==
    [RemoveInvite(g, g.invitations[p], p, FALSE) EXCEPT !.invitations[p] = {}]

IsInviting(g, p, q) ==
    \E P \in Parties : g.party[p] = P /\ g.leader[P] = p /\ q \in g.inviteList[P]

IsLeader(g, P, p) == g.party[p] = P /\ g.leader[P] = p

-----------------------------------------------------------------------------

\* A player logs in: it belongs to no party.
Login(p) ==
    /\ p \notin online
    /\ online' = online \cup {p}
    /\ UNCHANGED game

\* playerInviteToParty(): nobody who invites the player, nobody in a party.
InvitedIsFree(p, q) == ~IsInviting(game, q, p) /\ game.party[q] = NoParty

\* playerInviteToParty(): creates the party of a player who has none.  A party
\* cannot be allocated where another one is (the bound on simultaneous parties).
PlayerInviteToParty(p, q) ==
    /\ {p, q} \subseteq online /\ p # q
    /\ InvitedIsFree(p, q)
    /\ \E P \in Parties :
          \/ /\ game.party[p] = NoParty /\ game.leader[P] = NoPlayer
             /\ game' = InvitePlayer(NewParty(game, P, p), P, q)
          \/ /\ IsLeader(game, P, p) /\ q \notin game.inviteList[P]
             /\ game' = InvitePlayer(game, P, q)
    /\ UNCHANGED online

Mut_MayJoin(p, q) == IsInviting(game, q, p)

\* playerJoinParty(): invited by the leader, and in no party.
MayJoin(p, q) == IsInviting(game, q, p) /\ game.party[p] = NoParty

PlayerJoinParty(p, q, fit) ==
    /\ {p, q} \subseteq online
    /\ MayJoin(p, q)
    /\ game' = JoinParty(game, game.party[q], p, fit)
    /\ UNCHANGED online

\* playerRevokePartyInvitation(), with Party::revokeInvitation.
PlayerRevokePartyInvitation(p, q) ==
    /\ {p, q} \subseteq online
    /\ IsInviting(game, p, q)
    /\ game' = RemoveInvite(game, {game.party[p]}, q, TRUE)
    /\ UNCHANGED online

\* playerPassPartyLeadership(): to a partner.
PlayerPassPartyLeadership(p, q, fit) ==
    /\ {p, q} \subseteq online /\ p # q
    /\ \E P \in Parties : IsLeader(game, P, p) /\ game.party[q] = P
    /\ game' = PassPartyLeadership(game, game.party[p], q, fit)
    /\ UNCHANGED online

\* playerLeaveParty(): not while fighting, which no other field depends on.
PlayerLeaveParty(p, fit) ==
    /\ p \in online /\ game.party[p] # NoParty
    /\ game' = LeaveParty(game, game.party[p], p, fit)
    /\ UNCHANGED online

PlayerEnableSharedPartyExperience(p, newActive, fit) ==
    /\ p \in online
    /\ \E P \in Parties :
          /\ IsLeader(game, P, p)
          /\ game' = SetSharedExperience(game, P, newActive, fit)
    /\ UNCHANGED online

Mut_OnRemoveCreature(g, p, fit) ==
    IF g.party[p] # NoParty THEN LeaveParty(g, g.party[p], p, fit) ELSE g

\* Player::onRemoveCreature: the invitations are cleared, then the party is left.
OnRemoveCreature(g, p, fit) ==
    LET cleared == ClearPartyInvitations(g, p)
    IN  IF cleared.party[p] # NoParty
        THEN LeaveParty(cleared, cleared.party[p], p, fit)
        ELSE cleared

\* A player is removed from the game: it logs out, dies or is kicked.
Logout(p, fit) ==
    /\ p \in online
    /\ online' = online \ {p}
    /\ game' = OnRemoveCreature(game, p, fit)

-----------------------------------------------------------------------------

\* updatePlayerTicks(), with points # 0.
UpdatePlayerTicks(g, P, p, fit) ==
    IF p \in NotGainInFight
    THEN g
    ELSE UpdateSharedExperience([g EXCEPT !.ticks[P] = @ \cup {p}], P, fit)

\* Player::onAttackedCreatureDrainHealth: a hostile monster was hurt.
OnAttackedCreatureDrainHealth(p, fit) ==
    /\ p \in online /\ game.party[p] # NoParty
    /\ game' = UpdatePlayerTicks(game, game.party[p], p, fit)
    /\ UNCHANGED online

IsPartner(p, q) == p # q /\ game.party[p] # NoParty /\ game.party[p] = game.party[q]

\* Player::onTargetCreatureGainHealth: p healed q, or a summon of q.  For the
\* player itself the pointer that isPartner is asked about is still null.
OnTargetCreatureGainHealth(p, q, summon, fit) ==
    /\ {p, q} \subseteq online
    /\ IsPartner(p, q)
    /\ game' = IF summon THEN UpdatePlayerTicks(game, game.party[p], p, fit) ELSE game
    /\ UNCHANGED online

\* Player::onIdleStatus.
OnIdleStatus(p, fit) ==
    /\ p \in online /\ game.party[p] # NoParty
    /\ game' = ClearPlayerPoints(game, game.party[p], p, fit)
    /\ UNCHANGED online

\* Player::onCreatureMove and the level changes of addExperience and
\* removeExperience recompute, with other positions or levels than before.
OnMoveOrLevel(p, fit) ==
    /\ p \in online /\ game.party[p] # NoParty
    /\ game' = UpdateSharedExperience(game, game.party[p], fit)
    /\ UNCHANGED online

Next ==
    \/ \E p \in Players :
          \/ Login(p)
          \/ \E fit \in BOOLEAN :
                \/ Logout(p, fit)
                \/ PlayerLeaveParty(p, fit)
                \/ \E newActive \in BOOLEAN : PlayerEnableSharedPartyExperience(p, newActive, fit)
                \/ OnAttackedCreatureDrainHealth(p, fit)
                \/ OnIdleStatus(p, fit)
                \/ OnMoveOrLevel(p, fit)
    \/ \E p, q \in Players :
          \/ PlayerInviteToParty(p, q)
          \/ PlayerRevokePartyInvitation(p, q)
          \/ \E fit \in BOOLEAN :
                \/ PlayerJoinParty(p, q, fit)
                \/ PlayerPassPartyLeadership(p, q, fit)
                \/ \E summon \in BOOLEAN : OnTargetCreatureGainHealth(p, q, summon, fit)

Spec == Init /\ [][Next]_vars

-----------------------------------------------------------------------------

Allocated == {P \in Parties : game.leader[P] # NoPlayer}

\* Every field keeps its type, memberList without repetition and without the leader:
\* PassPartyLeadership, which moves two players between them, must not duplicate one.
TypeOK ==
    /\ online \subseteq Players
    /\ game \in States
    /\ \A P \in Parties : /\ IsInjective(game.memberList[P])
                          /\ game.leader[P] \notin Members(game, P)

\* Player::party and the party's own lists say the same: a player's pointer is a party
\* exactly when the player is that party's leader or one of its members, so that no
\* pointer outlives the party (Party::disband deletes it) and nobody is in two parties; they
\* are in the game, since Player::onRemoveCreature leaves the party before the object is
\* released; and the handler that empties a party disbands it, so none is leaked.
MembershipAgrees ==
    /\ \A p \in Players, P \in Parties :
          game.party[p] = P <=> p = game.leader[P] \/ p \in Members(game, P)
    /\ \A P \in Allocated :
          /\ Members(game, P) \cup {game.leader[P]} \subseteq online
          /\ ~Empty(game, P)

\* The two invitation lists say the same, so that removeInvite and disband, which walk
\* one of them, leave no stale entry in the other: an address reused by a new party would
\* inherit the invitation.  Nobody is an invitee of its own party, and nobody who left the game
\* is one: Player::onRemoveCreature clears its invitations before the object is released.
InvitationsAgree ==
    \A p \in Players, P \in Parties :
        /\ P \in game.invitations[p] <=> p \in game.inviteList[P]
        /\ p \in game.inviteList[P] => game.party[p] # P /\ p \in online

\* Nobody joins a shared-experience party for free: while sharing is active and enabled,
\* the party has members, and each of its players has fought since it joined or was idle.
SharingNeedsEverybody ==
    \A P \in Parties :
        game.active[P] /\ game.enabled[P] =>
            CanEnableSharedExperience(game, P, TRUE)
=============================================================================
