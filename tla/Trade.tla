------------------------------- MODULE Trade --------------------------------
(***************************************************************************)
(* Trading between players (src/game.cpp, the Trade handlers): each of two *)
(* players offers an item, possibly a container with its contents and      *)
(* possibly one that lies on the ground, each accepts, and the items       *)
(* change hands.  Nothing is locked meanwhile: any player may move any     *)
(* item in reach, and it is the notifications about moved items            *)
(* (Player::checkTradeState and its callers in src/player.cpp) that must   *)
(* close every trade they disturb.                                         *)
(*                                                                         *)
(* Handlers run one at a time on the dispatcher thread, so TRADE_TRANSFER, *)
(* which protects the exchange from its own notifications, is never seen   *)
(* between two of them.                                                    *)
(***************************************************************************)
CONSTANTS Players,
          Items,
          Bags,          \* the items that are containers
          NoPlayer,      \* nullptr
          NoItem,        \* nullptr
          Ground         \* the tiles that the players stand around

ASSUME TradeAssumption ==
    /\ Bags \subseteq Items
    /\ Players \cap Items = {}
    /\ NoPlayer \notin Players /\ NoItem \notin Items \cup Players \cup {Ground}
    /\ Ground \notin Players \cup Items

VARIABLES online,
          place,         \* the parent of each item: an inventory, a container or a tile
          tradeState,    \* Player::tradeState
          tradePartner,  \* Player::tradePartner
          tradeItem,     \* Player::tradeItem
          tradeItems,    \* Game::tradeItems: the player that offers the item
          shown          \* what was in the offered container when it was offered

vars == <<online, place, tradeState, tradePartner, tradeItem, tradeItems, shown>>

TradeStates == {"NONE", "INITIATED", "ACCEPT", "ACKNOWLEDGE"}

-----------------------------------------------------------------------------

\* The containers an item is in, at any depth: the fewest that hold it and one another.
Around(at, i) ==
    {b \in Bags : \A bs \in SUBSET Bags :
        (\A j \in bs \cup {i} : at[j] \in Bags => at[j] \in bs) => b \in bs}

\* These, and the inventory or tile that the outermost is on.
Ancestors(at, i) == {at[i]} \cup {at[b] : b \in Around(at, i)}

\* Container::isHoldingItem().
IsHoldingItem(at, c, i) == c \in Ancestors(at, i)

Contents(at, c) == {i \in Items : IsHoldingItem(at, c, i)}

InReach(p, x) ==
    \/ x \in {p, Ground}
    \/ x \in Items /\ Ancestors(place, x) \cap {p, Ground} # {}

Init ==
    /\ online = {}
    /\ place \in [Items -> Players \cup {Ground}]
    /\ tradeState = [p \in Players |-> "NONE"]
    /\ tradePartner = [p \in Players |-> NoPlayer]
    /\ tradeItem = [p \in Players |-> NoItem]
    /\ tradeItems = [i \in Items |-> NoPlayer]
    /\ shown = [p \in Players |-> {}]

-----------------------------------------------------------------------------

Mut_NotTraded(i) == tradeItems[i] = NoPlayer

\* playerRequestTrade(): the item is not offered, holds none that is offered
\* and is in none that is offered.
NotTraded(i) ==
    \A j \in Items : tradeItems[j] # NoPlayer =>
        j # i /\ ~IsHoldingItem(place, i, j) /\ ~IsHoldingItem(place, j, i)

\* internalStartTrade(): neither is trading with somebody else, and the player
\* has not offered an item yet.
MayStart(p, q) ==
    /\ tradeState[p] = "NONE" \/ (tradeState[p] = "ACKNOWLEDGE" /\ tradePartner[p] = q)
    /\ tradeState[q] = "NONE" \/ tradePartner[q] = p

Mut_PartnerStarted(q, p) == [tradePartner EXCEPT ![p] = q]

\* internalStartTrade(): the partner of a new trade has it to acknowledge.
PartnerStarted(q, p) ==
    IF tradeState[q] = "NONE" THEN [tradePartner EXCEPT ![p] = q, ![q] = p]
                              ELSE [tradePartner EXCEPT ![p] = q]

\* playerRequestTrade() for an item in reach, with internalStartTrade.
PlayerRequestTrade(p, q, i) ==
    /\ {p, q} \subseteq online /\ p # q
    /\ InReach(p, i)
    /\ NotTraded(i)
    /\ MayStart(p, q)
    /\ tradePartner' = PartnerStarted(q, p)
    /\ tradeItem' = [tradeItem EXCEPT ![p] = i]
    /\ tradeState' = [tradeState EXCEPT ![p] = "INITIATED",
                                        ![q] = IF @ = "NONE" THEN "ACKNOWLEDGE" ELSE @]
    /\ tradeItems' = [tradeItems EXCEPT ![i] = p]
    /\ shown' = [shown EXCEPT ![p] = Contents(place, i)]
    /\ UNCHANGED <<online, place>>

-----------------------------------------------------------------------------

\* internalCloseTrade(): the players whose trade ends when ps close theirs.
Closed(ps) == ps \cup ({tradePartner[p] : p \in ps} \ {NoPlayer})

\* The trades of ps are reset; their items are no longer offered.
Reset(ps) ==
    /\ tradeState' = [p \in Players |-> IF p \in ps THEN "NONE" ELSE tradeState[p]]
    /\ tradePartner' = [p \in Players |-> IF p \in ps THEN NoPlayer ELSE tradePartner[p]]
    /\ tradeItem' = [p \in Players |-> IF p \in ps THEN NoItem ELSE tradeItem[p]]
    /\ tradeItems' = [i \in Items |-> IF \E p \in ps : tradeItem[p] = i
                                      THEN NoPlayer ELSE tradeItems[i]]
    /\ shown' = [p \in Players |-> IF p \in ps THEN {} ELSE shown[p]]

Mut_Disturbed(i, to, at) ==
    {p \in Players : tradeItem[p] # NoItem /\
        LET t == tradeItem[p]
        IN  t = i \/ IsHoldingItem(at, i, t) \/ IsHoldingItem(at, t, i)}

\* The players whose trade is closed when item i is moved to the place to
\* (onRemoveTileItem, onRemoveInventoryItem, onRemoveContainerItem,
\* onAddContainerItem and checkTradeState): theirs is the item, it holds the
\* item, or the item is removed from it or added to it, or the item is removed
\* from a container that holds theirs in another container.
Disturbed(i, to, at) ==
    {p \in Players : tradeItem[p] # NoItem /\
        LET t == tradeItem[p]
        IN  \/ t = i
            \/ IsHoldingItem(at, i, t)
            \/ IsHoldingItem(at, t, i)
            \/ to = t \/ (to \in Items /\ IsHoldingItem(at, t, to))
            \/ at[i] \in Items /\ at[t] # at[i] /\ IsHoldingItem(at, at[i], t)}

\* playerCloseTrade(), or a step out of range of the partner or of the item
\* (Player::onCreatureMove).
PlayerCloseTrade(p) ==
    /\ p \in online
    /\ Reset(Closed({p}))
    /\ UNCHANGED <<online, place>>

\* internalMoveItem() by a player: between places in reach, never into the item itself.
PlayerMoveItem(p, i, to) ==
    /\ p \in online
    /\ InReach(p, i) /\ InReach(p, to)
    /\ to # place[i] /\ to # i
    /\ to \in Items => ~IsHoldingItem(place, i, to)
    /\ place' = [place EXCEPT ![i] = to]
    /\ Reset(Closed(Disturbed(i, to, place)))
    /\ UNCHANGED online

-----------------------------------------------------------------------------

Mut_Transferable(p, q) == tradeItem[p] # NoItem

\* playerAcceptTrade(): there are two items to add and to remove.
Transferable(p, q) == tradeItem[p] # NoItem /\ tradeItem[q] # NoItem

\* Where an inventory takes an item: a slot, or a container outside both offers
\* (Player::queryDestination and the tradeItem argument of internalMoveItem).
Destinations(p, offers) ==
    {p} \cup {b \in Bags : /\ p \in Ancestors(place, b)
                           /\ b \notin offers
                           /\ \A t \in offers : ~IsHoldingItem(place, t, b)}

\* playerAcceptTrade(), the first to accept.
PlayerAcceptTrade(p) ==
    /\ p \in online
    /\ tradeState[p] \in {"ACKNOWLEDGE", "INITIATED"}
    /\ tradePartner[p] # NoPlayer
    /\ tradeState[tradePartner[p]] # "ACCEPT"
    /\ tradeState' = [tradeState EXCEPT ![p] = "ACCEPT"]
    /\ UNCHANGED <<online, place, tradePartner, tradeItem, tradeItems, shown>>

\* playerAcceptTrade(), the second to accept, when the items can be added and
\* removed: the first item is moved, then the other.
Exchange(p) ==
    LET q == tradePartner[p]
        offers == {tradeItem[p], tradeItem[q]}
    IN  /\ p \in online
        /\ tradeState[p] \in {"ACKNOWLEDGE", "INITIATED"}
        /\ q # NoPlayer /\ tradeState[q] = "ACCEPT"
        /\ Transferable(p, q)
        /\ \E toQ \in Destinations(q, offers), toP \in Destinations(p, offers) :
              LET first == [place EXCEPT ![tradeItem[p]] = toQ] IN
              /\ place' = [i \in Items |-> IF i = tradeItem[q] THEN toP ELSE first[i]]
              /\ Reset({p, q} \cup Closed(Disturbed(tradeItem[p], toQ, place)
                                          \cup IF tradeItem[q] = NoItem THEN {}
                                               ELSE Disturbed(tradeItem[q], toP, first)))
        /\ UNCHANGED online

\* playerAcceptTrade(), the second to accept, when an item is missing, does not
\* fit or cannot be removed: the trade is cancelled.
ExchangeFails(p) ==
    /\ p \in online
    /\ tradeState[p] \in {"ACKNOWLEDGE", "INITIATED"}
    /\ tradePartner[p] # NoPlayer /\ tradeState[tradePartner[p]] = "ACCEPT"
    /\ Reset({p, tradePartner[p]})
    /\ UNCHANGED <<online, place>>

Login(p) ==
    /\ p \notin online
    /\ online' = online \cup {p}
    /\ UNCHANGED <<place, tradeState, tradePartner, tradeItem, tradeItems, shown>>

\* Player::onRemoveCreature: closes the trade of a player that has a partner.
ClosedByLogout(p) == IF tradePartner[p] = NoPlayer THEN {} ELSE Closed({p})

Logout(p) ==
    /\ p \in online
    /\ online' = online \ {p}
    /\ Reset(ClosedByLogout(p))
    /\ UNCHANGED place

Next ==
    \E p \in Players :
        \/ Login(p)
        \/ Logout(p)
        \/ \E q \in Players, i \in Items : PlayerRequestTrade(p, q, i)
        \/ PlayerAcceptTrade(p)
        \/ Exchange(p)
        \/ ExchangeFails(p)
        \/ PlayerCloseTrade(p)
        \/ \E i \in Items, to \in Players \cup Bags \cup {Ground} : PlayerMoveItem(p, i, to)

Spec == Init /\ [][Next]_vars

-----------------------------------------------------------------------------

\* Every variable keeps its type, and no item ever is, at any depth, in itself: what
\* internalMoveItem and the exchange do to offered containers never detaches one.
TypeOK ==
    /\ online \subseteq Players
    /\ place \in [Items -> Players \cup Bags \cup {Ground}]
    /\ tradeState \in [Players -> TradeStates]
    /\ tradePartner \in [Players -> Players \cup {NoPlayer}]
    /\ tradeItem \in [Players -> Items \cup {NoItem}]
    /\ tradeItems \in [Items -> Players \cup {NoPlayer}]
    /\ shown \in [Players -> SUBSET Items]
    /\ \A i \in Items : i \notin Ancestors(place, i)

\* A trade has two sides that agree: the partner's partner is the player, both are online,
\* and a player has a partner exactly when its state is not TRADE_NONE.  Game::tradeItems,
\* which keeps offered items alive and guards against a second offer, holds exactly the
\* items that players offer, each under the player that offers it.
PartnersAgree ==
    /\ \A i \in Items, p \in Players : tradeItems[i] = p <=> tradeItem[p] = i
    /\ \A p \in Players :
          /\ tradePartner[p] = NoPlayer <=> tradeState[p] = "NONE"
          /\ tradePartner[p] # NoPlayer =>
                 tradePartner[tradePartner[p]] = p /\ {p, tradePartner[p]} \subseteq online

\* No item is offered twice, on its own or inside an offered container, however items are
\* moved between the offers: one item never goes to two players.
NothingOfferedTwice ==
    \A p, q \in Players : p # q /\ tradeItem[p] # NoItem =>
        /\ tradeItem[p] # tradeItem[q]
        /\ ~IsHoldingItem(place, tradeItem[q], tradeItem[p])

\* The partner gets what it was shown: an offered item stays where its owner can give it
\* away, in its own inventory or on the ground, and the contents of an offered container
\* are those it had when it was offered, at every depth.  Nobody who takes the item, or
\* something out of it, leaves the offer standing.
OfferIsAsShown ==
    \A p \in Players :
        tradeItem[p] # NoItem =>
            InReach(p, tradeItem[p]) /\ Contents(place, tradeItem[p]) = shown[p]

\* Nothing is given for nothing: when an offered item goes from a player's inventory to
\* its partner's, the partner's offered item goes to the player in the same step.
BothOrNeither ==
    [][\A p, q \in Players :
          /\ tradePartner[p] = q /\ tradeItem[p] # NoItem
          /\ p \in Ancestors(place, tradeItem[p])
          /\ q \in Ancestors(place', tradeItem[p])
          =>  tradeItem[q] # NoItem /\ p \in Ancestors(place', tradeItem[q])]_vars
=============================================================================
