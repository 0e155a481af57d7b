---------------------------- MODULE TradeProofs -----------------------------
(***************************************************************************)
(* For every number of players and items: the two sides of a trade agree,  *)
(* nothing is offered twice, an offer is what was shown while it stands,   *)
(* and nothing is given for nothing.  The first half is about the trade    *)
(* handlers alone; the second also about where items are, and starts with  *)
(* what moving an item does to the containers around others.               *)
(***************************************************************************)
EXTENDS Trade, TLAPS

-----------------------------------------------------------------------------
(* The invariant *)

\* The types of what the trade handlers write.
Typed ==
    /\ tradeState \in [Players -> TradeStates]
    /\ tradePartner \in [Players -> Players \cup {NoPlayer}]
    /\ tradeItem \in [Players -> Items \cup {NoItem}]
    /\ tradeItems \in [Items -> Players \cup {NoPlayer}]

\* Only a player that has made an offer has an item in it.
OfferedAfterRequest ==
    \A p \in Players : tradeState[p] \in {"NONE", "ACKNOWLEDGE"} => tradeItem[p] = NoItem

\* The inductive invariant.
Inv == Typed /\ OfferedAfterRequest /\ PartnersAgree

-----------------------------------------------------------------------------
(* Resetting trades *)

\* Resetting the trades of players together with those of their partners leaves the other trades
\* whole.
LEMMA ResetKeeps ==
    ASSUME Inv, NEW ps \in SUBSET Players, Reset(ps),
           \A p \in ps : tradePartner[p] # NoPlayer => tradePartner[p] \in ps,
           \A p \in online \ online' : p \in ps \/ tradePartner[p] = NoPlayer
    PROVE  Inv'
<1> USE TradeAssumption
<1>1. Typed'
  BY DEF Inv, Typed, Reset, TradeStates
<1>2. OfferedAfterRequest'
  BY DEF Inv, Typed, Reset, OfferedAfterRequest
<1>3. ASSUME NEW i \in Items, NEW p \in Players
      PROVE  tradeItems'[i] = p <=> tradeItem'[p] = i
  <2>1. tradeItems[i] = p <=> tradeItem[p] = i
    BY DEF Inv, PartnersAgree
  <2>2. \A q \in ps : tradeItem[q] = i => tradeItems[i] = q
    BY DEF Inv, PartnersAgree
  <2> QED
    BY <2>1, <2>2 DEF Inv, Typed, Reset
<1>4. ASSUME NEW p \in Players
      PROVE  /\ tradePartner'[p] = NoPlayer <=> tradeState'[p] = "NONE"
             /\ tradePartner'[p] # NoPlayer =>
                    /\ tradePartner'[tradePartner'[p]] = p
                    /\ {p, tradePartner'[p]} \subseteq online'
  <2>1. CASE p \in ps
    BY <2>1 DEF Reset
  <2>2. CASE p \notin ps
    <3>1. tradePartner'[p] = tradePartner[p] /\ tradeState'[p] = tradeState[p]
      BY <2>2 DEF Reset
    <3>2. ASSUME tradePartner[p] # NoPlayer
          PROVE  /\ tradePartner[p] \in Players \ ps
                 /\ tradePartner[tradePartner[p]] = p
                 /\ {p, tradePartner[p]} \subseteq online'
      BY <2>2, <3>2 DEF Inv, Typed, PartnersAgree
    <3>3. ASSUME tradePartner[p] # NoPlayer
          PROVE  tradePartner'[tradePartner[p]] = p
      BY <3>2, <3>3 DEF Reset
    <3> QED
      BY <3>1, <3>2, <3>3 DEF Inv, PartnersAgree
  <2> QED
    BY <2>1, <2>2
<1> QED
  BY <1>1, <1>2, <1>3, <1>4 DEF Inv, PartnersAgree

\* The players whose trade ends are closed under having a trade together.
LEMMA ClosedHasPartners ==
    ASSUME Inv, NEW ps \in SUBSET Players
    PROVE  /\ Closed(ps) \in SUBSET Players
           /\ ps \subseteq Closed(ps)
           /\ \A p \in Closed(ps) : tradePartner[p] # NoPlayer => tradePartner[p] \in Closed(ps)
  BY DEF Closed, Inv, Typed, PartnersAgree

-----------------------------------------------------------------------------
(* The steps *)

\* playerRequestTrade
LEMMA StepRequest ==
    ASSUME Inv, NEW p \in Players, NEW q \in Players, NEW i \in Items, PlayerRequestTrade(p, q, i)
    PROVE  Inv'
<1> USE TradeAssumption
<1>1. /\ p # q /\ p \in online /\ q \in online /\ online' = online
      /\ tradePartner' = PartnerStarted(q, p)
      /\ tradeItem' = [tradeItem EXCEPT ![p] = i]
      /\ tradeState' = [tradeState EXCEPT ![p] = "INITIATED",
                                          ![q] = IF @ = "NONE" THEN "ACKNOWLEDGE" ELSE @]
      /\ tradeItems' = [tradeItems EXCEPT ![i] = p]
  BY DEF PlayerRequestTrade
<1>2. tradeItems[i] = NoPlayer
  <2>1. \A j \in Items : tradeItems[j] # NoPlayer => j # i
    BY DEF PlayerRequestTrade, NotTraded
  <2> QED
    BY <2>1
<1>3. /\ tradeState[p] = "NONE" \/ (tradeState[p] = "ACKNOWLEDGE" /\ tradePartner[p] = q)
      /\ tradeState[q] = "NONE" \/ tradePartner[q] = p
  BY DEF PlayerRequestTrade, MayStart
<1>4. tradeItem[p] = NoItem
  BY <1>3 DEF Inv, OfferedAfterRequest
\* Either both are free or they have started this trade already.
<1>5. \/ tradeState[p] = "NONE" /\ tradeState[q] = "NONE"
      \/ /\ tradePartner[p] = q /\ tradePartner[q] = p
         /\ tradeState[p] = "ACKNOWLEDGE" /\ tradeState[q] # "NONE"
  BY <1>3 DEF Inv, Typed, PartnersAgree
<1>6. tradePartner' = [tradePartner EXCEPT ![p] = q, ![q] = p]
  BY <1>1, <1>5 DEF PartnerStarted, Inv, Typed
<1>7. Typed'
  BY <1>1, <1>6 DEF Inv, Typed, TradeStates
<1>8. OfferedAfterRequest'
  BY <1>1 DEF Inv, Typed, OfferedAfterRequest
<1>9. \A j \in Items, r \in Players : tradeItems'[j] = r <=> tradeItem'[r] = j
  <2> SUFFICES ASSUME NEW j \in Items, NEW r \in Players
               PROVE  tradeItems'[j] = r <=> tradeItem'[r] = j
    OBVIOUS
  <2>1. tradeItems[j] = r <=> tradeItem[r] = j
    BY DEF Inv, PartnersAgree
  <2> QED
    BY <1>1, <1>2, <1>4, <2>1 DEF Inv, Typed
<1>10. ASSUME NEW r \in Players
       PROVE  /\ tradePartner'[r] = NoPlayer <=> tradeState'[r] = "NONE"
              /\ tradePartner'[r] # NoPlayer =>
                     /\ tradePartner'[tradePartner'[r]] = r
                     /\ {r, tradePartner'[r]} \subseteq online'
  <2>1. CASE r \in {p, q}
    BY <1>1, <1>6, <2>1 DEF Inv, Typed
  <2>2. CASE r \notin {p, q}
    <3>1. tradePartner'[r] = tradePartner[r] /\ tradeState'[r] = tradeState[r]
      BY <1>1, <1>6, <2>2 DEF Inv, Typed
    <3>2. tradePartner[r] \notin {p, q}
      BY <1>5, <2>2 DEF Inv, Typed, PartnersAgree
    <3> QED
      BY <1>1, <1>6, <3>1, <3>2 DEF Inv, Typed, PartnersAgree
  <2> QED
    BY <2>1, <2>2
<1> QED
  BY <1>7, <1>8, <1>9, <1>10 DEF Inv, PartnersAgree

\* playerAcceptTrade, the first to accept
LEMMA StepAccept ==
    ASSUME Inv, NEW p \in Players, PlayerAcceptTrade(p)
    PROVE  Inv'
  BY DEF Inv, Typed, OfferedAfterRequest, PartnersAgree, PlayerAcceptTrade, TradeStates

\* playerAcceptTrade, the second to accept
LEMMA StepExchange ==
    ASSUME Inv, NEW p \in Players, Exchange(p)
    PROVE  Inv'
<1>1. PICK ds \in SUBSET Players : Reset({p, tradePartner[p]} \cup Closed(ds))
  <2>1. \A i, to, at : Disturbed(i, to, at) \in SUBSET Players
    BY DEF Disturbed
  <2> QED
    BY <2>1 DEF Exchange
<1>2. tradePartner[p] \in Players /\ tradePartner[tradePartner[p]] = p /\ online' = online
  BY DEF Exchange, Inv, Typed, PartnersAgree
<1> QED
  BY <1>1, <1>2, ClosedHasPartners, ResetKeeps

\* playerAcceptTrade, when the exchange is impossible
LEMMA StepExchangeFails ==
    ASSUME Inv, NEW p \in Players, ExchangeFails(p)
    PROVE  Inv'
<1>1. tradePartner[p] \in Players /\ tradePartner[tradePartner[p]] = p /\ online' = online
  BY DEF ExchangeFails, Inv, Typed, PartnersAgree
<1> QED
  BY <1>1, ResetKeeps DEF ExchangeFails

\* playerCloseTrade and moved items
LEMMA StepClose ==
    ASSUME Inv, NEW p \in Players,
           PlayerCloseTrade(p) \/ \E i \in Items, to \in Players \cup Bags \cup {Ground} :
                                     PlayerMoveItem(p, i, to)
    PROVE  Inv'
<1>1. PICK ds \in SUBSET Players : Reset(Closed(ds)) /\ online' = online
  <2>1. \A i, to, at : Disturbed(i, to, at) \in SUBSET Players
    BY DEF Disturbed
  <2> QED
    BY <2>1 DEF PlayerCloseTrade, PlayerMoveItem
<1> QED
  BY <1>1, ClosedHasPartners, ResetKeeps

\* Coming and going
LEMMA StepOnline ==
    ASSUME Inv, NEW p \in Players, Login(p) \/ Logout(p)
    PROVE  Inv'
<1>1. CASE Login(p)
  BY <1>1 DEF Login, Inv, Typed, OfferedAfterRequest, PartnersAgree
<1>2. CASE Logout(p) /\ tradePartner[p] # NoPlayer
  <2>1. Reset(Closed({p})) /\ online' = online \ {p}
    BY <1>2 DEF Logout, ClosedByLogout
  <2>2. p \in Closed({p})
    BY DEF Closed
  <2> QED
    BY <2>1, <2>2, ClosedHasPartners, ResetKeeps
<1>3. CASE Logout(p) /\ tradePartner[p] = NoPlayer
  BY <1>3, ResetKeeps DEF Logout, ClosedByLogout
<1> QED
  BY <1>1, <1>2, <1>3

-----------------------------------------------------------------------------
(* The theorems *)

\* Inv holds in every state.
THEOREM Inductive == Spec => []Inv
<1>1. Init => Inv
  BY TradeAssumption DEF Init, Inv, Typed, OfferedAfterRequest, PartnersAgree, TradeStates
<1>2. Inv /\ [Next]_vars => Inv'
  <2> SUFFICES ASSUME Inv, [Next]_vars PROVE Inv'
    OBVIOUS
  <2>1. ASSUME NEW p \in Players, Login(p) \/ Logout(p) PROVE Inv'
    BY <2>1, StepOnline
  <2>2. ASSUME NEW p \in Players, NEW q \in Players, NEW i \in Items, PlayerRequestTrade(p, q, i)
        PROVE  Inv'
    BY <2>2, StepRequest
  <2>3. ASSUME NEW p \in Players, PlayerAcceptTrade(p) \/ Exchange(p) \/ ExchangeFails(p) PROVE Inv'
    BY <2>3, StepAccept, StepExchange, StepExchangeFails
  <2>4. ASSUME NEW p \in Players,
               \/ PlayerCloseTrade(p)
               \/ \E i \in Items, to \in Players \cup Bags \cup {Ground} : PlayerMoveItem(p, i, to)
        PROVE  Inv'
    BY <2>4, StepClose
  <2>5. CASE UNCHANGED vars
    BY <2>5 DEF vars, Inv, Typed, OfferedAfterRequest, PartnersAgree
  <2> QED
    BY <2>1, <2>2, <2>3, <2>4, <2>5 DEF Next
<1> QED
  BY <1>1, <1>2, PTL DEF Spec

\* The two sides of a trade agree, and Game::tradeItems holds exactly the items that are offered,
\* whatever the players move, accept, close, and whoever leaves.
THEOREM AgreementHolds == Spec => []PartnersAgree
  BY Inductive, PTL DEF Inv

-----------------------------------------------------------------------------
(* What is around an item *)

\* Where an item can be.
Places == Players \cup Bags \cup {Ground}

\* The containers around an item hold it and one another.
LEMMA AroundHolds ==
    ASSUME NEW at, NEW i, NEW j \in Around(at, i) \cup {i}, at[j] \in Bags
    PROVE  at[j] \in Around(at, i)
  BY DEF Around

\* They are in any set of containers that does.
LEMMA AroundLeast ==
    ASSUME NEW at, NEW i, NEW bs \in SUBSET Bags,
           \A j \in bs \cup {i} : at[j] \in Bags => at[j] \in bs
    PROVE  Around(at, i) \subseteq bs
  BY DEF Around

\* What is around a container is around its contents.
LEMMA AroundNested ==
    ASSUME NEW at, NEW i, NEW b \in Around(at, i)
    PROVE  Around(at, b) \subseteq Around(at, i)
<1>1. Around(at, i) \in SUBSET Bags
  BY DEF Around
<1>2. \A j \in Around(at, i) \cup {b} : at[j] \in Bags => at[j] \in Around(at, i)
  BY AroundHolds
<1> QED
  BY <1>1, <1>2, AroundLeast

\* Around an item are the container it is in and what is around that.
LEMMA AroundNext ==
    ASSUME NEW at, NEW i
    PROVE  /\ at[i] \in Bags => Around(at, i) = {at[i]} \cup Around(at, at[i])
           /\ at[i] \notin Bags => Around(at, i) = {}
<1>1. CASE at[i] \in Bags
  <2> DEFINE bs == {at[i]} \cup Around(at, at[i])
  <2>1. bs \in SUBSET Bags
    BY <1>1 DEF Around
  <2>2. \A j \in bs \cup {i} : at[j] \in Bags => at[j] \in bs
    BY AroundHolds
  <2>3. Around(at, i) \subseteq bs
    BY <2>1, <2>2, AroundLeast
  <2>4. at[i] \in Around(at, i)
    BY <1>1, AroundHolds
  <2>5. Around(at, at[i]) \subseteq Around(at, i)
    BY <2>4, AroundNested
  <2> QED
    BY <1>1, <2>3, <2>4, <2>5
<1>2. CASE at[i] \notin Bags
  <2> DEFINE bs == {}
  <2>1. bs \in SUBSET Bags /\ \A j \in bs \cup {i} : at[j] \in Bags => at[j] \in bs
    BY <1>2
  <2> HIDE DEF bs
  <2>2. Around(at, i) \subseteq bs
    BY <2>1, AroundLeast
  <2> QED
    BY <1>2, <2>2 DEF bs
<1> QED
  BY <1>1, <1>2

\* Of two containers around an item one is around the other.
LEMMA AroundLinear ==
    ASSUME NEW at, NEW i, NEW a \in Around(at, i) \cup {i}, NEW b \in Around(at, i) \cup {i}
    PROVE  a = b \/ a \in Around(at, b) \/ b \in Around(at, a)
<1>1. CASE a = i \/ b = i
  BY <1>1
<1>2. CASE a \in Around(at, i) /\ b \in Around(at, i)
  <2> DEFINE bs == {c \in Around(at, i) : a = c \/ a \in Around(at, c) \/ c \in Around(at, a)}
  <2>1. bs \in SUBSET Bags
    BY DEF Around
  <2>2. ASSUME NEW c \in bs \cup {i}, at[c] \in Bags PROVE at[c] \in bs
    <3>1. at[c] \in Around(at, i)
      BY <2>2, AroundHolds
    <3>2. CASE a = c \/ c \in Around(at, a)
      BY <2>2, <3>1, <3>2, AroundHolds
    <3>3. CASE a \in Around(at, c)
      <4>1. a = at[c] \/ a \in Around(at, at[c])
        BY <2>2, <3>3, AroundNext
      <4> QED
        BY <3>1, <4>1
    <3> QED
      BY <1>2, <2>2, <3>2, <3>3
  <2>3. Around(at, i) \subseteq bs
    BY <2>1, <2>2, AroundLeast
  <2> QED
    BY <1>2, <2>3
<1> QED
  BY <1>1, <1>2

\* An item is in one inventory or on one tile.
LEMMA OneRoot ==
    ASSUME NEW at, NEW i, NEW x \in Ancestors(at, i), NEW y \in Ancestors(at, i),
           x \notin Bags, y \notin Bags
    PROVE  x = y
<1>1. PICK a \in Around(at, i) \cup {i} : x = at[a]
  BY DEF Ancestors
<1>2. PICK b \in Around(at, i) \cup {i} : y = at[b]
  BY DEF Ancestors
<1>3. Around(at, a) = {} /\ Around(at, b) = {}
  BY <1>1, <1>2, AroundNext
<1>4. a = b
  BY <1>3, AroundLinear
<1> QED
  BY <1>1, <1>2, <1>4

\* What holds a container holds its contents.
LEMMA AncestorsNested ==
    ASSUME NEW at, NEW i
    PROVE  /\ \A b \in Around(at, i) : Ancestors(at, b) \subseteq Ancestors(at, i)
           /\ \A c \in Bags : c \in Ancestors(at, i) <=> c \in Around(at, i)
           /\ at[i] \in Bags => Ancestors(at, i) = {at[i]} \cup Ancestors(at, at[i])
           /\ at[i] \notin Bags => Ancestors(at, i) = {at[i]}
<1>1. ASSUME NEW b \in Around(at, i) PROVE Ancestors(at, b) \subseteq Ancestors(at, i)
  BY AroundNested DEF Ancestors
<1>2. ASSUME NEW c \in Bags PROVE c \in Ancestors(at, i) <=> c \in Around(at, i)
  <2>1. c \in Around(at, i) => c \in Ancestors(at, i)
    <3>1. SUFFICES ASSUME c \in Around(at, i), c \notin Ancestors(at, i) PROVE FALSE
      OBVIOUS
    <3> DEFINE bs == Around(at, i) \ {c}
    <3>2. bs \in SUBSET Bags
      BY DEF Around
    <3>3. \A j \in bs \cup {i} : at[j] \in Bags => at[j] \in bs
      BY <3>1, AroundHolds DEF Ancestors
    <3>4. Around(at, i) \subseteq bs
      BY <3>2, <3>3, AroundLeast
    <3> QED
      BY <3>1, <3>4
  <2>2. c \in Ancestors(at, i) => c \in Around(at, i)
    BY AroundHolds DEF Ancestors
  <2> QED
    BY <2>1, <2>2
<1>3. CASE at[i] \in Bags
  <2>1. Around(at, i) = {at[i]} \cup Around(at, at[i])
    BY <1>3, AroundNext
  <2>2. {at[b] : b \in Around(at, i)} = {at[at[i]]} \cup {at[b] : b \in Around(at, at[i])}
    BY <2>1
  <2> QED
    BY <1>1, <1>2, <1>3, <2>2 DEF Ancestors
<1>4. CASE at[i] \notin Bags
  BY <1>4, AroundNext DEF Ancestors
<1> QED
  BY <1>1, <1>2, <1>3, <1>4

-----------------------------------------------------------------------------
(* A moved item *)

\* Item i is moved to a place that is not in it.
Moves(at, new, i, to) ==
    /\ at \in [Items -> Places] /\ new = [at EXCEPT ![i] = to]
    /\ i \in Items /\ to \in Places
    /\ to # i /\ (to \in Bags => i \notin Around(at, to))

\* Only the moved item goes elsewhere.
LEMMA MovesPlaces ==
    ASSUME NEW at, NEW new, NEW i, NEW to, Moves(at, new, i, to)
    PROVE  /\ new \in [Items -> Places] /\ new[i] = to
           /\ \A j \in Items : j # i => new[j] = at[j]
  BY DEF Moves

\* Nothing changes around what is neither the moved item nor in it.
LEMMA AroundUnmoved ==
    ASSUME NEW at, NEW new, NEW i, NEW to, Moves(at, new, i, to),
           NEW x \in Items, x # i, i \notin Around(at, x)
    PROVE  Around(new, x) = Around(at, x) /\ Ancestors(new, x) = Ancestors(at, x)
<1>1. Bags \subseteq Items
  BY TradeAssumption
<1>2. \A j \in Around(at, x) \cup {x} : new[j] = at[j]
  BY <1>1, MovesPlaces DEF Around
<1>3. Around(new, x) \subseteq Around(at, x)
  <2>1. Around(at, x) \in SUBSET Bags
    BY DEF Around
  <2>2. \A j \in Around(at, x) \cup {x} : new[j] \in Bags => new[j] \in Around(at, x)
    BY <1>2, AroundHolds
  <2> QED
    BY <2>1, <2>2, AroundLeast
<1>4. Around(at, x) \subseteq Around(new, x)
  <2>1. Around(new, x) \in SUBSET Bags
    BY DEF Around
  <2>2. \A j \in Around(new, x) \cup {x} : at[j] \in Bags => at[j] \in Around(new, x)
    BY <1>2, <1>3, AroundHolds
  <2> QED
    BY <2>1, <2>2, AroundLeast
<1>5. Around(new, x) = Around(at, x)
  BY <1>3, <1>4
<1> QED
  BY <1>2, <1>5 DEF Ancestors

\* Around the moved item and its contents comes the place it is moved to, and what is around
\* that.
LEMMA AroundMoved ==
    ASSUME NEW at, NEW new, NEW i, NEW to, Moves(at, new, i, to),
           NEW x \in Items, x = i \/ i \in Around(at, x)
    PROVE  \A b \in Around(new, x) :
              \/ b \in Around(at, x)
              \/ to \in Bags /\ (b = to \/ b \in Around(at, to))
<1> DEFINE beyond == {b \in Bags : to \in Bags /\ (b = to \/ b \in Around(at, to))}
           bs == Around(at, x) \cup beyond
<1>1. Bags \subseteq Items
  BY TradeAssumption
<1>2. bs \in SUBSET Bags
  BY DEF Around
<1>3. ASSUME NEW j \in bs \cup {x}, new[j] \in Bags PROVE new[j] \in bs
  <2>1. CASE j = i
    BY <1>3, <2>1, MovesPlaces
  <2>2. CASE j # i
    <3>1. new[j] = at[j]
      BY <1>1, <1>2, <2>2, MovesPlaces
    <3>2. CASE j \in Around(at, x) \cup {x}
      BY <1>3, <3>1, <3>2, AroundHolds
    <3>3. CASE j \in beyond
      <4>1. j \in Around(at, to) \cup {to} /\ to \in Bags
        BY <3>3
      <4> QED
        BY <1>3, <3>1, <4>1, AroundHolds
    <3> QED
      BY <1>3, <3>2, <3>3
  <2> QED
    BY <2>1, <2>2
<1> HIDE DEF bs
<1>4. Around(new, x) \subseteq bs
  BY <1>2, <1>3, AroundLeast
<1> QED
  BY <1>4 DEF bs

\* No item gets into itself.
Acyclic(at) == \A i \in Items : i \notin Ancestors(at, i)

\* A move that does not put an item into itself puts none into itself.
LEMMA MovesAcyclic ==
    ASSUME NEW at, NEW new, NEW i, NEW to, Moves(at, new, i, to), Acyclic(at)
    PROVE  Acyclic(new)
<1>1. Bags \subseteq Items /\ Items \cap Places \subseteq Bags
  BY TradeAssumption DEF Places
<1>2. ASSUME NEW f \in [Items -> Places], NEW x \in Items
      PROVE  x \in Ancestors(f, x) <=> x \in Around(f, x)
  <2>1. CASE x \in Bags
    BY <2>1, AncestorsNested
  <2>2. CASE x \notin Bags
    <3>1. \A j \in Items : f[j] # x
      BY <1>1, <2>2
    <3> QED
      BY <1>1, <2>2, <3>1 DEF Ancestors, Around
  <2> QED
    BY <2>1, <2>2
<1>3. at \in [Items -> Places] /\ new \in [Items -> Places]
  BY MovesPlaces DEF Moves
<1>4. \A x \in Items : x \notin Around(at, x)
  BY <1>2, <1>3 DEF Acyclic
<1>5. ASSUME NEW x \in Items, x \in Around(new, x) PROVE FALSE
  <2>1. CASE x # i /\ i \notin Around(at, x)
    BY <1>4, <1>5, <2>1, AroundUnmoved
  <2>2. CASE x = i \/ i \in Around(at, x)
    <3>1. to \in Bags /\ (x = to \/ x \in Around(at, to))
      BY <1>4, <1>5, <2>2, AroundMoved
    <3>2. i \notin Around(at, to) /\ to # i
      BY <3>1 DEF Moves
    <3> QED
      BY <2>2, <3>1, <3>2, AroundNested
  <2> QED
    BY <2>1, <2>2
<1> QED
  BY <1>2, <1>3, <1>5 DEF Acyclic

\* A container keeps its contents, and stays where it is, when the moved item is not the
\* container, not in it and not around it, and is not moved into it.
LEMMA ContentsKept ==
    ASSUME NEW at, NEW new, NEW i, NEW to, Moves(at, new, i, to), NEW t \in Items,
           t # i, ~IsHoldingItem(at, i, t), ~IsHoldingItem(at, t, i),
           to # t, to \in Items => ~IsHoldingItem(at, t, to)
    PROVE  /\ Contents(new, t) = Contents(at, t)
           /\ Ancestors(new, t) = Ancestors(at, t)
<1>1. Bags \subseteq Items /\ Items \cap Places \subseteq Bags
  BY TradeAssumption DEF Places
<1>2. at \in [Items -> Places] /\ new \in [Items -> Places]
  BY MovesPlaces DEF Moves
<1>3. i \notin Around(at, t)
  BY AncestorsNested DEF IsHoldingItem, Around
<1>4. Ancestors(new, t) = Ancestors(at, t)
  BY <1>3, AroundUnmoved
<1>5. CASE t \notin Bags
  <2>1. ASSUME NEW f \in [Items -> Places] PROVE Contents(f, t) = {}
    <3>1. \A j \in Items : f[j] # t
      BY <1>1, <1>5
    <3>2. \A x : Around(f, x) \subseteq Items
      BY <1>1 DEF Around
    <3> QED
      BY <3>1, <3>2 DEF Contents, IsHoldingItem, Ancestors
  <2> QED
    BY <1>2, <1>4, <2>1
<1>6. CASE t \in Bags
  <2>1. t \notin Around(at, i) /\ (to \in Bags => t \notin Around(at, to))
    BY <1>1, <1>6, AncestorsNested DEF IsHoldingItem
  <2>2. ASSUME NEW x \in Items PROVE t \in Around(new, x) <=> t \in Around(at, x)
    <3>1. CASE x # i /\ i \notin Around(at, x)
      BY <3>1, AroundUnmoved
    <3>2. CASE x = i \/ i \in Around(at, x)
      <4>1. t \notin Around(at, x)
        BY <1>3, <2>1, <3>2, AroundLinear
      <4>2. t \notin Around(new, x)
        BY <2>1, <3>2, <4>1, AroundMoved
      <4> QED
        BY <4>1, <4>2
    <3> QED
      BY <3>1, <3>2
  <2>3. ASSUME NEW x \in Items
        PROVE  IsHoldingItem(new, t, x) <=> IsHoldingItem(at, t, x)
    BY <1>6, <2>2, AncestorsNested DEF IsHoldingItem
  <2> QED
    BY <1>4, <2>3 DEF Contents
<1> QED
  BY <1>5, <1>6

-----------------------------------------------------------------------------
(* What is offered *)

\* Every item is somewhere, and not in itself.
Placed ==
    /\ place \in [Items -> Places] /\ shown \in [Players -> SUBSET Items]
    /\ online \subseteq Players
    /\ Acyclic(place)

Offers == NothingOfferedTwice /\ OfferIsAsShown

\* nullptr is no place.
LEMMA NothingHeldByNothing ==
    ASSUME NEW at \in [Items -> Places], NEW i \in Items
    PROVE  ~IsHoldingItem(at, NoItem, i)
<1>1. NoItem \notin Places /\ Bags \subseteq Items
  BY TradeAssumption DEF Places
<1>2. \A j \in Around(at, i) \cup {i} : at[j] \in Places
  BY <1>1 DEF Around
<1> QED
  BY <1>1, <1>2 DEF IsHoldingItem, Ancestors

\* The offers that stand when trades are reset are still good if their items were left alone.
LEMMA OffersKept ==
    ASSUME Inv, Placed, Offers, NEW ps \in SUBSET Players, Reset(ps),
           place' \in [Items -> Places],
           \A p \in Players \ ps : tradeItem[p] # NoItem =>
              /\ Contents(place', tradeItem[p]) = Contents(place, tradeItem[p])
              /\ Ancestors(place', tradeItem[p]) = Ancestors(place, tradeItem[p])
    PROVE  Offers'
<1>1. \A p \in Players : /\ p \in ps => tradeItem'[p] = NoItem
                         /\ p \notin ps => tradeItem'[p] = tradeItem[p] /\ shown'[p] = shown[p]
  BY DEF Reset
<1>2. \A p \in Players : tradeItem[p] # NoItem => tradeItem[p] \in Items
  BY DEF Inv, Typed
<1>3. ASSUME NEW p \in Players, NEW q \in Players, p # q, tradeItem'[p] # NoItem
      PROVE  /\ tradeItem'[p] # tradeItem'[q]
             /\ ~IsHoldingItem(place', tradeItem'[q], tradeItem'[p])
  <2>1. p \notin ps /\ tradeItem'[p] = tradeItem[p] /\ tradeItem[p] \in Items
    BY <1>1, <1>2, <1>3
  <2>2. CASE q \in ps
    BY <1>1, <1>3, <2>1, <2>2, NothingHeldByNothing
  <2>3. CASE q \notin ps
    <3>1. tradeItem'[q] = tradeItem[q]
      BY <1>1, <2>3
    <3>2. tradeItem[p] # tradeItem[q] /\ ~IsHoldingItem(place, tradeItem[q], tradeItem[p])
      BY <1>3, <2>1 DEF Offers, NothingOfferedTwice
    <3> QED
      BY <1>3, <2>1, <3>1, <3>2 DEF IsHoldingItem
  <2> QED
    BY <2>2, <2>3
<1>4. ASSUME NEW p \in Players, tradeItem'[p] # NoItem
      PROVE  InReach(p, tradeItem[p])' /\ Contents(place', tradeItem'[p]) = shown'[p]
  <2>1. p \notin ps /\ tradeItem'[p] = tradeItem[p] /\ shown'[p] = shown[p]
    BY <1>1, <1>4
  <2>2. InReach(p, tradeItem[p]) /\ Contents(place, tradeItem[p]) = shown[p]
    BY <1>4, <2>1 DEF Offers, OfferIsAsShown
  <2>3. Ancestors(place', tradeItem[p]) = Ancestors(place, tradeItem[p])
    BY <1>4, <2>1
  <2> QED
    BY <1>4, <2>1, <2>2, <2>3 DEF InReach
<1> QED
  BY <1>3, <1>4 DEF Offers, NothingOfferedTwice, OfferIsAsShown

\* Trades that are reset while nothing is moved.
LEMMA OffersReset ==
    ASSUME Inv, Placed, Offers, NEW ps \in SUBSET Players, Reset(ps), place' = place,
           online' \subseteq Players
    PROVE  Offers' /\ Placed'
<1>1. Offers'
  BY OffersKept DEF Placed
<1>2. shown' \in [Players -> SUBSET Items]
  BY DEF Reset, Placed
<1> QED
  BY <1>1, <1>2 DEF Placed

\* playerRequestTrade
LEMMA OffersRequested ==
    ASSUME Inv, Placed, Offers, NEW p \in Players, NEW q \in Players, NEW i \in Items,
           PlayerRequestTrade(p, q, i)
    PROVE  Offers' /\ Placed'
<1>1. /\ tradeItem' = [tradeItem EXCEPT ![p] = i] /\ place' = place /\ online' = online
      /\ shown' = [shown EXCEPT ![p] = Contents(place, i)]
      /\ InReach(p, i) /\ NotTraded(i)
  BY DEF PlayerRequestTrade
<1>2. /\ tradeItem'[p] = i /\ shown'[p] = Contents(place, i)
      /\ \A r \in Players : r # p => tradeItem'[r] = tradeItem[r] /\ shown'[r] = shown[r]
  BY <1>1 DEF Inv, Typed, Placed
<1>3. ASSUME NEW r \in Players, r # p
      PROVE  /\ tradeItem[r] # i
             /\ ~IsHoldingItem(place, tradeItem[r], i)
             /\ tradeItem[r] # NoItem => ~IsHoldingItem(place, i, tradeItem[r])
  <2>1. CASE tradeItem[r] = NoItem
    <3>1. NoItem \notin Items
      BY TradeAssumption
    <3> QED
      BY <2>1, <3>1, NothingHeldByNothing DEF Placed
  <2>2. CASE tradeItem[r] # NoItem
    <3>1. tradeItem[r] \in Items /\ tradeItems[tradeItem[r]] = r /\ r # NoPlayer
      BY <2>2, TradeAssumption DEF Inv, Typed, PartnersAgree
    <3> QED
      BY <1>1, <3>1 DEF NotTraded
  <2> QED
    BY <2>1, <2>2
<1>4. NothingOfferedTwice'
  BY <1>1, <1>2, <1>3 DEF Offers, NothingOfferedTwice
<1>5. OfferIsAsShown'
  <2>1. ASSUME NEW r \in Players, tradeItem'[r] # NoItem
        PROVE  InReach(r, tradeItem[r])' /\ Contents(place', tradeItem'[r]) = shown'[r]
    <3>1. CASE r = p
      BY <1>1, <1>2, <3>1 DEF InReach
    <3>2. CASE r # p
      BY <1>1, <1>2, <2>1, <3>2 DEF InReach, Offers, OfferIsAsShown
    <3> QED
      BY <3>1, <3>2
  <2> QED
    BY <2>1 DEF OfferIsAsShown
<1>6. Placed'
  BY <1>1 DEF Placed, Contents
<1> QED
  BY <1>4, <1>5, <1>6 DEF Offers

\* An offer that a move does not disturb has its item where it was, with what was in it.
LEMMA Undisturbed ==
    ASSUME Inv, NEW at, NEW new, NEW i, NEW to, Moves(at, new, i, to), NEW p \in Players,
           tradeItem[p] # NoItem, p \notin Disturbed(i, to, at)
    PROVE  /\ Contents(new, tradeItem[p]) = Contents(at, tradeItem[p])
           /\ Ancestors(new, tradeItem[p]) = Ancestors(at, tradeItem[p])
<1>1. tradeItem[p] \in Items
  BY DEF Inv, Typed
<1> DEFINE t == tradeItem[p]
<1>2. /\ t # i /\ ~IsHoldingItem(at, i, t) /\ ~IsHoldingItem(at, t, i)
      /\ to # t /\ (to \in Items => ~IsHoldingItem(at, t, to))
  BY DEF Disturbed
<1> QED
  BY <1>1, <1>2, ContentsKept

\* A player moves an item
LEMMA OffersMoved ==
    ASSUME Inv, Placed, Offers, NEW p \in Players, NEW i \in Items,
           NEW to \in Players \cup Bags \cup {Ground}, PlayerMoveItem(p, i, to)
    PROVE  Offers' /\ Placed'
<1>1. /\ place' = [place EXCEPT ![i] = to] /\ Reset(Closed(Disturbed(i, to, place)))
      /\ to # i /\ (to \in Items => ~IsHoldingItem(place, i, to)) /\ online' = online
  BY DEF PlayerMoveItem
<1>2. to \in Bags => i \notin Around(place, to)
  <2>1. Bags \subseteq Items
    BY TradeAssumption
  <2> QED
    BY <1>1, <2>1, AncestorsNested DEF IsHoldingItem, Around
<1>3. Moves(place, place', i, to)
  BY <1>1, <1>2 DEF Moves, Placed, Places
<1>4. /\ Closed(Disturbed(i, to, place)) \in SUBSET Players
      /\ Disturbed(i, to, place) \subseteq Closed(Disturbed(i, to, place))
  <2>1. Disturbed(i, to, place) \in SUBSET Players
    BY DEF Disturbed
  <2> QED
    BY <2>1, ClosedHasPartners
<1>5. Offers'
  <2>1. \A r \in Players \ Closed(Disturbed(i, to, place)) : tradeItem[r] # NoItem =>
            /\ Contents(place', tradeItem[r]) = Contents(place, tradeItem[r])
            /\ Ancestors(place', tradeItem[r]) = Ancestors(place, tradeItem[r])
    BY <1>3, <1>4, Undisturbed
  <2> QED
    BY <1>1, <1>3, <1>4, <2>1, MovesPlaces, OffersKept
<1>6. shown' \in [Players -> SUBSET Items]
  BY <1>1 DEF Reset, Placed
<1>7. Acyclic(place') /\ place' \in [Items -> Places]
  BY <1>3, MovesAcyclic, MovesPlaces DEF Placed
<1> QED
  BY <1>1, <1>5, <1>6, <1>7 DEF Placed

-----------------------------------------------------------------------------
(* The exchange *)

\* The second to accept: the first item is moved to the partner, then the partner's to the player.
Exchanged(p, first, toQ, toP, ps) ==
    LET q == tradePartner[p]
        offers == {tradeItem[p], tradeItem[q]}
    IN  /\ p # q /\ p \in Players /\ q \in Players /\ q # NoPlayer
        /\ tradePartner[q] = p
        /\ tradeItem[p] \in Items /\ tradeItem[q] \in Items /\ tradeItem[p] # tradeItem[q]
        /\ toQ \in Destinations(q, offers) /\ toP \in Destinations(p, offers)
        /\ Moves(place, first, tradeItem[p], toQ) /\ Moves(first, place', tradeItem[q], toP)
        /\ Reset(ps) /\ ps \in SUBSET Players /\ {p, q} \subseteq ps
        /\ Disturbed(tradeItem[p], toQ, place) \subseteq ps
        /\ Disturbed(tradeItem[q], toP, first) \subseteq ps

\* Neither offered item is around the container that takes the other.
LEMMA DestinationOutside ==
    ASSUME Inv, NEW p \in Players, NEW offers, NEW to \in Destinations(p, offers),
           NEW t \in offers \cap Items
    PROVE  /\ to \in Places /\ to # t /\ (to \in Bags => t \notin Around(place, to))
           /\ p \in Ancestors(place, to) \cup {to}
<1>1. p \in Places /\ Bags \subseteq Places /\ Players \cap Items = {} /\ Bags \subseteq Items
  BY TradeAssumption DEF Places
<1>2. CASE to = p
  BY <1>1, <1>2
<1>3. CASE to # p
  <2>1. to \in Bags /\ p \in Ancestors(place, to) /\ to # t /\ ~IsHoldingItem(place, t, to)
    BY <1>3 DEF Destinations
  <2>2. t \notin Around(place, to)
    BY <2>1, AncestorsNested DEF IsHoldingItem, Around
  <2> QED
    BY <1>1, <2>1, <2>2
<1> QED
  BY <1>2, <1>3

\* The exchange of the source is the two moves.
LEMMA ExchangeMoves ==
    ASSUME Inv, Placed, Offers, NEW p \in Players, Exchange(p)
    PROVE  \E first, toQ, toP, ps : Exchanged(p, first, toQ, toP, ps) /\ online' = online
<1> DEFINE q == tradePartner[p]
           a == tradeItem[p]
           b == tradeItem[q]
<1>1. /\ tradeState[p] \in {"ACKNOWLEDGE", "INITIATED"} /\ tradeState[q] = "ACCEPT"
      /\ q # NoPlayer /\ a # NoItem /\ b # NoItem /\ online' = online
  BY DEF Exchange, Transferable
<1>2. q \in Players /\ p # q /\ a \in Items /\ b \in Items /\ tradePartner[q] = p
  BY <1>1 DEF Inv, Typed, PartnersAgree
<1>3. a # b
  BY <1>1, <1>2 DEF Offers, NothingOfferedTwice
<1>4. PICK toQ \in Destinations(q, {a, b}), toP \in Destinations(p, {a, b}) :
        LET first == [place EXCEPT ![a] = toQ] IN
        /\ place' = [i \in Items |-> IF i = b THEN toP ELSE first[i]]
        /\ Reset({p, q} \cup Closed(Disturbed(a, toQ, place)
                                    \cup IF b = NoItem THEN {} ELSE Disturbed(b, toP, first)))
  BY DEF Exchange
<1> DEFINE first == [place EXCEPT ![a] = toQ]
           ds == Disturbed(a, toQ, place) \cup Disturbed(b, toP, first)
           ps == {p, q} \cup Closed(ds)
<1>5. Reset(ps)
  BY <1>1, <1>4
<1>6. ds \in SUBSET Players
  BY DEF Disturbed
<1>7. ps \in SUBSET Players /\ {p, q} \subseteq ps /\ ds \subseteq ps
  BY <1>2, <1>6, ClosedHasPartners
<1>8. /\ toQ \in Places /\ toQ # a /\ (toQ \in Bags => a \notin Around(place, toQ))
      /\ toP \in Places /\ toP # a /\ (toP \in Bags => a \notin Around(place, toP))
      /\ toP # b /\ (toP \in Bags => b \notin Around(place, toP))
  BY <1>2, <1>4, DestinationOutside
<1>9. Moves(place, first, a, toQ)
  BY <1>2, <1>8 DEF Moves, Placed
<1>10. toP \in Bags => b \notin Around(first, toP)
  <2>1. Bags \subseteq Items
    BY TradeAssumption
  <2>2. SUFFICES ASSUME toP \in Bags PROVE b \notin Around(first, toP)
    OBVIOUS
  <2>3. Around(first, toP) = Around(place, toP)
    BY <1>8, <1>9, <2>1, <2>2, AroundUnmoved
  <2> QED
    BY <1>8, <2>2, <2>3
<1>11. first \in [Items -> Places]
  BY <1>9, MovesPlaces
<1>12. place' = [first EXCEPT ![b] = toP]
  BY <1>4, <1>11
<1>13. Moves(first, place', b, toP)
  BY <1>2, <1>8, <1>10, <1>11, <1>12 DEF Moves
<1>14. Exchanged(p, first, toQ, toP, ps)
  BY <1>1, <1>2, <1>3, <1>4, <1>5, <1>7, <1>9, <1>13 DEF Exchanged
<1> QED
  BY <1>1, <1>14

\* The second to accept
LEMMA OffersExchanged ==
    ASSUME Inv, Placed, Offers, NEW p \in Players, Exchange(p)
    PROVE  Offers' /\ Placed'
<1>1. PICK first, toQ, toP, ps : Exchanged(p, first, toQ, toP, ps) /\ online' = online
  BY ExchangeMoves
<1> DEFINE a == tradeItem[p]
           b == tradeItem[tradePartner[p]]
<1>2. /\ Moves(place, first, a, toQ) /\ Moves(first, place', b, toP)
      /\ ps \in SUBSET Players /\ Reset(ps)
      /\ Disturbed(a, toQ, place) \subseteq ps /\ Disturbed(b, toP, first) \subseteq ps
  BY <1>1 DEF Exchanged
<1>3. ASSUME NEW r \in Players \ ps, tradeItem[r] # NoItem
      PROVE  /\ Contents(place', tradeItem[r]) = Contents(place, tradeItem[r])
             /\ Ancestors(place', tradeItem[r]) = Ancestors(place, tradeItem[r])
  <2>1. r \in Players /\ r \notin Disturbed(a, toQ, place) /\ r \notin Disturbed(b, toP, first)
    BY <1>2
  <2>2. /\ Contents(first, tradeItem[r]) = Contents(place, tradeItem[r])
        /\ Ancestors(first, tradeItem[r]) = Ancestors(place, tradeItem[r])
    BY <1>2, <1>3, <2>1, Undisturbed
  <2>3. /\ Contents(place', tradeItem[r]) = Contents(first, tradeItem[r])
        /\ Ancestors(place', tradeItem[r]) = Ancestors(first, tradeItem[r])
    BY <1>2, <1>3, <2>1, Undisturbed
  <2> QED
    BY <2>2, <2>3
<1>4. place' \in [Items -> Places]
  BY <1>2, MovesPlaces
<1>5. Offers'
  BY <1>2, <1>3, <1>4, OffersKept
<1>6. Acyclic(first)
  BY <1>2, MovesAcyclic DEF Placed
<1>7. Acyclic(place')
  BY <1>2, <1>6, MovesAcyclic
<1>8. shown' \in [Players -> SUBSET Items]
  BY <1>2 DEF Reset, Placed
<1> QED
  BY <1>1, <1>4, <1>5, <1>7, <1>8 DEF Placed

-----------------------------------------------------------------------------
(* Nothing for nothing *)

\* What is outermost around an item after a move was so before, or is so around where it went.
LEMMA MovedTo ==
    ASSUME NEW at, NEW new, NEW i, NEW to, Moves(at, new, i, to),
           NEW x \in Items, x = i \/ i \in Around(at, x),
           NEW y \in Ancestors(new, x)
    PROVE  \/ y \in Ancestors(at, x)
           \/ y = to
           \/ to \in Bags /\ y \in Ancestors(at, to)
<1>1. PICK j \in Around(new, x) \cup {x} : y = new[j]
  BY DEF Ancestors
<1>2. CASE j = i
  BY <1>1, <1>2, MovesPlaces
<1>3. CASE j # i
  <2>1. j \in Items
    BY TradeAssumption DEF Around
  <2>2. y = at[j]
    BY <1>1, <1>3, <2>1, MovesPlaces
  <2>3. j = x \/ j \in Around(at, x) \/ (to \in Bags /\ (j = to \/ j \in Around(at, to)))
    BY AroundMoved
  <2> QED
    BY <2>2, <2>3 DEF Ancestors
<1> QED
  BY <1>2, <1>3

\* A container that is neither a moved item nor in it keeps its surroundings, and gives them to
\* what is put in it.
LEMMA PutWhere ==
    ASSUME NEW at, NEW i, NEW to, at[i] = to, NEW y, y = to \/ (to \in Bags /\ y \in Ancestors(at, to))
    PROVE  y \in Ancestors(at, i)
<1>1. CASE y = to
  BY <1>1 DEF Ancestors
<1>2. CASE to \in Bags /\ y \in Ancestors(at, to)
  BY <1>2, AncestorsNested
<1> QED
  BY <1>1, <1>2

\* The exchange gives each item to the other player.
LEMMA ExchangeGives ==
    ASSUME Inv, NEW p \in Players, NEW first, NEW toQ, NEW toP, NEW ps,
           Exchanged(p, first, toQ, toP, ps)
    PROVE  /\ p \in Ancestors(place', tradeItem[tradePartner[p]])
           /\ tradePartner[p] \in Ancestors(place', tradeItem[p])
<1> DEFINE q == tradePartner[p]
           a == tradeItem[p]
           b == tradeItem[q]
<1>1. /\ q \in Players /\ a \in Items /\ b \in Items /\ a # b
      /\ toQ \in Destinations(q, {a, b}) /\ toP \in Destinations(p, {a, b})
      /\ Moves(place, first, a, toQ) /\ Moves(first, place', b, toP)
  BY DEF Exchanged
<1>2. place'[a] = toQ /\ place'[b] = toP
  BY <1>1, MovesPlaces
<1>3. ASSUME NEW r \in Players, NEW to \in Destinations(r, {a, b})
      PROVE  r = to \/ (to \in Bags /\ r \in Ancestors(place', to))
  <2>1. /\ to # a /\ (to \in Bags => a \notin Around(place, to))
        /\ to # b /\ (to \in Bags => b \notin Around(place, to))
        /\ r \in Ancestors(place, to) \cup {to}
    BY <1>1, DestinationOutside
  <2>2. CASE to = r
    BY <2>2
  <2>3. CASE to # r
    <3>1. to \in Bags /\ to \in Items /\ r \in Ancestors(place, to)
      BY <2>3, TradeAssumption DEF Destinations
    <3>2. Around(first, to) = Around(place, to) /\ Ancestors(first, to) = Ancestors(place, to)
      BY <1>1, <2>1, <3>1, AroundUnmoved
    <3>3. b \notin Around(first, to)
      BY <2>1, <3>1, <3>2
    <3>4. Ancestors(place', to) = Ancestors(first, to)
      BY <1>1, <2>1, <3>1, <3>3, AroundUnmoved
    <3> QED
      BY <3>1, <3>2, <3>4
  <2> QED
    BY <2>2, <2>3
<1>4. p \in Ancestors(place', b)
  <2>1. p = toP \/ (toP \in Bags /\ p \in Ancestors(place', toP))
    BY <1>1, <1>3
  <2> QED
    BY <1>2, <2>1, PutWhere
<1>5. q \in Ancestors(place', a)
  <2>1. q = toQ \/ (toQ \in Bags /\ q \in Ancestors(place', toQ))
    BY <1>1, <1>3
  <2> QED
    BY <1>2, <2>1, PutWhere
<1> QED
  BY <1>4, <1>5

\* A player and its partner, and what happens to the item that it offers.
Given(p, q) ==
    /\ tradePartner[p] = q /\ tradeItem[p] # NoItem
    /\ p \in Ancestors(place, tradeItem[p])
    /\ q \in Ancestors(place', tradeItem[p])

Returned(p, q) == tradeItem[q] # NoItem /\ p \in Ancestors(place', tradeItem[q])

\* Where nothing changes around the item, it is the player's own.
LEMMA GivenNot ==
    ASSUME NEW p \in Players, NEW q \in Players, Given(p, q),
           Ancestors(place', tradeItem[p]) = Ancestors(place, tradeItem[p])
    PROVE  p = q
<1>1. p \notin Bags /\ q \notin Bags
  BY TradeAssumption
<1>2. p \in Ancestors(place, tradeItem[p]) /\ q \in Ancestors(place, tradeItem[p])
  BY DEF Given
<1> QED
  BY <1>1, <1>2, OneRoot

\* Who has an item moves it to its own places only.
LEMMA GivenMoved ==
    ASSUME Inv, Placed, NEW p \in Players, NEW q \in Players, Given(p, q),
           NEW r \in Players, NEW i \in Items, NEW to \in Players \cup Bags \cup {Ground},
           PlayerMoveItem(r, i, to)
    PROVE  p = q
<1> DEFINE t == tradeItem[p]
<1>1. /\ Bags \subseteq Items /\ Players \cap Items = {} /\ Ground \notin Players \cup Items
  BY TradeAssumption
<1>2. t \in Items /\ p \in Ancestors(place, t) /\ q \in Ancestors(place', t)
  BY DEF Given, Inv, Typed
<1>3. /\ place' = [place EXCEPT ![i] = to] /\ InReach(r, i) /\ InReach(r, to)
      /\ to # i /\ (to \in Items => ~IsHoldingItem(place, i, to))
  BY DEF PlayerMoveItem
<1>4. to \in Bags => i \notin Around(place, to)
  BY <1>1, <1>3, AncestorsNested DEF IsHoldingItem, Around
<1>5. Moves(place, place', i, to)
  BY <1>3, <1>4 DEF Moves, Placed, Places
<1>6. CASE t # i /\ i \notin Around(place, t)
  <2>1. Ancestors(place', t) = Ancestors(place, t)
    BY <1>2, <1>5, <1>6, AroundUnmoved
  <2> QED
    BY <2>1, GivenNot
<1>7. CASE t = i \/ i \in Around(place, t)
  <2>1. PICK x \in {r, Ground} : x \in Ancestors(place, i)
    BY <1>1, <1>3 DEF InReach
  <2>2. x \in Ancestors(place, t)
    BY <1>7, <2>1, AncestorsNested
  <2>3. x = p
    <3>1. x \notin Bags /\ p \notin Bags
      BY <1>1
    <3> QED
      BY <1>2, <2>2, <3>1, OneRoot
  <2>4. r = p
    BY <1>1, <2>1, <2>3
  <2>5. \/ q \in Ancestors(place, t)
        \/ q = to
        \/ to \in Bags /\ q \in Ancestors(place, to)
    BY <1>2, <1>5, <1>7, MovedTo
  <2>6. CASE q \in Ancestors(place, t)
    <3>1. p \notin Bags /\ q \notin Bags
      BY <1>1
    <3> QED
      BY <1>2, <2>6, <3>1, OneRoot
  <2>7. CASE q = to
    BY <1>1, <1>3, <2>4, <2>7 DEF InReach
  <2>8. CASE to \in Bags /\ q \in Ancestors(place, to)
    <3>1. PICK y \in {p, Ground} : y \in Ancestors(place, to)
      BY <1>1, <1>3, <2>4, <2>8 DEF InReach
    <3>2. q \notin Bags /\ y \notin Bags
      BY <1>1
    <3>3. q = y
      BY <2>8, <3>1, <3>2, OneRoot
    <3> QED
      BY <1>1, <3>1, <3>3
  <2> QED
    BY <2>5, <2>6, <2>7, <2>8
<1> QED
  BY <1>6, <1>7

\* The exchange moves the items of the two only, and moves both.
LEMMA GivenExchanged ==
    ASSUME Inv, Placed, Offers, NEW p \in Players, NEW q \in Players, Given(p, q),
           NEW r \in Players, Exchange(r)
    PROVE  p = q \/ Returned(p, q)
<1>1. PICK first, toQ, toP, ps : Exchanged(r, first, toQ, toP, ps)
  BY ExchangeMoves
<1> DEFINE s == tradePartner[r]
           a == tradeItem[r]
           b == tradeItem[s]
           t == tradeItem[p]
<1>2. /\ s \in Players /\ a \in Items /\ b \in Items /\ tradePartner[s] = r
      /\ Moves(place, first, a, toQ) /\ Moves(first, place', b, toP)
  BY <1>1 DEF Exchanged
<1>3. r \in Ancestors(place', b) /\ s \in Ancestors(place', a)
  BY <1>1, ExchangeGives
<1>4. a # NoItem /\ b # NoItem
  BY <1>2, TradeAssumption
<1>5. CASE p = r
  BY <1>3, <1>4, <1>5 DEF Given, Returned
<1>6. CASE p = s
  BY <1>2, <1>3, <1>4, <1>6 DEF Given, Returned
<1>7. CASE p # r /\ p # s
  <2>1. t \in Items /\ t # NoItem
    BY DEF Given, Inv, Typed
  <2>2. t # a /\ ~IsHoldingItem(place, a, t) /\ t # b /\ ~IsHoldingItem(place, b, t)
    BY <1>2, <1>7, <2>1 DEF Offers, NothingOfferedTwice
  <2>3. a \notin Around(place, t) /\ b \notin Around(place, t)
    BY <2>2, AncestorsNested DEF IsHoldingItem, Around
  <2>4. Around(first, t) = Around(place, t) /\ Ancestors(first, t) = Ancestors(place, t)
    BY <1>2, <2>1, <2>2, <2>3, AroundUnmoved
  <2>5. b \notin Around(first, t)
    BY <2>3, <2>4
  <2>6. Ancestors(place', t) = Ancestors(first, t)
    BY <1>2, <2>1, <2>2, <2>5, AroundUnmoved
  <2>7. Ancestors(place', t) = Ancestors(place, t)
    BY <2>4, <2>6
  <2> QED
    BY <2>7, GivenNot
<1> QED
  BY <1>5, <1>6, <1>7

-----------------------------------------------------------------------------
(* The steps of the offers *)

\* Nothing is moved.
LEMMA OffersStay ==
    ASSUME Inv, Placed, Offers, NEW p \in Players,
           \/ Login(p) \/ Logout(p) \/ PlayerAcceptTrade(p) \/ ExchangeFails(p)
           \/ PlayerCloseTrade(p)
    PROVE  Offers' /\ Placed' /\ place' = place
<1>1. CASE Login(p) \/ PlayerAcceptTrade(p)
  BY <1>1 DEF Login, PlayerAcceptTrade, Placed, Offers, NothingOfferedTwice, OfferIsAsShown, InReach
<1>2. CASE Logout(p) \/ ExchangeFails(p) \/ PlayerCloseTrade(p)
  <2>1. PICK ps \in SUBSET Players : Reset(ps) /\ place' = place /\ online' \subseteq Players
    <3>1. CASE PlayerCloseTrade(p)
      BY <3>1, ClosedHasPartners DEF PlayerCloseTrade, Placed
    <3>2. CASE ExchangeFails(p)
      BY <3>2 DEF ExchangeFails, Placed, Inv, Typed
    <3>3. CASE Logout(p)
      <4>1. ClosedByLogout(p) \in SUBSET Players
        BY ClosedHasPartners DEF ClosedByLogout
      <4> QED
        BY <3>3, <4>1 DEF Logout, Placed
    <3> QED
      BY <1>2, <3>1, <3>2, <3>3
  <2> QED
    BY <2>1, OffersReset
<1> QED
  BY <1>1, <1>2

\* Whatever is done next leaves the offers good.
LEMMA OffersNext ==
    ASSUME Inv, Placed, Offers, [Next]_vars
    PROVE  Placed' /\ Offers'
<1>1. ASSUME NEW p \in Players,
             \/ Login(p) \/ Logout(p) \/ PlayerAcceptTrade(p) \/ ExchangeFails(p)
             \/ PlayerCloseTrade(p)
      PROVE  Placed' /\ Offers'
  BY <1>1, OffersStay
<1>2. ASSUME NEW p \in Players, NEW q \in Players, NEW i \in Items, PlayerRequestTrade(p, q, i)
      PROVE  Placed' /\ Offers'
  BY <1>2, OffersRequested
<1>3. ASSUME NEW p \in Players, Exchange(p) PROVE Placed' /\ Offers'
  BY <1>3, OffersExchanged
<1>4. ASSUME NEW p \in Players, NEW i \in Items, NEW to \in Players \cup Bags \cup {Ground},
             PlayerMoveItem(p, i, to)
      PROVE  Placed' /\ Offers'
  BY <1>4, OffersMoved
<1>5. CASE UNCHANGED vars
  BY <1>5 DEF vars, Placed, Offers, NothingOfferedTwice, OfferIsAsShown, InReach
<1> QED
  BY <1>1, <1>2, <1>3, <1>4, <1>5 DEF Next

\* Whatever is done next gives nothing for nothing.
LEMMA GivenNext ==
    ASSUME Inv, Placed, Offers, [Next]_vars, NEW p \in Players, NEW q \in Players, Given(p, q)
    PROVE  Returned(p, q)
<1>1. p = q => Returned(p, q)
  BY DEF Given, Returned
<1>2. SUFFICES p = q \/ Returned(p, q)
  BY <1>1
<1>3. CASE place' = place
  <2>1. Ancestors(place', tradeItem[p]) = Ancestors(place, tradeItem[p])
    BY <1>3
  <2> QED
    BY <2>1, GivenNot
<1>4. ASSUME NEW r \in Players,
             \/ Login(r) \/ Logout(r) \/ PlayerAcceptTrade(r) \/ ExchangeFails(r)
             \/ PlayerCloseTrade(r)
      PROVE  place' = place
  BY <1>4, OffersStay
<1>5. ASSUME NEW r \in Players, NEW s \in Players, NEW i \in Items, PlayerRequestTrade(r, s, i)
      PROVE  place' = place
  BY <1>5 DEF PlayerRequestTrade
<1>6. ASSUME NEW r \in Players, Exchange(r) PROVE p = q \/ Returned(p, q)
  BY <1>6, GivenExchanged
<1>7. ASSUME NEW r \in Players, NEW i \in Items, NEW to \in Players \cup Bags \cup {Ground},
             PlayerMoveItem(r, i, to)
      PROVE  p = q
  BY <1>7, GivenMoved
<1>8. CASE UNCHANGED vars
  BY <1>3, <1>8 DEF vars
<1> QED
  BY <1>3, <1>4, <1>5, <1>6, <1>7, <1>8 DEF Next

-----------------------------------------------------------------------------

\* Placed and Offers hold in every state.
THEOREM OffersInductive == Spec => [](Placed /\ Offers)
<1>1. Init => Placed /\ Offers
  <2> SUFFICES ASSUME Init PROVE Placed /\ Offers
    OBVIOUS
  <2>1. /\ place \in [Items -> Players \cup {Ground}]
        /\ \A p \in Players : tradeItem[p] = NoItem /\ shown[p] = {}
        /\ online = {} /\ shown \in [Players -> SUBSET Items]
    BY DEF Init
  <2>2. Acyclic(place)
    <3>1. ASSUME NEW i \in Items PROVE i \notin Ancestors(place, i)
      <4>1. place[i] \notin Items /\ place[i] \notin Bags
        BY <2>1, TradeAssumption
      <4> QED
        BY <4>1, AncestorsNested
    <3> QED
      BY <3>1 DEF Acyclic
  <2>3. Placed
    BY <2>1, <2>2 DEF Placed, Places
  <2>4. Offers
    BY <2>1 DEF Offers, NothingOfferedTwice, OfferIsAsShown
  <2> QED
    BY <2>3, <2>4
<1>2. Inv /\ Placed /\ Offers /\ [Next]_vars => Placed' /\ Offers'
  BY OffersNext
<1> QED
  BY <1>1, <1>2, Inductive, PTL DEF Spec

\* Every variable keeps its type, and no item is ever in itself, at any depth.
THEOREM TypeCorrect == Spec => []TypeOK
<1>1. Inv /\ Placed => TypeOK
  BY DEF Inv, Typed, Placed, Places, Acyclic, TypeOK
<1> QED
  BY <1>1, Inductive, OffersInductive, PTL

\* No item is offered twice, on its own or inside an offered container.
THEOREM OfferedOnce == Spec => []NothingOfferedTwice
  BY OffersInductive, PTL DEF Offers

\* While an offer stands, its item is in reach of the player and holds what it was shown to hold.
THEOREM ShownIsKept == Spec => []OfferIsAsShown
  BY OffersInductive, PTL DEF Offers

\* An offered item that goes to the partner is paid for in the same step.
THEOREM NothingForNothing == Spec => BothOrNeither
<1>1. Inv /\ Placed /\ Offers /\ [Next]_vars
      => [\A p, q \in Players : Given(p, q) => Returned(p, q)]_vars
  BY GivenNext
<1>2. [\A p, q \in Players : Given(p, q) => Returned(p, q)]_vars
      => [\A p, q \in Players :
             /\ tradePartner[p] = q /\ tradeItem[p] # NoItem
             /\ p \in Ancestors(place, tradeItem[p])
             /\ q \in Ancestors(place', tradeItem[p])
             => tradeItem[q] # NoItem /\ p \in Ancestors(place', tradeItem[q])]_vars
  BY DEF Given, Returned
<1> QED
  BY <1>1, <1>2, Inductive, OffersInductive, PTL DEF Spec, BothOrNeither
=============================================================================
