---------------------------- MODULE MarketProofs ----------------------------
(***************************************************************************)
(* For every number of players, offers, amounts and prices, and every way  *)
(* in which accepting, cancelling and expiring an offer mix: nothing is    *)
(* given away twice, and neither goods nor money appear or disappear but   *)
(* for the anomalies that the invariants name.                             *)
(*                                                                         *)
(* A sum is the number of its units, a cardinality, so that replacing one  *)
(* term needs no induction.  The invariant says that every row an expiry   *)
(* query returned, whenever it ran, is that of an offer which has since at *)
(* most been reduced.  Then each handler moves as much between the players *)
(* and one offer as the one loses and the other gains.                     *)
(***************************************************************************)
EXTENDS Market, FiniteSetTheorems, TLAPS

-----------------------------------------------------------------------------
(* Sums *)

Unit(f, x) == {x} \X (1 .. f[x])

Units(f) == UNION {Unit(f, x) : x \in DOMAIN f}

\* A term is as many units.
LEMMA UnitFinite ==
    ASSUME NEW f, NEW x, f[x] \in Nat
    PROVE  IsFiniteSet(Unit(f, x)) /\ Cardinality(Unit(f, x)) = f[x]
<1> DEFINE A == {x}
           B == 1 .. f[x]
<1>1. IsFiniteSet(A) /\ Cardinality(A) = 1
  BY FS_Singleton
<1>2. IsFiniteSet(B) /\ Cardinality(B) = f[x]
  BY FS_Interval
<1>3. Unit(f, x) = A \X B
  BY DEF Unit
<1> HIDE DEF A, B
<1>4. IsFiniteSet(A \X B) /\ Cardinality(A \X B) = Cardinality(A) * Cardinality(B)
  BY <1>1, <1>2, FS_Product
<1> QED
  BY <1>1, <1>2, <1>3, <1>4

\* A finite sum of naturals is a natural.
LEMMA SumType ==
    ASSUME NEW S, IsFiniteSet(S), NEW f \in [S -> Nat]
    PROVE  IsFiniteSet(Units(f)) /\ Sum(f) \in Nat /\ Sum(f) = Cardinality(Units(f))
<1> DEFINE parts == {Unit(f, x) : x \in S}
           g == [x \in S |-> Unit(f, x)]
<1>1. g \in Surjection(S, parts)
  BY DEF Surjection
<1>2. IsFiniteSet(parts)
  <2> HIDE DEF g, parts
  <2> QED
    BY <1>1, FS_Surjection
<1>3. \A part \in parts : IsFiniteSet(part)
  <2>1. ASSUME NEW x \in S PROVE IsFiniteSet(Unit(f, x))
    <3>1. f[x] \in Nat
      OBVIOUS
    <3> QED
      BY <3>1, UnitFinite
  <2> QED
    BY <2>1
<1>4. Units(f) = UNION parts
  BY DEF Units
<1>5. IsFiniteSet(UNION parts)
  <2> HIDE DEF parts
  <2> QED
    BY <1>2, <1>3, FS_UNION
<1>6. Sum(f) = Cardinality(Units(f))
  BY DEF Sum, Units, Unit
<1> QED
  BY <1>4, <1>5, <1>6, FS_CardinalityType

\* One term is replaced.
LEMMA SumUpdate ==
    ASSUME NEW S, IsFiniteSet(S), NEW f \in [S -> Nat], NEW g \in [S -> Nat], NEW x \in S,
           \A y \in S : y # x => g[y] = f[y]
    PROVE  /\ Sum(f) \in Nat /\ Sum(g) \in Nat
           /\ Sum(g) + f[x] = Sum(f) + g[x]
<1> DEFINE rest == UNION {Unit(f, y) : y \in S \ {x}}
<1>1. Units(f) = rest \cup Unit(f, x)
  BY DEF Units
<1>2. \A y \in S : y # x => Unit(g, y) = Unit(f, y)
  BY DEF Unit
<1>3. {Unit(g, y) : y \in S \ {x}} = {Unit(f, y) : y \in S \ {x}}
  BY <1>2
<1>4. Units(g) = (UNION {Unit(g, y) : y \in S \ {x}}) \cup Unit(g, x)
  BY DEF Units
<1>5. Units(g) = rest \cup Unit(g, x)
  BY <1>3, <1>4
<1>6. \A u \in rest : u \notin Unit(f, x) /\ u \notin Unit(g, x)
  BY DEF Unit
<1> HIDE DEF rest
<1>7. rest \cap Unit(f, x) = {} /\ rest \cap Unit(g, x) = {}
  BY <1>6
<1>8. /\ IsFiniteSet(Units(f)) /\ Sum(f) \in Nat /\ Sum(f) = Cardinality(Units(f))
      /\ IsFiniteSet(Units(g)) /\ Sum(g) \in Nat /\ Sum(g) = Cardinality(Units(g))
  BY SumType
<1>9. IsFiniteSet(rest) /\ Cardinality(rest) \in Nat
  <2>1. rest \in SUBSET Units(f)
    BY <1>1
  <2> QED
    BY <1>8, <2>1, FS_Subset, FS_CardinalityType
<1>10. /\ IsFiniteSet(Unit(f, x)) /\ Cardinality(Unit(f, x)) = f[x]
       /\ IsFiniteSet(Unit(g, x)) /\ Cardinality(Unit(g, x)) = g[x]
  <2>1. f[x] \in Nat /\ g[x] \in Nat
    OBVIOUS
  <2> QED
    BY <2>1, UnitFinite
<1>11. ASSUME NEW h, IsFiniteSet(h), rest \cap h = {}
       PROVE  Cardinality(rest \cup h) = Cardinality(rest) + Cardinality(h)
  <2>1. Cardinality(rest \cup h) = Cardinality(rest) + Cardinality(h) - Cardinality(rest \cap h)
    BY <1>9, <1>11, FS_Union
  <2>2. Cardinality(rest \cap h) = 0
    BY <1>11, FS_EmptySet
  <2>3. Cardinality(h) \in Nat
    BY <1>11, FS_CardinalityType
  <2> QED
    BY <1>9, <2>1, <2>2, <2>3
<1>12. Cardinality(Units(f)) = Cardinality(rest) + f[x]
  BY <1>1, <1>7, <1>10, <1>11
<1>13. Cardinality(Units(g)) = Cardinality(rest) + g[x]
  BY <1>5, <1>7, <1>10, <1>11
<1>14. f[x] \in Nat /\ g[x] \in Nat
  OBVIOUS
<1> QED
  BY <1>8, <1>9, <1>12, <1>13, <1>14

\* The sum of nothing.
LEMMA SumZero ==
    ASSUME NEW f, \A x \in DOMAIN f : f[x] = 0
    PROVE  Sum(f) = 0
<1>1. \A x \in DOMAIN f : {x} \X (1 .. f[x]) = {}
  OBVIOUS
<1>2. UNION {{x} \X (1 .. f[x]) : x \in DOMAIN f} = {}
  BY <1>1
<1> QED
  BY <1>2, FS_EmptySet DEF Sum

-----------------------------------------------------------------------------
(* The invariant *)

Offer == [owner : Players, sale : BOOLEAN, kind : Kinds, amount : Amounts, price : Nat \ {0}]

Row == [id : Ids, owner : Players, sale : BOOLEAN, kind : Kinds, amount : Amounts,
        price : Nat \ {0}]

\* Every variable has its type; no account is overdrawn.
Typed ==
    /\ inMarket \subseteq Players
    /\ bank \in [Players -> Nat] /\ cash \in [Players -> Nat]
    /\ goods \in [Kinds -> [Players -> Nat]] /\ inbox \in [Kinds -> [Players -> Nat]]
    /\ nextId \in 1 .. MaxOffers + 1
    /\ DOMAIN offers \subseteq 1 .. nextId - 1 /\ offers \in [DOMAIN offers -> Offer]
    /\ overdue \subseteq DOMAIN offers
    /\ fees \in Nat
    /\ settled \in [Ids -> [created : Nat, accepted : Nat, returned : Nat]]
    /\ anomalies \subseteq Anomalies

\* The constants have their types; the 32 bit range is a positive number of values.
LEMMA Parameters ==
    /\ 2 ^ PriceBits \in Nat \ {0}
    /\ Ids \subseteq Nat /\ IsFiniteSet(Ids)
    /\ Amounts \subseteq Nat \ {0}
    /\ FeeDivisor \in Nat \ {0} /\ FeeMin \in Nat /\ FeeMax \in Nat /\ MaxOffers \in Nat \ {0}
<1>1. PriceBits \in Nat /\ MaxOffers \in Nat \ {0} /\ MaxAmount \in Nat
      /\ FeeDivisor \in Nat \ {0} /\ FeeMin \in Nat /\ FeeMax \in Nat
  BY MarketAssumption
<1> DEFINE bits == 1 .. PriceBits
<1>2. IsFiniteSet(bits) /\ Cardinality(bits) = PriceBits
  BY <1>1, FS_Interval
<1> HIDE DEF bits
<1>3. /\ IsFiniteSet(SUBSET bits)
      /\ Cardinality(SUBSET bits) = 2 ^ PriceBits
  BY <1>2, FS_SUBSET
<1>4. Cardinality(SUBSET bits) \in Nat
  BY <1>3, FS_CardinalityType
<1>5. Cardinality(SUBSET bits) # 0
  <2>1. SUBSET bits # {}
    OBVIOUS
  <2> QED
    BY <1>3, <2>1, FS_EmptySet
<1>6. IsFiniteSet(Ids)
  BY <1>1, FS_Interval DEF Ids
<1> QED
  BY <1>1, <1>3, <1>4, <1>5, <1>6 DEF Ids, Amounts

\* What goods cost and the fee are naturals, wrapped or not.
LEMMA TotalType ==
    ASSUME NEW price \in Nat, NEW amount \in Nat
    PROVE  /\ Total(price, amount) \in Nat /\ WideTotal(price, amount) \in Nat
           /\ Fee(price, amount) \in Nat
<1>1. price * amount \in Nat
  OBVIOUS
<1> DEFINE product == price * amount
<1> HIDE DEF product
<1>2. product % 2 ^ PriceBits \in Nat
  BY <1>1, Parameters DEF product
<1>3. product \div FeeDivisor \in Nat
  BY <1>1, Parameters DEF product
<1> QED
  BY <1>1, <1>2, <1>3, Parameters DEF product, Total, WideTotal, Fee

\* removeMoney() takes the money, or it takes it and once more from the bank.
LEMMA MoneyRemoved ==
    ASSUME NEW c \in Nat, NEW b \in Nat, NEW money \in Nat, money <= c + b
    PROVE  /\ RemoveMoney(c, b, money).cash \in Nat /\ RemoveMoney(c, b, money).bank \in Nat
           /\ RemoveMoney(c, b, money).twice \in BOOLEAN
           /\ RemoveMoney(c, b, money).cash + RemoveMoney(c, b, money).bank + money <= c + b
           /\ ~RemoveMoney(c, b, money).twice =>
                 RemoveMoney(c, b, money).cash + RemoveMoney(c, b, money).bank + money = c + b
<1>1. CASE c < money
  BY <1>1 DEF RemoveMoney
<1>2. CASE ~(c < money) /\ money > 0 /\ b >= money
  BY <1>2 DEF RemoveMoney
<1>3. CASE ~(c < money) /\ ~(money > 0 /\ b >= money)
  BY <1>3 DEF RemoveMoney
<1> QED
  BY <1>1, <1>2, <1>3

\* One offer is created, reduced or removed; the others stay.
OneOffer(id) ==
    /\ id \in Ids
    /\ \A j \in Ids \ {id} : /\ j \in DOMAIN offers' <=> j \in DOMAIN offers
                             /\ j \in DOMAIN offers => offers'[j] = offers[j]

\* The table after a row is created: its types, and what is new.  Likewise after
LEMMA OfferCreated ==
    ASSUME Typed, NEW p \in Players, NEW sale \in BOOLEAN, NEW kind \in Kinds,
           NEW amount \in Amounts, NEW price \in Nat \ {0}, NEW ok \in BOOLEAN,
           nextId <= MaxOffers, CreateOffer(p, sale, kind, amount, price, ok)
    PROVE  /\ nextId \in Ids /\ OneOffer(nextId) /\ nextId' = nextId + 1
           /\ nextId \notin DOMAIN offers
           /\ DOMAIN offers' \subseteq 1 .. nextId' - 1 /\ offers' \in [DOMAIN offers' -> Offer]
           /\ DOMAIN offers \subseteq DOMAIN offers'
           /\ ~ok => offers' = offers /\ settled' = settled
           /\ ok => /\ nextId \in DOMAIN offers'
                    /\ offers'[nextId] = [owner |-> p, sale |-> sale, kind |-> kind,
                                          amount |-> amount, price |-> price]
                    /\ settled' = [settled EXCEPT ![nextId].created = amount]
<1>1. /\ nextId \in Ids /\ nextId' = nextId + 1 /\ nextId \in Nat
      /\ DOMAIN offers \subseteq 1 .. nextId - 1 /\ MaxOffers \in Nat
  BY Parameters DEF Typed, CreateOffer, Ids
<1>2. nextId \notin DOMAIN offers
  BY <1>1
<1>3. CASE ~ok
  <2>1. offers' = offers /\ settled' = settled
    BY <1>3 DEF CreateOffer
  <2> QED
    BY <1>1, <1>2, <1>3, <2>1 DEF OneOffer, Typed
<1>4. CASE ok
  <2> DEFINE row == [owner |-> p, sale |-> sale, kind |-> kind, amount |-> amount, price |-> price]
  <2>1. /\ offers' = [i \in DOMAIN offers \cup {nextId} |-> IF i = nextId THEN row ELSE offers[i]]
        /\ settled' = [settled EXCEPT ![nextId].created = amount]
    BY <1>4 DEF CreateOffer
  <2>2. row \in Offer
    BY DEF Offer
  <2> HIDE DEF row
  <2>3. /\ DOMAIN offers' = DOMAIN offers \cup {nextId} /\ offers'[nextId] = row
        /\ \A i \in DOMAIN offers : offers'[i] = offers[i]
    BY <1>2, <2>1
  <2>4. offers' \in [DOMAIN offers' -> Offer]
    BY <2>1, <2>2 DEF Typed
  <2>5. OneOffer(nextId)
    BY <1>1, <2>3 DEF OneOffer
  <2>6. DOMAIN offers' \subseteq 1 .. nextId' - 1
    <3>1. nextId \in 1 .. nextId' - 1 /\ 1 .. nextId - 1 \subseteq 1 .. nextId' - 1
      BY <1>1 DEF Ids
    <3> QED
      BY <1>1, <2>3, <3>1
  <2> QED
    BY <1>1, <1>2, <1>4, <2>1, <2>3, <2>4, <2>5, <2>6 DEF row
<1> QED
  BY <1>3, <1>4

\* the deletion of a row,
LEMMA OfferRemoved ==
    ASSUME Typed, NEW id \in DOMAIN offers, offers' = Without(id)
    PROVE  /\ OneOffer(id) /\ DOMAIN offers' = DOMAIN offers \ {id}
           /\ offers' \in [DOMAIN offers' -> Offer]
<1>1. offers' = [j \in DOMAIN offers \ {id} |-> offers[j]]
  BY DEF Without, Restrict
<1>2. id \in Ids /\ offers \in [DOMAIN offers -> Offer]
  BY Parameters DEF Typed, Ids
<1> QED
  BY <1>1, <1>2 DEF OneOffer

\* the acceptance of an amount
LEMMA OfferReduced ==
    ASSUME Typed, NEW id \in DOMAIN offers, NEW amount \in Amounts, amount <= offers[id].amount,
           offers' = Reduced(id, amount)
    PROVE  /\ OneOffer(id) /\ DOMAIN offers' \subseteq DOMAIN offers
           /\ offers' \in [DOMAIN offers' -> Offer]
           /\ id \notin DOMAIN offers' => offers[id].amount = amount
           /\ id \in DOMAIN offers' =>
                 offers'[id] = [offers[id] EXCEPT !.amount = offers[id].amount - amount]
<1>1. CASE offers[id].amount = amount
  <2>1. offers' = Without(id)
    BY <1>1 DEF Reduced
  <2> QED
    BY <1>1, <2>1, OfferRemoved
<1>2. CASE offers[id].amount # amount
  <2>1. offers' = [offers EXCEPT ![id].amount = @ - amount]
    BY <1>2 DEF Reduced
  <2>2. /\ id \in Ids /\ offers \in [DOMAIN offers -> Offer] /\ offers[id] \in Offer
        /\ offers[id].amount \in Amounts /\ MaxAmount \in Nat
    <3>1. id \in Ids /\ MaxAmount \in Nat
      BY Parameters, MarketAssumption DEF Typed, Ids
    <3>2. offers \in [DOMAIN offers -> Offer] /\ offers[id] \in Offer
      BY DEF Typed
    <3> QED
      BY <3>1, <3>2 DEF Offer
  <2>3. offers[id].amount - amount \in Amounts
    BY <1>2, <2>2 DEF Amounts
  <2>4. [offers[id] EXCEPT !.amount = offers[id].amount - amount] \in Offer
    BY <2>2, <2>3 DEF Offer
  <2>5. /\ DOMAIN offers' = DOMAIN offers
        /\ offers'[id] = [offers[id] EXCEPT !.amount = offers[id].amount - amount]
        /\ \A j \in DOMAIN offers : j # id => offers'[j] = offers[j]
    BY <2>1
  <2>6. offers' \in [DOMAIN offers' -> Offer]
    BY <2>1, <2>2, <2>4
  <2> QED
    BY <2>2, <2>5, <2>6 DEF OneOffer
<1> QED
  BY <1>1, <1>2

\* One player's goods of a kind are changed.
LEMMA GoodsChanged ==
    ASSUME NEW f \in [Kinds -> [Players -> Nat]], NEW k \in Kinds, NEW p \in Players, NEW v \in Nat,
           NEW g, g = [f EXCEPT ![k][p] = v]
    PROVE  /\ g \in [Kinds -> [Players -> Nat]] /\ g[k] = [f[k] EXCEPT ![p] = v]
           /\ \A j \in Kinds : j # k => g[j] = f[j]
<1>1. f[k] \in [Players -> Nat]
  OBVIOUS
<1>2. [f[k] EXCEPT ![p] = v] \in [Players -> Nat]
  BY <1>1
<1>3. g = [f EXCEPT ![k] = [f[k] EXCEPT ![p] = v]]
  OBVIOUS
<1> QED
  BY <1>2, <1>3

\* The history of one offer is changed.
Record == [created : Nat, accepted : Nat, returned : Nat]

\* The history of one offer is changed.
LEMMA RecordChanged ==
    ASSUME Typed, NEW id \in Ids, NEW amount \in Nat
    PROVE  /\ [settled EXCEPT ![id].created = amount] \in [Ids -> Record]
           /\ Accepted(id, amount) \in [Ids -> Record] /\ Returned(id, amount) \in [Ids -> Record]
           /\ Accepted(id, amount)[id] = [settled[id] EXCEPT !.accepted = @ + amount]
           /\ Returned(id, amount)[id] = [settled[id] EXCEPT !.returned = @ + amount]
           /\ [settled EXCEPT ![id].created = amount][id] = [settled[id] EXCEPT !.created = amount]
           /\ \A j \in Ids : j # id =>
                 /\ [settled EXCEPT ![id].created = amount][j] = settled[j]
                 /\ Accepted(id, amount)[j] = settled[j]
                 /\ Returned(id, amount)[j] = settled[j]
<1>1. settled \in [Ids -> Record] /\ settled[id] \in Record
  BY DEF Typed, Record
<1>2. /\ [settled[id] EXCEPT !.created = amount] \in Record
      /\ [settled[id] EXCEPT !.accepted = @ + amount] \in Record
      /\ [settled[id] EXCEPT !.returned = @ + amount] \in Record
  BY <1>1 DEF Record
<1> HIDE DEF Record
<1>3. /\ [settled EXCEPT ![id].created = amount] =
             [settled EXCEPT ![id] = [settled[id] EXCEPT !.created = amount]]
      /\ Accepted(id, amount) =
             [settled EXCEPT ![id] = [settled[id] EXCEPT !.accepted = @ + amount]]
      /\ Returned(id, amount) =
             [settled EXCEPT ![id] = [settled[id] EXCEPT !.returned = @ + amount]]
  BY DEF Accepted, Returned
<1> QED
  BY <1>1, <1>2, <1>3

-----------------------------------------------------------------------------
(* The types, action by action *)

\* CreateOffer keeps the types of the table.
LEMMA CreateTyped ==
    ASSUME Typed, NEW p \in Players, NEW sale \in BOOLEAN, NEW kind \in Kinds,
           NEW amount \in Amounts, NEW price \in Nat \ {0}, NEW ok \in BOOLEAN,
           nextId <= MaxOffers, CreateOffer(p, sale, kind, amount, price, ok),
           overdue' = overdue
    PROVE  /\ nextId' \in 1 .. MaxOffers + 1
           /\ DOMAIN offers' \subseteq 1 .. nextId' - 1 /\ offers' \in [DOMAIN offers' -> Offer]
           /\ overdue' \subseteq DOMAIN offers'
           /\ settled' \in [Ids -> Record]
<1>1. /\ nextId \in Ids /\ nextId' = nextId + 1
      /\ DOMAIN offers' \subseteq 1 .. nextId' - 1 /\ offers' \in [DOMAIN offers' -> Offer]
      /\ DOMAIN offers \subseteq DOMAIN offers'
  BY OfferCreated
<1>2. amount \in Nat
  BY Parameters
<1>3. [settled EXCEPT ![nextId].created = amount] \in [Ids -> Record]
  BY <1>1, <1>2, RecordChanged
<1>4. settled \in [Ids -> Record]
  BY DEF Typed, Record
<1>5. settled' \in [Ids -> Record]
  BY <1>3, <1>4 DEF CreateOffer
<1>6. nextId' \in 1 .. MaxOffers + 1
  BY <1>1, Parameters DEF Ids
<1> QED
  BY <1>1, <1>5, <1>6 DEF Typed

\* A sell offer is created,
LEMMA TypedSell ==
    ASSUME Typed, NEW p \in Players, NEW kind \in Kinds, NEW amount \in Amounts,
           NEW price \in Nat \ {0}, NEW ok \in BOOLEAN,
           PlayerCreateSellOffer(p, kind, amount, price, ok)
    PROVE  Typed'
<1> DEFINE fee == Fee(price, amount)
           paid == RemoveMoney(cash[p], bank[p], fee)
<1>1. /\ fee <= bank[p] + cash[p] /\ HasGoods(p, kind, amount) /\ nextId <= MaxOffers
      /\ goods' = [goods EXCEPT ![kind][p] = goods[kind][p] - amount]
      /\ cash' = [cash EXCEPT ![p] = paid.cash] /\ bank' = [bank EXCEPT ![p] = paid.bank]
      /\ fees' = fees + fee
      /\ CreateOffer(p, TRUE, kind, amount, price, ok)
      /\ UNCHANGED <<inMarket, inbox, overdue>>
  BY DEF PlayerCreateSellOffer
<1>2. anomalies' = anomalies \cup Ignored(ok) \cup (IF paid.twice THEN {"charged_twice"} ELSE {})
  BY DEF PlayerCreateSellOffer
<1>3. /\ bank[p] \in Nat /\ cash[p] \in Nat /\ goods[kind][p] \in Nat
      /\ amount \in Nat /\ price \in Nat /\ fees \in Nat
  BY Parameters DEF Typed
<1>4. fee \in Nat
  BY <1>3, TotalType
<1> HIDE DEF fee
<1>5. fee <= cash[p] + bank[p]
  BY <1>1, <1>3, <1>4
<1>6. paid.cash \in Nat /\ paid.bank \in Nat
  BY <1>3, <1>4, <1>5, MoneyRemoved
<1>7. goods[kind][p] - amount \in Nat
  BY <1>1, <1>3 DEF HasGoods
<1>8. goods' \in [Kinds -> [Players -> Nat]]
  BY <1>1, <1>7, GoodsChanged DEF Typed
<1>9. cash' \in [Players -> Nat] /\ bank' \in [Players -> Nat] /\ fees' \in Nat
  BY <1>1, <1>3, <1>4, <1>6 DEF Typed
<1>10. anomalies' \subseteq Anomalies
  BY <1>2 DEF Typed, Anomalies, Ignored
<1> DEFINE sale == TRUE
<1>11. sale \in BOOLEAN /\ CreateOffer(p, sale, kind, amount, price, ok)
  BY <1>1
<1> HIDE DEF sale
<1>12. nextId <= MaxOffers /\ overdue' = overdue
  BY <1>1
<1>13. /\ nextId' \in 1 .. MaxOffers + 1
       /\ DOMAIN offers' \subseteq 1 .. nextId' - 1 /\ offers' \in [DOMAIN offers' -> Offer]
       /\ overdue' \subseteq DOMAIN offers'
       /\ settled' \in [Ids -> Record]
  BY <1>11, <1>12, CreateTyped
<1> QED
  BY <1>1, <1>8, <1>9, <1>10, <1>13 DEF Typed, Record

\* or a buy offer.
LEMMA TypedBuy ==
    ASSUME Typed, NEW p \in Players, NEW kind \in Kinds, NEW amount \in Amounts,
           NEW price \in Nat \ {0}, NEW ok \in BOOLEAN,
           PlayerCreateBuyOffer(p, kind, amount, price, ok)
    PROVE  Typed'
<1> DEFINE fee == Fee(price, amount)
           cost == BuyPrice(price, amount)
           paid == RemoveMoney(cash[p], bank[p], cost)
<1>1. /\ cost <= cash[p] + bank[p] /\ nextId <= MaxOffers
      /\ cash' = [cash EXCEPT ![p] = paid.cash] /\ bank' = [bank EXCEPT ![p] = paid.bank]
      /\ fees' = fees + fee
      /\ CreateOffer(p, FALSE, kind, amount, price, ok)
      /\ UNCHANGED <<inMarket, goods, inbox, overdue>>
  BY DEF PlayerCreateBuyOffer
<1>2. anomalies' = anomalies \cup Ignored(ok) \cup (IF paid.twice THEN {"charged_twice"} ELSE {})
                   \cup (IF WrapsAt(price, amount) THEN {"wrapped"} ELSE {})
  BY DEF PlayerCreateBuyOffer
<1>3. /\ bank[p] \in Nat /\ cash[p] \in Nat
      /\ amount \in Nat /\ price \in Nat /\ fees \in Nat
  BY Parameters DEF Typed
<1>4. fee \in Nat /\ cost \in Nat
  <2>1. Fee(price, amount) \in Nat /\ Total(price, amount) \in Nat
    BY <1>3, TotalType
  <2> QED
    BY <2>1 DEF BuyPrice
<1> HIDE DEF fee, cost
<1>6. paid.cash \in Nat /\ paid.bank \in Nat
  BY <1>1, <1>3, <1>4, MoneyRemoved
<1>9. cash' \in [Players -> Nat] /\ bank' \in [Players -> Nat] /\ fees' \in Nat
  BY <1>1, <1>3, <1>4, <1>6 DEF Typed
<1>10. anomalies' \subseteq Anomalies
  BY <1>2 DEF Typed, Anomalies, Ignored
<1> DEFINE sale == FALSE
<1>11. sale \in BOOLEAN /\ CreateOffer(p, sale, kind, amount, price, ok)
  BY <1>1
<1> HIDE DEF sale
<1>12. nextId <= MaxOffers /\ overdue' = overdue
  BY <1>1
<1>13. /\ nextId' \in 1 .. MaxOffers + 1
       /\ DOMAIN offers' \subseteq 1 .. nextId' - 1 /\ offers' \in [DOMAIN offers' -> Offer]
       /\ overdue' \subseteq DOMAIN offers'
       /\ settled' \in [Ids -> Record]
  BY <1>11, <1>12, CreateTyped
<1> QED
  BY <1>1, <1>9, <1>10, <1>13 DEF Typed, Record

\* What is known of a row that is there
LEMMA OfferType ==
    ASSUME Typed, NEW id \in DOMAIN offers
    PROVE  /\ id \in Ids /\ offers[id] \in Offer
           /\ offers[id].owner \in Players /\ offers[id].sale \in BOOLEAN
           /\ offers[id].kind \in Kinds
           /\ offers[id].amount \in Nat \ {0} /\ offers[id].amount \in Amounts
           /\ offers[id].price \in Nat \ {0}
<1>1. id \in Ids
  BY Parameters DEF Typed, Ids
<1>2. offers[id] \in Offer
  BY DEF Typed
<1> QED
  BY <1>1, <1>2, Parameters DEF Offer

\* One account differs, and so do the sums.
LEMMA AccountSum ==
    ASSUME NEW f \in [Players -> Nat], NEW g \in [Players -> Nat], NEW p \in Players,
           \A q \in Players : q # p => g[q] = f[q]
    PROVE  Sum(f) \in Nat /\ Sum(g) \in Nat /\ Sum(g) + f[p] = Sum(f) + g[p]
  BY SumUpdate, MarketAssumption

\* One player's goods of a kind are changed.
LEMMA GoodsSum ==
    ASSUME NEW f \in [Kinds -> [Players -> Nat]], NEW g \in [Kinds -> [Players -> Nat]],
           NEW k \in Kinds, NEW p \in Players,
           \A q \in Players : q # p => g[k][q] = f[k][q]
    PROVE  Sum(f[k]) \in Nat /\ Sum(g[k]) \in Nat /\ Sum(g[k]) + f[k][p] = Sum(f[k]) + g[k][p]
<1> DEFINE fk == f[k]
           gk == g[k]
<1>1. fk \in [Players -> Nat] /\ gk \in [Players -> Nat]
      /\ \A q \in Players : q # p => gk[q] = fk[q]
  OBVIOUS
<1> HIDE DEF fk, gk
<1>3. Sum(fk) \in Nat /\ Sum(gk) \in Nat /\ Sum(gk) + fk[p] = Sum(fk) + gk[p]
  BY <1>1, AccountSum
<1> QED
  BY <1>3 DEF fk, gk

\* What all players have of a kind, in the depot or on the account and in the inbox
Owned(k) == Sum(goods[k]) + Sum(inbox[k])

\* These are sums of naturals.
LEMMA OwnedType ==
    ASSUME Typed, NEW k \in Kinds
    PROVE  Sum(goods[k]) \in Nat /\ Sum(inbox[k]) \in Nat /\ Owned(k) \in Nat
<1> DEFINE f == goods[k]
           g == inbox[k]
<1>1. f \in [Players -> Nat] /\ g \in [Players -> Nat]
  BY DEF Typed
<1>2. IsFiniteSet(Players)
  BY MarketAssumption
<1> HIDE DEF f, g
<1>3. Sum(f) \in Nat /\ Sum(g) \in Nat
  BY <1>1, <1>2, SumType
<1> QED
  BY <1>3 DEF f, g, Owned

\* g is f but for one entry, which is v.
GoodsChange(f, g, k, p, v) ==
    /\ g \in [Kinds -> [Players -> Nat]]
    /\ Sum(f[k]) \in Nat /\ Sum(g[k]) \in Nat
    /\ Sum(g[k]) + f[k][p] = Sum(f[k]) + v
    /\ g[k][p] = v
    /\ \A q \in Players : q # p => g[k][q] = f[k][q]
    /\ \A j \in Kinds : j # k => g[j] = f[j]

\* An assignment to one entry is such a change.
LEMMA GoodsUpdate ==
    ASSUME NEW f \in [Kinds -> [Players -> Nat]], NEW k \in Kinds, NEW p \in Players, NEW v \in Nat
    PROVE  GoodsChange(f, [f EXCEPT ![k][p] = v], k, p, v)
<1> DEFINE g == [f EXCEPT ![k][p] = v]
<1>1. g \in [Kinds -> [Players -> Nat]] /\ g[k] = [f[k] EXCEPT ![p] = v]
      /\ \A j \in Kinds : j # k => g[j] = f[j]
  <2>1. g = [f EXCEPT ![k][p] = v]
    OBVIOUS
  <2> HIDE DEF g
  <2> QED
    BY <2>1, GoodsChanged
<1> HIDE DEF g
<1>2. f[k] \in [Players -> Nat]
  OBVIOUS
<1>3. g[k][p] = v /\ \A q \in Players : q # p => g[k][q] = f[k][q]
  BY <1>1, <1>2
<1>4. Sum(f[k]) \in Nat /\ Sum(g[k]) \in Nat /\ Sum(g[k]) + f[k][p] = Sum(f[k]) + g[k][p]
  <2>1. g \in [Kinds -> [Players -> Nat]]
    BY <1>1
  <2> QED
    BY <1>3, <2>1, GoodsSum
<1>5. GoodsChange(f, g, k, p, v)
  BY <1>1, <1>3, <1>4 DEF GoodsChange
<1> QED
  BY <1>5 DEF g

\* Goods given to a player: the depot, the account or the inbox has so much more.
LEMMA GoodsDelivered ==
    ASSUME Typed, NEW p \in Players, NEW kind \in Kinds, NEW amount \in Nat,
           Delivered(p, kind, amount)
    PROVE  /\ goods' \in [Kinds -> [Players -> Nat]] /\ inbox' \in [Kinds -> [Players -> Nat]]
           /\ Owned(kind)' = Owned(kind) + amount
           /\ \A k \in Kinds : k # kind => Owned(k)' = Owned(k)
<1>1. /\ goods[kind][p] \in Nat /\ inbox[kind][p] \in Nat
      /\ goods \in [Kinds -> [Players -> Nat]] /\ inbox \in [Kinds -> [Players -> Nat]]
  BY DEF Typed
<1>2. CASE kind = "coin"
  <2>1. /\ goods' = [goods EXCEPT ![kind][p] = goods[kind][p] + amount] /\ inbox' = inbox
    BY <1>2 DEF Delivered
  <2> DEFINE v == goods[kind][p] + amount
  <2>2. v \in Nat
    BY <1>1
  <2>3. GoodsChange(goods, goods', kind, p, v)
    <3>1. goods' = [goods EXCEPT ![kind][p] = v]
      BY <2>1
    <3> HIDE DEF v
    <3>2. GoodsChange(goods, [goods EXCEPT ![kind][p] = v], kind, p, v)
      BY <1>1, <2>2, GoodsUpdate
    <3> QED
      BY <3>1, <3>2
  <2>4. Sum(goods'[kind]) = Sum(goods[kind]) + amount
    <3>1. /\ Sum(goods'[kind]) + goods[kind][p] = Sum(goods[kind]) + (goods[kind][p] + amount)
          /\ Sum(goods[kind]) \in Nat /\ Sum(goods'[kind]) \in Nat
      BY <2>3 DEF GoodsChange
    <3>2. goods[kind][p] \in Nat
      BY <1>1
    <3> QED
      BY <3>1, <3>2
  <2> QED
    BY <1>1, <2>1, <2>3, <2>4, OwnedType DEF Owned, GoodsChange
<1>3. CASE kind # "coin"
  <2>1. kind = "ware"
    BY <1>3 DEF Kinds
  <2>2. /\ inbox' = [inbox EXCEPT ![kind][p] = inbox[kind][p] + amount] /\ goods' = goods
    BY <1>3, <2>1 DEF Delivered
  <2> DEFINE v == inbox[kind][p] + amount
  <2>3. v \in Nat
    BY <1>1
  <2>4. GoodsChange(inbox, inbox', kind, p, v)
    <3>1. inbox' = [inbox EXCEPT ![kind][p] = v]
      BY <2>2
    <3> HIDE DEF v
    <3>2. GoodsChange(inbox, [inbox EXCEPT ![kind][p] = v], kind, p, v)
      BY <1>1, <2>3, GoodsUpdate
    <3> QED
      BY <3>1, <3>2
  <2>5. Sum(inbox'[kind]) = Sum(inbox[kind]) + amount
    <3>1. /\ Sum(inbox'[kind]) + inbox[kind][p] = Sum(inbox[kind]) + (inbox[kind][p] + amount)
          /\ Sum(inbox[kind]) \in Nat /\ Sum(inbox'[kind]) \in Nat
      BY <2>4 DEF GoodsChange
    <3>2. inbox[kind][p] \in Nat
      BY <1>1
    <3> QED
      BY <3>1, <3>2
  <2> QED
    BY <1>1, <2>2, <2>4, <2>5, OwnedType DEF Owned, GoodsChange
<1> QED
  BY <1>2, <1>3

\* Goods taken from a player and given to another one
LEMMA GoodsGiven ==
    ASSUME Typed, NEW p \in Players, NEW q \in Players, p # q, NEW kind \in Kinds,
           NEW amount \in Nat, amount <= goods[kind][p],
           IF kind = "coin"
           THEN /\ goods' = [goods EXCEPT !["coin"][p] = @ - amount, !["coin"][q] = @ + amount]
                /\ UNCHANGED inbox
           ELSE /\ goods' = [goods EXCEPT !["ware"][p] = @ - amount]
                /\ inbox' = [inbox EXCEPT !["ware"][q] = @ + amount]
    PROVE  /\ goods' \in [Kinds -> [Players -> Nat]] /\ inbox' \in [Kinds -> [Players -> Nat]]
           /\ \A k \in Kinds : Owned(k)' = Owned(k)
<1> DEFINE v == goods[kind][p] - amount
           mid == [goods EXCEPT ![kind][p] = v]
<1>1. /\ goods[kind][p] \in Nat /\ goods[kind][q] \in Nat /\ inbox[kind][q] \in Nat /\ v \in Nat
      /\ goods \in [Kinds -> [Players -> Nat]] /\ inbox \in [Kinds -> [Players -> Nat]]
      /\ Sum(inbox[kind]) \in Nat
  BY OwnedType DEF Typed
<1>2. GoodsChange(goods, mid, kind, p, v)
  <2> HIDE DEF v
  <2> QED
    BY <1>1, GoodsUpdate
<1>3. /\ mid[kind][q] = goods[kind][q] /\ mid \in [Kinds -> [Players -> Nat]]
      /\ v = goods[kind][p] - amount
  BY <1>2 DEF GoodsChange
<1>4. CASE kind = "coin"
  <2> DEFINE w == goods[kind][q] + amount
  <2>1. goods' = [mid EXCEPT ![kind][q] = w] /\ inbox' = inbox
    BY <1>1, <1>3, <1>4
  <2>2. w \in Nat /\ w = goods[kind][q] + amount
    BY <1>1
  <2> HIDE DEF mid, v, w
  <2>3. GoodsChange(mid, goods', kind, q, w)
    <3>1. GoodsChange(mid, [mid EXCEPT ![kind][q] = w], kind, q, w)
      BY <1>3, <2>2, GoodsUpdate
    <3> QED
      BY <2>1, <3>1
  <2>4. Sum(goods'[kind]) = Sum(goods[kind])
    <3>1. /\ Sum(mid[kind]) + goods[kind][p] = Sum(goods[kind]) + v
          /\ Sum(goods[kind]) \in Nat /\ Sum(mid[kind]) \in Nat
      BY <1>2 DEF GoodsChange
    <3>2. Sum(goods'[kind]) + mid[kind][q] = Sum(mid[kind]) + w /\ Sum(goods'[kind]) \in Nat
      BY <2>3 DEF GoodsChange
    <3>3. goods[kind][p] \in Nat /\ goods[kind][q] \in Nat /\ mid[kind][q] = goods[kind][q]
          /\ v = goods[kind][p] - amount /\ w = goods[kind][q] + amount
      BY <1>1, <1>3, <2>2
    <3> QED
      BY <3>1, <3>2, <3>3
  <2>5. \A k \in Kinds : k # kind => goods'[k] = goods[k]
    BY <1>2, <2>3 DEF GoodsChange
  <2> QED
    BY <1>1, <2>1, <2>3, <2>4, <2>5 DEF Owned, GoodsChange
<1>5. CASE kind # "coin"
  <2>1. kind = "ware"
    BY <1>5 DEF Kinds
  <2> DEFINE w == inbox[kind][q] + amount
  <2>2. goods' = mid /\ inbox' = [inbox EXCEPT ![kind][q] = w]
    BY <1>5, <2>1
  <2>3. w \in Nat /\ w = inbox[kind][q] + amount
    BY <1>1
  <2> HIDE DEF mid, v, w
  <2>4. GoodsChange(inbox, inbox', kind, q, w)
    <3>1. GoodsChange(inbox, [inbox EXCEPT ![kind][q] = w], kind, q, w)
      BY <1>1, <2>3, GoodsUpdate
    <3> QED
      BY <2>2, <3>1
  <2>5. Sum(goods'[kind]) + Sum(inbox'[kind]) = Sum(goods[kind]) + Sum(inbox[kind])
    <3>1. /\ Sum(goods'[kind]) + goods[kind][p] = Sum(goods[kind]) + v
          /\ Sum(goods[kind]) \in Nat /\ Sum(goods'[kind]) \in Nat
      BY <1>2, <2>2 DEF GoodsChange
    <3>2. Sum(inbox'[kind]) + inbox[kind][q] = Sum(inbox[kind]) + w /\ Sum(inbox'[kind]) \in Nat
      BY <2>4 DEF GoodsChange
    <3>3. goods[kind][p] \in Nat /\ inbox[kind][q] \in Nat /\ Sum(inbox[kind]) \in Nat
          /\ v = goods[kind][p] - amount /\ w = inbox[kind][q] + amount
      BY <1>1, <1>3, <2>3
    <3> QED
      BY <3>1, <3>2, <3>3
  <2>6. \A k \in Kinds : k # kind => goods'[k] = goods[k] /\ inbox'[k] = inbox[k]
    BY <1>2, <2>2, <2>4 DEF GoodsChange
  <2> QED
    BY <1>3, <2>2, <2>4, <2>5, <2>6 DEF Owned, GoodsChange
<1> QED
  BY <1>4, <1>5

AccountChange(f, g, p, v) ==
    /\ g \in [Players -> Nat]
    /\ Sum(f) \in Nat /\ Sum(g) \in Nat
    /\ Sum(g) + f[p] = Sum(f) + v
    /\ g[p] = v
    /\ \A q \in Players : q # p => g[q] = f[q]

\* The same for an account
LEMMA AccountUpdate ==
    ASSUME NEW f \in [Players -> Nat], NEW p \in Players, NEW v \in Nat
    PROVE  AccountChange(f, [f EXCEPT ![p] = v], p, v)
<1> DEFINE g == [f EXCEPT ![p] = v]
<1>1. g \in [Players -> Nat] /\ g[p] = v /\ \A q \in Players : q # p => g[q] = f[q]
  OBVIOUS
<1> HIDE DEF g
<1>2. Sum(f) \in Nat /\ Sum(g) \in Nat /\ Sum(g) + f[p] = Sum(f) + g[p]
  BY <1>1, AccountSum
<1>3. AccountChange(f, g, p, v)
  BY <1>1, <1>2 DEF AccountChange
<1> QED
  BY <1>3 DEF g

\* Money paid into a bank account
LEMMA BankCredited ==
    ASSUME Typed, NEW p \in Players, NEW money \in Nat,
           bank' = [bank EXCEPT ![p] = bank[p] + money]
    PROVE  /\ bank' \in [Players -> Nat] /\ Sum(bank) \in Nat
           /\ Sum(bank') = Sum(bank) + money
<1> DEFINE v == bank[p] + money
<1>1. v \in Nat /\ bank[p] \in Nat /\ bank \in [Players -> Nat]
  BY DEF Typed
<1>2. bank' = [bank EXCEPT ![p] = v]
  OBVIOUS
<1>3. v = bank[p] + money
  OBVIOUS
<1> HIDE DEF v
<1>4. AccountChange(bank, bank', p, v)
  <2>1. AccountChange(bank, [bank EXCEPT ![p] = v], p, v)
    BY <1>1, AccountUpdate
  <2> QED
    BY <1>2, <2>1
<1>5. /\ bank' \in [Players -> Nat] /\ Sum(bank) \in Nat /\ Sum(bank') \in Nat
      /\ Sum(bank') + bank[p] = Sum(bank) + v
  BY <1>4 DEF AccountChange
<1>6. Sum(bank') = Sum(bank) + money
  BY <1>1, <1>3, <1>5
<1> QED
  BY <1>5, <1>6

\* What removeMoney() makes of the accounts
LEMMA MoneyTaken ==
    ASSUME Typed, NEW p \in Players, NEW b \in Nat, NEW c \in Nat,
           bank' = [bank EXCEPT ![p] = b], cash' = [cash EXCEPT ![p] = c]
    PROVE  /\ bank' \in [Players -> Nat] /\ cash' \in [Players -> Nat]
           /\ Sum(bank) \in Nat /\ Sum(bank') \in Nat /\ Sum(cash) \in Nat /\ Sum(cash') \in Nat
           /\ Sum(bank') + bank[p] = Sum(bank) + b
           /\ Sum(cash') + cash[p] = Sum(cash) + c
<1>1. bank \in [Players -> Nat] /\ cash \in [Players -> Nat]
  BY DEF Typed
<1>2. AccountChange(bank, bank', p, b)
  <2>1. AccountChange(bank, [bank EXCEPT ![p] = b], p, b)
    BY <1>1, AccountUpdate
  <2> QED
    BY <2>1
<1>3. AccountChange(cash, cash', p, c)
  <2>1. AccountChange(cash, [cash EXCEPT ![p] = c], p, c)
    BY <1>1, AccountUpdate
  <2> QED
    BY <2>1
<1> QED
  BY <1>2, <1>3 DEF AccountChange

\* A player pays another one: what the accounts hold together stays.
LEMMA MoneyPaid ==
    ASSUME Typed, NEW p \in Players, NEW q \in Players, p # q, NEW price \in Nat,
           price <= bank[p] + cash[p],
           bank' = [bank EXCEPT ![p] = IF price <= @ THEN @ - price ELSE 0,
                                ![q] = @ + price],
           cash' = [cash EXCEPT ![p] = IF price <= bank[p] THEN @ ELSE @ - (price - bank[p])]
    PROVE  /\ bank' \in [Players -> Nat] /\ cash' \in [Players -> Nat]
           /\ Sum(bank') + Sum(cash') = Sum(bank) + Sum(cash)
<1> DEFINE b == IF price <= bank[p] THEN bank[p] - price ELSE 0
           c == IF price <= bank[p] THEN cash[p] ELSE cash[p] - (price - bank[p])
           w == bank[q] + price
           mid == [bank EXCEPT ![p] = b]
<1>1. /\ bank \in [Players -> Nat] /\ cash \in [Players -> Nat]
      /\ bank[p] \in Nat /\ bank[q] \in Nat /\ cash[p] \in Nat
  BY DEF Typed
<1>2. b \in Nat /\ c \in Nat /\ w \in Nat /\ b + c + price = bank[p] + cash[p]
  BY <1>1
<1>3. w = bank[q] + price
  OBVIOUS
<1>4. bank' = [mid EXCEPT ![q] = w] /\ cash' = [cash EXCEPT ![p] = c]
  BY <1>1
<1>5. mid = [bank EXCEPT ![p] = b]
  OBVIOUS
<1> HIDE DEF b, c, w, mid
<1>6. AccountChange(bank, mid, p, b)
  <2>1. AccountChange(bank, [bank EXCEPT ![p] = b], p, b)
    BY <1>1, <1>2, AccountUpdate
  <2> QED
    BY <1>5, <2>1
<1>7. AccountChange(mid, bank', q, w)
  <2>1. mid \in [Players -> Nat]
    BY <1>6 DEF AccountChange
  <2>2. AccountChange(mid, [mid EXCEPT ![q] = w], q, w)
    BY <1>2, <2>1, AccountUpdate
  <2> QED
    BY <1>4, <2>2
<1>8. AccountChange(cash, cash', p, c)
  <2>1. AccountChange(cash, [cash EXCEPT ![p] = c], p, c)
    BY <1>1, <1>2, AccountUpdate
  <2> QED
    BY <1>4, <2>1
<1>9. /\ Sum(mid) + bank[p] = Sum(bank) + b /\ Sum(bank') + mid[q] = Sum(mid) + w
      /\ Sum(cash') + cash[p] = Sum(cash) + c /\ mid[q] = bank[q]
      /\ Sum(bank) \in Nat /\ Sum(mid) \in Nat /\ Sum(bank') \in Nat
      /\ Sum(cash) \in Nat /\ Sum(cash') \in Nat
  BY <1>6, <1>7, <1>8 DEF AccountChange
<1>10. Sum(bank') + Sum(cash') = Sum(bank) + Sum(cash)
  BY <1>1, <1>2, <1>3, <1>9
<1> QED
  BY <1>7, <1>8, <1>10 DEF AccountChange

\* An offer is cancelled.
LEMMA TypedCancel ==
    ASSUME Typed, NEW p \in Players, NEW id \in Ids, NEW ok \in BOOLEAN,
           PlayerCancelMarketOffer(p, id, ok)
    PROVE  Typed'
<1> DEFINE o == offers[id]
<1>1. /\ id \in DOMAIN offers
      /\ offers' = IF ok THEN Without(id) ELSE offers
      /\ overdue' = IF ok THEN overdue \ {id} ELSE overdue
      /\ settled' = Returned(id, o.amount)
      /\ anomalies' = anomalies \cup Ignored(ok)
      /\ UNCHANGED <<inMarket, cash, nextId, fees>>
  BY DEF PlayerCancelMarketOffer
<1>2. IF o.sale THEN Delivered(p, o.kind, o.amount) /\ UNCHANGED bank
                ELSE /\ bank' = [bank EXCEPT ![p] = bank[p] + WideTotal(o.price, o.amount)]
                     /\ UNCHANGED <<goods, inbox>>
  BY DEF PlayerCancelMarketOffer
<1>3. /\ o.sale \in BOOLEAN /\ o.kind \in Kinds /\ o.amount \in Nat /\ o.price \in Nat
  BY <1>1, OfferType
<1> HIDE DEF o
<1>4. goods' \in [Kinds -> [Players -> Nat]] /\ inbox' \in [Kinds -> [Players -> Nat]]
  <2>1. CASE o.sale
    BY <1>2, <1>3, <2>1, GoodsDelivered
  <2>2. CASE ~o.sale
    BY <1>2, <2>2 DEF Typed
  <2> QED
    BY <2>1, <2>2
<1>5. bank' \in [Players -> Nat]
  <2>1. bank[p] + WideTotal(o.price, o.amount) \in Nat
    <3>1. WideTotal(o.price, o.amount) \in Nat
      BY <1>3, TotalType
    <3> QED
      BY <3>1 DEF Typed
  <2> QED
    BY <1>2, <2>1 DEF Typed
<1>6. settled' \in [Ids -> Record]
  BY <1>1, <1>3, RecordChanged
<1>7. /\ DOMAIN offers' \subseteq DOMAIN offers /\ offers' \in [DOMAIN offers' -> Offer]
      /\ overdue' \subseteq DOMAIN offers'
  <2>1. CASE ok
    BY <1>1, <2>1, OfferRemoved DEF Typed
  <2>2. CASE ~ok
    BY <1>1, <2>2 DEF Typed
  <2> QED
    BY <2>1, <2>2
<1>8. anomalies' \subseteq Anomalies
  BY <1>1 DEF Typed, Anomalies, Ignored
<1> QED
  BY <1>1, <1>4, <1>5, <1>6, <1>7, <1>8 DEF Typed, Record

\* What Settle makes of the table and its history
LEMMA SettleTyped ==
    ASSUME Typed, NEW id \in DOMAIN offers, NEW amount \in Amounts, NEW ok \in BOOLEAN,
           amount <= offers[id].amount, nextId' = nextId, Settle(id, amount, ok)
    PROVE  /\ DOMAIN offers' \subseteq 1 .. nextId' - 1 /\ offers' \in [DOMAIN offers' -> Offer]
           /\ overdue' \subseteq DOMAIN offers'
           /\ settled' \in [Ids -> Record]
           /\ anomalies' \subseteq Anomalies
<1>1. /\ offers' = IF ok THEN Reduced(id, amount) ELSE offers
      /\ overdue' = overdue \cap DOMAIN offers'
      /\ settled' = Accepted(id, amount)
      /\ anomalies' = anomalies \cup Ignored(ok)
                      \cup (IF WrapsAt(offers[id].price, amount) THEN {"wrapped"} ELSE {})
  BY DEF Settle
<1>2. id \in Ids /\ amount \in Nat
  BY OfferType, Parameters
<1>3. settled' \in [Ids -> Record]
  BY <1>1, <1>2, RecordChanged
<1>4. DOMAIN offers' \subseteq DOMAIN offers /\ offers' \in [DOMAIN offers' -> Offer]
  <2>1. CASE ok
    BY <1>1, <2>1, OfferReduced
  <2>2. CASE ~ok
    BY <1>1, <2>2 DEF Typed
  <2> QED
    BY <2>1, <2>2
<1>5. anomalies' \subseteq Anomalies
  BY <1>1 DEF Typed, Anomalies, Ignored
<1> QED
  BY <1>1, <1>3, <1>4, <1>5 DEF Typed

\* A buy offer is accepted,
LEMMA TypedAcceptBuy ==
    ASSUME Typed, NEW p \in Players, NEW id \in Ids, NEW amount \in Amounts, NEW ok \in BOOLEAN,
           PlayerAcceptBuyOffer(p, id, amount, ok)
    PROVE  Typed'
<1> DEFINE o == offers[id]
<1>1. /\ id \in DOMAIN offers /\ amount <= o.amount /\ o.owner # p /\ HasGoods(p, o.kind, amount)
      /\ bank' = [bank EXCEPT ![p] = bank[p] + Total(o.price, amount)]
      /\ Settle(id, amount, ok)
      /\ UNCHANGED <<inMarket, cash, nextId, fees>>
  BY DEF PlayerAcceptBuyOffer, MayAccept
<1>2. /\ o.owner \in Players /\ o.kind \in Kinds /\ o.amount \in Nat /\ o.price \in Nat
      /\ amount \in Nat
  BY <1>1, OfferType, Parameters
<1>3. /\ DOMAIN offers' \subseteq 1 .. nextId' - 1 /\ offers' \in [DOMAIN offers' -> Offer]
      /\ overdue' \subseteq DOMAIN offers'
      /\ settled' \in [Ids -> Record]
      /\ anomalies' \subseteq Anomalies
  BY <1>1, SettleTyped
<1>4. bank' \in [Players -> Nat]
  <2>1. Total(o.price, amount) \in Nat
    BY <1>2, TotalType
  <2> QED
    BY <1>1, <2>1 DEF Typed
<1>5. goods' \in [Kinds -> [Players -> Nat]] /\ inbox' \in [Kinds -> [Players -> Nat]]
  <2> DEFINE owner == o.owner
             kind == o.kind
  <2>1. /\ owner \in Players /\ p # owner /\ kind \in Kinds /\ amount <= goods[kind][p]
    BY <1>1, <1>2 DEF HasGoods
  <2>2. IF kind = "coin"
        THEN /\ goods' = [goods EXCEPT !["coin"][p] = @ - amount, !["coin"][owner] = @ + amount]
             /\ UNCHANGED inbox
        ELSE /\ goods' = [goods EXCEPT !["ware"][p] = @ - amount]
             /\ inbox' = [inbox EXCEPT !["ware"][owner] = @ + amount]
    BY DEF PlayerAcceptBuyOffer
  <2> HIDE DEF owner, kind
  <2> QED
    BY <1>2, <2>1, <2>2, GoodsGiven
<1> QED
  BY <1>1, <1>3, <1>4, <1>5 DEF Typed, Record

\* or a sell offer.
LEMMA TypedAcceptSell ==
    ASSUME Typed, NEW p \in Players, NEW id \in Ids, NEW amount \in Amounts, NEW ok \in BOOLEAN,
           PlayerAcceptSellOffer(p, id, amount, ok)
    PROVE  Typed'
<1> DEFINE o == offers[id]
           price == Total(o.price, amount)
<1>1. /\ id \in DOMAIN offers /\ amount <= o.amount /\ o.owner # p
      /\ price <= bank[p] + cash[p]
      /\ bank' = [bank EXCEPT ![p] = IF price <= @ THEN @ - price ELSE 0,
                              ![o.owner] = @ + price]
      /\ cash' = [cash EXCEPT ![p] = IF price <= bank[p] THEN @ ELSE @ - (price - bank[p])]
      /\ Delivered(p, o.kind, amount)
      /\ Settle(id, amount, ok)
      /\ UNCHANGED <<inMarket, nextId, fees>>
  BY DEF PlayerAcceptSellOffer, MayAccept
<1>2. /\ o.owner \in Players /\ o.kind \in Kinds /\ o.amount \in Nat /\ o.price \in Nat
      /\ amount \in Nat
  BY <1>1, OfferType, Parameters
<1>3. /\ DOMAIN offers' \subseteq 1 .. nextId' - 1 /\ offers' \in [DOMAIN offers' -> Offer]
      /\ overdue' \subseteq DOMAIN offers'
      /\ settled' \in [Ids -> Record]
      /\ anomalies' \subseteq Anomalies
  BY <1>1, SettleTyped
<1>4. price \in Nat
  BY <1>2, TotalType
<1> DEFINE owner == o.owner
<1>5. bank' = [bank EXCEPT ![p] = IF price <= @ THEN @ - price ELSE 0, ![owner] = @ + price]
      /\ owner \in Players /\ p # owner
  BY <1>1, <1>2
<1> HIDE DEF price, owner
<1>6. bank' \in [Players -> Nat] /\ cash' \in [Players -> Nat]
  BY <1>1, <1>4, <1>5, MoneyPaid
<1>7. goods' \in [Kinds -> [Players -> Nat]] /\ inbox' \in [Kinds -> [Players -> Nat]]
  BY <1>1, <1>2, GoodsDelivered
<1> QED
  BY <1>1, <1>3, <1>6, <1>7 DEF Typed, Record

\* A row is expired.
LEMMA TypedExpire ==
    ASSUME Typed, NEW r \in Row, NEW ok \in BOOLEAN, ExpireRow(r, ok)
    PROVE  Typed'
<1> DEFINE moved == MoveOfferToHistory(r.id, ok)
<1>1. /\ offers' = IF moved THEN Without(r.id) ELSE offers
      /\ overdue' = overdue \cap DOMAIN offers'
      /\ inbox' = IF moved /\ r.sale THEN [inbox EXCEPT ![r.kind][r.owner] = @ + r.amount]
                                     ELSE inbox
      /\ bank' = IF moved /\ ~r.sale
                 THEN [bank EXCEPT ![r.owner] = bank[r.owner] + WideTotal(r.price, r.amount)]
                 ELSE bank
      /\ settled' = IF moved THEN Returned(r.id, r.amount) ELSE settled
      /\ UNCHANGED <<inMarket, cash, goods, nextId, fees>>
  BY DEF ExpireRow
<1>2. anomalies' \subseteq Anomalies
  <2>1. anomalies' \subseteq anomalies \cup {"stale"}
    BY DEF ExpireRow
  <2> QED
    BY <2>1 DEF Typed, Anomalies
<1>3. /\ moved => r.id \in DOMAIN offers
      /\ r.id \in Ids /\ r.owner \in Players /\ r.kind \in Kinds
      /\ r.amount \in Nat /\ r.price \in Nat
  BY Parameters DEF MoveOfferToHistory, Row
<1> HIDE DEF moved
<1>4. settled' \in [Ids -> Record]
  BY <1>1, <1>3, RecordChanged DEF Typed, Record
<1>5. DOMAIN offers' \subseteq DOMAIN offers /\ offers' \in [DOMAIN offers' -> Offer]
  <2>1. CASE moved
    BY <1>1, <1>3, <2>1, OfferRemoved
  <2>2. CASE ~moved
    BY <1>1, <2>2 DEF Typed
  <2> QED
    BY <2>1, <2>2
<1>6. bank' \in [Players -> Nat]
  <2>1. WideTotal(r.price, r.amount) \in Nat
    BY <1>3, TotalType
  <2> QED
    BY <1>1, <1>3, <2>1 DEF Typed
<1>7. inbox' \in [Kinds -> [Players -> Nat]]
  BY <1>1, <1>3 DEF Typed
<1> QED
  BY <1>1, <1>2, <1>4, <1>5, <1>6, <1>7 DEF Typed, Record

-----------------------------------------------------------------------------
(* The table and the rows that the queries returned *)

\* The row is, or was, that of an offer, which has at most been reduced since.
Follows(r) ==
    /\ r \in Row /\ r.id < nextId
    /\ r.amount <= settled[r.id].created
    /\ r.id \in DOMAIN offers =>
          /\ offers[r.id].sale = r.sale /\ offers[r.id].kind = r.kind
          /\ offers[r.id].price = r.price /\ offers[r.id].amount <= r.amount

\* Ids that were not given out have no history, and no offer exceeds what was offered.
Counted ==
    /\ \A i \in Ids : i >= nextId =>
          settled[i].created = 0 /\ settled[i].accepted = 0 /\ settled[i].returned = 0
    /\ \A i \in DOMAIN offers : offers[i].amount <= settled[i].created

Pending ==
    /\ checks \in Seq([run : BOOLEAN, rows : SUBSET Row])
    /\ \A r \in rows : Follows(r)
    /\ \A i \in 1 .. Len(checks) : \A r \in checks[i].rows : Follows(r)

\* What every handler does to the table: existing offers shrink, or they end.
TableStep ==
    /\ nextId' \in Nat /\ nextId' >= nextId
    /\ \A i \in Ids : i < nextId =>
          /\ settled'[i].created = settled[i].created
          /\ i \in DOMAIN offers' =>
                /\ i \in DOMAIN offers
                /\ offers'[i].sale = offers[i].sale /\ offers'[i].kind = offers[i].kind
                /\ offers'[i].price = offers[i].price /\ offers'[i].amount <= offers[i].amount
    /\ \A i \in Ids : i >= nextId' => settled'[i] = settled[i]
    /\ \A i \in DOMAIN offers' : i >= nextId => offers'[i].amount <= settled'[i].created

\* A row that followed its offer still does.
LEMMA FollowsLater ==
    ASSUME Typed, Typed', NEW r, Follows(r), TableStep
    PROVE  Follows(r)'
<1>1. r \in Row /\ r.id \in Ids /\ r.id < nextId /\ r.amount \in Nat
  BY Parameters DEF Follows, Row
<1>2. r.amount <= settled'[r.id].created /\ r.id < nextId'
  BY <1>1, Parameters DEF Follows, TableStep, Typed
<1>3. ASSUME r.id \in DOMAIN offers'
      PROVE  /\ offers'[r.id].sale = r.sale /\ offers'[r.id].kind = r.kind
             /\ offers'[r.id].price = r.price /\ offers'[r.id].amount <= r.amount
  <2>1. /\ r.id \in DOMAIN offers
        /\ offers'[r.id].sale = offers[r.id].sale /\ offers'[r.id].kind = offers[r.id].kind
        /\ offers'[r.id].price = offers[r.id].price /\ offers'[r.id].amount <= offers[r.id].amount
    BY <1>1, <1>3 DEF TableStep
  <2>2. offers[r.id].amount \in Nat
    BY <2>1, OfferType
  <2>3. offers'[r.id] \in Offer /\ offers'[r.id].amount \in Nat
    BY <1>3, Parameters DEF Typed, Offer
  <2> QED
    BY <1>1, <2>1, <2>2, <2>3 DEF Follows
<1> QED
  BY <1>1, <1>2, <1>3 DEF Follows

\* The histories still count.
LEMMA CountedLater ==
    ASSUME Typed, Typed', Counted, TableStep
    PROVE  Counted'
<1>1. ASSUME NEW i \in Ids, i >= nextId'
      PROVE  settled'[i].created = 0 /\ settled'[i].accepted = 0 /\ settled'[i].returned = 0
  <2>1. i >= nextId /\ settled'[i] = settled[i]
    BY <1>1, Parameters DEF TableStep, Typed
  <2> QED
    BY <2>1 DEF Counted
<1>2. ASSUME NEW i \in DOMAIN offers'
      PROVE  offers'[i].amount <= settled'[i].created
  <2>1. i \in Ids /\ i \in Nat /\ nextId \in Nat
    BY Parameters DEF Typed, Ids
  <2>2. CASE i >= nextId
    BY <2>2 DEF TableStep
  <2>3. CASE i < nextId
    <3>1. /\ i \in DOMAIN offers /\ offers'[i].amount <= offers[i].amount
          /\ settled'[i].created = settled[i].created
      BY <2>1, <2>3 DEF TableStep
    <3>2. offers[i].amount <= settled[i].created
      BY <3>1 DEF Counted
    <3>3. /\ offers'[i].amount \in Nat /\ offers[i].amount \in Nat /\ settled[i].created \in Nat
      <4>1. offers'[i].amount \in Nat
        BY Parameters DEF Typed, Offer
      <4> QED
        BY <2>1, <3>1, <4>1, OfferType DEF Typed
    <3> QED
      BY <3>1, <3>2, <3>3
  <2> QED
    BY <2>1, <2>2, <2>3
<1> QED
  BY <1>1, <1>2 DEF Counted

\* The table does not change, or one offer is reduced or ends.
LEMMA ShrinkStep ==
    ASSUME Typed, NEW id \in Ids, OneOffer(id), nextId' = nextId, Typed',
           DOMAIN offers' \subseteq DOMAIN offers,
           id \in DOMAIN offers' =>
              /\ offers'[id].sale = offers[id].sale /\ offers'[id].kind = offers[id].kind
              /\ offers'[id].price = offers[id].price /\ offers'[id].amount <= offers[id].amount,
           \A i \in Ids : settled'[i].created = settled[i].created,
           \A i \in Ids : i # id => settled'[i] = settled[i],
           id < nextId
    PROVE  TableStep
<1>1. nextId' \in Nat /\ nextId' >= nextId /\ nextId \in Nat
  BY Parameters DEF Typed
<1>2. ASSUME NEW i \in Ids, i \in DOMAIN offers'
      PROVE  /\ i \in DOMAIN offers /\ i < nextId
             /\ offers'[i].sale = offers[i].sale /\ offers'[i].kind = offers[i].kind
             /\ offers'[i].price = offers[i].price /\ offers'[i].amount <= offers[i].amount
  <2>1. i \in DOMAIN offers /\ i < nextId
    BY <1>2, Parameters DEF Typed
  <2>2. CASE i = id
    BY <1>2, <2>1, <2>2
  <2>3. CASE i # id
    <3>1. offers'[i] = offers[i] /\ offers[i].amount \in Nat
      BY <2>1, <2>3, OfferType DEF OneOffer
    <3> QED
      BY <2>1, <3>1
  <2> QED
    BY <2>2, <2>3
<1>3. DOMAIN offers' \subseteq Ids
  BY Parameters DEF Typed, Ids
<1>4. ASSUME NEW i \in Ids, i >= nextId'
      PROVE  settled'[i] = settled[i]
  <2>1. i # id
    BY <1>1, <1>4, Parameters
  <2> QED
    BY <2>1
<1>5. ASSUME NEW i \in DOMAIN offers', i >= nextId
      PROVE  offers'[i].amount <= settled'[i].created
  <2>1. i \in Ids
    BY <1>3
  <2>2. i < nextId /\ i \in Nat
    BY <1>2, <2>1, Parameters
  <2> QED
    BY <1>1, <1>5, <2>2
<1> QED
  BY <1>1, <1>2, <1>4, <1>5 DEF TableStep

\* A step that leaves the table alone
LEMMA SameStep ==
    ASSUME Typed, UNCHANGED <<offers, settled, nextId>>
    PROVE  TableStep
<1>1. nextId \in Nat /\ nextId >= nextId
  BY Parameters DEF Typed
<1>2. \A i \in DOMAIN offers : i \in Ids /\ i < nextId /\ offers[i].amount \in Nat
  BY OfferType, Parameters DEF Typed
<1>3. \A i \in DOMAIN offers' : ~(i >= nextId)
  <2>1. ASSUME NEW i \in DOMAIN offers PROVE ~(i >= nextId)
    <3>1. i \in Nat /\ i < nextId
      BY <1>2, Parameters
    <3> QED
      BY <1>1, <3>1
  <2> QED
    BY <2>1
<1>4. \A i \in Ids : settled'[i] = settled[i]
  OBVIOUS
<1>5. \A i \in DOMAIN offers : offers'[i] = offers[i] /\ offers[i].amount <= offers[i].amount
  BY <1>2
<1> QED
  BY <1>1, <1>3, <1>4, <1>5 DEF TableStep

\* Neither acceptance nor return changes what was created.
LEMMA CreatedKept ==
    ASSUME Typed, NEW id \in Ids, NEW amount \in Nat, NEW h,
           h = Accepted(id, amount) \/ h = Returned(id, amount)
    PROVE  /\ \A i \in Ids : h[i].created = settled[i].created
           /\ \A i \in Ids : i # id => h[i] = settled[i]
<1>1. settled \in [Ids -> Record] /\ settled[id] \in Record
  BY DEF Typed, Record
<1> DEFINE accepted == [settled[id] EXCEPT !.accepted = @ + amount]
           returned == [settled[id] EXCEPT !.returned = @ + amount]
<1>2. accepted.created = settled[id].created /\ returned.created = settled[id].created
  BY <1>1 DEF Record
<1>3. \/ h = [settled EXCEPT ![id] = accepted]
      \/ h = [settled EXCEPT ![id] = returned]
  BY <1>1 DEF Accepted, Returned
<1> HIDE DEF accepted, returned
<1> QED
  BY <1>1, <1>2, <1>3

\* The handlers one by one
LEMMA CreateStep ==
    ASSUME Typed, Typed', NEW p \in Players, NEW sale \in BOOLEAN, NEW kind \in Kinds,
           NEW amount \in Amounts, NEW price \in Nat \ {0}, NEW ok \in BOOLEAN,
           nextId <= MaxOffers, CreateOffer(p, sale, kind, amount, price, ok)
    PROVE  TableStep
<1>1. /\ nextId \in Ids /\ OneOffer(nextId) /\ nextId' = nextId + 1 /\ nextId \in Nat
      /\ nextId \notin DOMAIN offers
      /\ ~ok => offers' = offers /\ settled' = settled
      /\ ok => /\ offers'[nextId] = [owner |-> p, sale |-> sale, kind |-> kind,
                                     amount |-> amount, price |-> price]
               /\ settled' = [settled EXCEPT ![nextId].created = amount]
  BY OfferCreated, Parameters
<1>2. amount \in Nat /\ settled \in [Ids -> Record]
  BY Parameters DEF Typed, Record
<1>3. \A i \in Ids : i # nextId => settled'[i] = settled[i]
  BY <1>1, <1>2
<1>4. ok => settled'[nextId].created = amount
  BY <1>1, <1>2 DEF Record
<1>5. nextId' \in Nat /\ nextId' >= nextId
  BY <1>1
<1>6. ASSUME NEW i \in Ids, i < nextId
      PROVE  /\ settled'[i].created = settled[i].created
             /\ i \in DOMAIN offers' =>
                   /\ i \in DOMAIN offers
                   /\ offers'[i].sale = offers[i].sale /\ offers'[i].kind = offers[i].kind
                   /\ offers'[i].price = offers[i].price /\ offers'[i].amount <= offers[i].amount
  <2>1. i # nextId
    BY <1>1, <1>6
  <2>2. i \in DOMAIN offers' => i \in DOMAIN offers /\ offers'[i] = offers[i]
    BY <1>1, <2>1 DEF OneOffer
  <2>3. i \in DOMAIN offers => offers[i].amount \in Nat
    BY OfferType
  <2> QED
    BY <1>3, <2>1, <2>2, <2>3
<1>7. ASSUME NEW i \in Ids, i >= nextId' PROVE settled'[i] = settled[i]
  <2>1. i # nextId
    BY <1>1, <1>7
  <2> QED
    BY <1>3, <2>1
<1>8. ASSUME NEW i \in DOMAIN offers', i >= nextId
      PROVE  offers'[i].amount <= settled'[i].created
  <2>1. i \in 1 .. nextId' - 1
    BY DEF Typed
  <2>2. i = nextId
    BY <1>1, <1>8, <2>1
  <2>3. ok
    BY <1>1, <2>2
  <2> QED
    BY <1>1, <1>2, <1>4, <2>2, <2>3
<1> QED
  BY <1>5, <1>6, <1>7, <1>8 DEF TableStep

\* An offer is cancelled.
LEMMA CancelStep ==
    ASSUME Typed, Typed', NEW p \in Players, NEW id \in Ids, NEW ok \in BOOLEAN,
           PlayerCancelMarketOffer(p, id, ok)
    PROVE  TableStep
<1>1. /\ id \in DOMAIN offers /\ nextId' = nextId
      /\ offers' = IF ok THEN Without(id) ELSE offers
      /\ settled' = Returned(id, offers[id].amount)
  BY DEF PlayerCancelMarketOffer
<1>2. id < nextId /\ offers[id].amount \in Nat
  BY <1>1, OfferType, Parameters DEF Typed
<1>3. /\ \A i \in Ids : settled'[i].created = settled[i].created
      /\ \A i \in Ids : i # id => settled'[i] = settled[i]
  BY <1>1, <1>2, CreatedKept
<1>4. OneOffer(id) /\ DOMAIN offers' \subseteq DOMAIN offers
      /\ (id \in DOMAIN offers' => offers'[id] = offers[id])
  <2>1. CASE ok
    BY <1>1, <2>1, OfferRemoved
  <2>2. CASE ~ok
    BY <1>1, <2>2 DEF OneOffer
  <2> QED
    BY <2>1, <2>2
<1> QED
  BY <1>1, <1>2, <1>3, <1>4, ShrinkStep

\* An offer is accepted.
LEMMA SettleStep ==
    ASSUME Typed, Typed', NEW id \in DOMAIN offers, NEW amount \in Amounts, NEW ok \in BOOLEAN,
           amount <= offers[id].amount, nextId' = nextId, Settle(id, amount, ok)
    PROVE  TableStep
<1>1. /\ offers' = IF ok THEN Reduced(id, amount) ELSE offers
      /\ settled' = Accepted(id, amount)
  BY DEF Settle
<1>2. id \in Ids /\ id < nextId /\ offers[id].amount \in Nat /\ amount \in Nat
  BY OfferType, Parameters DEF Typed
<1>3. /\ \A i \in Ids : settled'[i].created = settled[i].created
      /\ \A i \in Ids : i # id => settled'[i] = settled[i]
  BY <1>1, <1>2, CreatedKept
<1>4. /\ OneOffer(id) /\ DOMAIN offers' \subseteq DOMAIN offers
      /\ id \in DOMAIN offers' =>
            /\ offers'[id].sale = offers[id].sale /\ offers'[id].kind = offers[id].kind
            /\ offers'[id].price = offers[id].price /\ offers'[id].amount <= offers[id].amount
  <2>1. CASE ok
    <3>1. /\ OneOffer(id) /\ DOMAIN offers' \subseteq DOMAIN offers
          /\ id \in DOMAIN offers' =>
                offers'[id] = [offers[id] EXCEPT !.amount = offers[id].amount - amount]
      BY <1>1, <2>1, OfferReduced
    <3>2. offers[id] \in Offer
      BY OfferType
    <3>3. id \in DOMAIN offers' =>
            /\ offers'[id].sale = offers[id].sale /\ offers'[id].kind = offers[id].kind
            /\ offers'[id].price = offers[id].price
            /\ offers'[id].amount = offers[id].amount - amount
      BY <3>1, <3>2 DEF Offer
    <3> QED
      BY <1>2, <3>1, <3>3
  <2>2. CASE ~ok
    BY <1>1, <1>2, <2>2 DEF OneOffer
  <2> QED
    BY <2>1, <2>2
<1> QED
  BY <1>2, <1>3, <1>4, ShrinkStep

\* A row is expired.
LEMMA ExpireStep ==
    ASSUME Typed, Typed', NEW r \in Row, NEW ok \in BOOLEAN, ExpireRow(r, ok)
    PROVE  TableStep
<1> DEFINE moved == MoveOfferToHistory(r.id, ok)
           id == r.id
<1>1. /\ offers' = IF moved THEN Without(id) ELSE offers
      /\ settled' = IF moved THEN Returned(id, r.amount) ELSE settled
      /\ nextId' = nextId
  BY DEF ExpireRow
<1>2. /\ moved => id \in DOMAIN offers
      /\ id \in Ids /\ r.amount \in Nat
  BY Parameters DEF MoveOfferToHistory, Row
<1>3. CASE moved
  <2>1. id \in DOMAIN offers /\ id < nextId
    BY <1>2, <1>3, Parameters DEF Typed
  <2>2. /\ \A i \in Ids : settled'[i].created = settled[i].created
        /\ \A i \in Ids : i # id => settled'[i] = settled[i]
    BY <1>1, <1>2, <1>3, CreatedKept
  <2>3. OneOffer(id) /\ DOMAIN offers' \subseteq DOMAIN offers /\ id \notin DOMAIN offers'
    BY <1>1, <1>3, <2>1, OfferRemoved
  <2> HIDE DEF id, moved
  <2> QED
    BY <1>1, <1>2, <2>1, <2>2, <2>3, ShrinkStep
<1>4. CASE ~moved
  BY <1>1, <1>4, SameStep
<1> QED
  BY <1>3, <1>4

-----------------------------------------------------------------------------
(* The invariant is preserved *)

\* The steps that touch neither accounts nor offers
Quiet ==
    \/ \E p \in Players : EnterMarket(p) \/ PlayerLeaveMarket(p)
    \/ \E id \in Ids : Age(id)
    \/ CheckExpiredOffers \/ SelectExpired \/ ProcessExpiredOffers
    \/ UNCHANGED vars

\* The steps of players that do
Handler ==
    \E p \in Players, ok \in BOOLEAN :
        \/ \E kind \in Kinds, amount \in Amounts, price \in Nat \ {0} :
               \/ PlayerCreateSellOffer(p, kind, amount, price, ok)
               \/ PlayerCreateBuyOffer(p, kind, amount, price, ok)
        \/ \E id \in Ids : PlayerCancelMarketOffer(p, id, ok)
        \/ \E id \in Ids, amount \in Amounts :
               PlayerAcceptBuyOffer(p, id, amount, ok) \/ PlayerAcceptSellOffer(p, id, amount, ok)

\* Every step is one of these.
LEMMA Steps ==
    ASSUME [Next]_vars
    PROVE  Quiet \/ Handler \/ ExpireRows
<1>1. ASSUME NEW p \in Players, PlayerStep(p)
      PROVE  Quiet \/ Handler
  <2>1. ASSUME NEW quote \in Quotes
        PROVE  quote[1] \in Kinds /\ quote[2] \in Nat \ {0}
    BY MarketAssumption DEF Kinds
  <2>2. CASE EnterMarket(p) \/ PlayerLeaveMarket(p)
    BY <2>2 DEF Quiet
  <2>3. CASE \E quote \in Quotes, amount \in Amounts, ok \in BOOLEAN :
                 PlayerCreateSellOffer(p, quote[1], amount, quote[2], ok)
    BY <2>1, <2>3 DEF Handler
  <2>4. CASE \E quote \in Quotes, amount \in Amounts, ok \in BOOLEAN :
                 PlayerCreateBuyOffer(p, quote[1], amount, quote[2], ok)
    BY <2>1, <2>4 DEF Handler
  <2>5. CASE \E id \in Ids, ok \in BOOLEAN : PlayerCancelMarketOffer(p, id, ok)
    BY <2>5 DEF Handler
  <2>6. CASE \E id \in Ids, amount \in Amounts, ok \in BOOLEAN :
                 PlayerAcceptBuyOffer(p, id, amount, ok)
    BY <2>6 DEF Handler
  <2>7. CASE \E id \in Ids, amount \in Amounts, ok \in BOOLEAN :
                 PlayerAcceptSellOffer(p, id, amount, ok)
    BY <2>7 DEF Handler
  <2> QED
    BY <1>1, <2>2, <2>3, <2>4, <2>5, <2>6, <2>7 DEF PlayerStep
<1> QED
  BY <1>1 DEF Next, Quiet

\* Quiet steps write none of the accounts, nor the table.
LEMMA QuietKeeps ==
    ASSUME Quiet
    PROVE  UNCHANGED <<bank, cash, goods, inbox, offers, nextId, fees, settled, anomalies>>
  BY DEF Quiet, EnterMarket, PlayerLeaveMarket, Age, CheckExpiredOffers, SelectExpired,
         ProcessExpiredOffers, vars

\* They keep the types.
LEMMA QuietStep ==
    ASSUME Typed, Quiet
    PROVE  Typed' /\ TableStep
<1>1. UNCHANGED <<bank, cash, goods, inbox, offers, nextId, fees, settled, anomalies>>
  BY QuietKeeps
<1>2. inMarket' \subseteq Players /\ overdue' \subseteq DOMAIN offers
  <2>1. inMarket \subseteq Players /\ overdue \subseteq DOMAIN offers
    BY DEF Typed
  <2>2. \/ \E p \in Players : inMarket' = inMarket \cup {p} /\ overdue' = overdue
        \/ \E p \in Players : inMarket' = inMarket \ {p} /\ overdue' = overdue
        \/ \E id \in DOMAIN offers : inMarket' = inMarket /\ overdue' = overdue \cup {id}
        \/ inMarket' = inMarket /\ overdue' = overdue
    BY DEF Quiet, EnterMarket, PlayerLeaveMarket, Age, CheckExpiredOffers, SelectExpired,
           ProcessExpiredOffers, vars
  <2> QED
    BY <2>1, <2>2
<1>3. Typed'
  BY <1>1, <1>2 DEF Typed
<1>4. TableStep
  BY <1>1, SameStep
<1> QED
  BY <1>3, <1>4

\* A handler keeps the types, and leaves the queries and the rows to expire alone.
LEMMA HandlerStep ==
    ASSUME Typed, Handler
    PROVE  Typed' /\ TableStep /\ UNCHANGED <<checks, rows>>
<1>1. PICK p \in Players, ok \in BOOLEAN :
        \/ \E kind \in Kinds, amount \in Amounts, price \in Nat \ {0} :
               \/ PlayerCreateSellOffer(p, kind, amount, price, ok)
               \/ PlayerCreateBuyOffer(p, kind, amount, price, ok)
        \/ \E id \in Ids : PlayerCancelMarketOffer(p, id, ok)
        \/ \E id \in Ids, amount \in Amounts :
               PlayerAcceptBuyOffer(p, id, amount, ok) \/ PlayerAcceptSellOffer(p, id, amount, ok)
  BY DEF Handler
<1>2. ASSUME NEW kind \in Kinds, NEW amount \in Amounts, NEW price \in Nat \ {0},
             PlayerCreateSellOffer(p, kind, amount, price, ok)
      PROVE  Typed' /\ TableStep /\ UNCHANGED <<checks, rows>>
  <2> DEFINE sale == TRUE
  <2>1. sale \in BOOLEAN /\ nextId <= MaxOffers /\ CreateOffer(p, sale, kind, amount, price, ok)
        /\ UNCHANGED <<checks, rows>>
    BY <1>2 DEF PlayerCreateSellOffer
  <2> HIDE DEF sale
  <2>2. Typed'
    BY <1>2, TypedSell
  <2>3. TableStep
    BY <2>1, <2>2, CreateStep
  <2> QED
    BY <2>1, <2>2, <2>3
<1>3. ASSUME NEW kind \in Kinds, NEW amount \in Amounts, NEW price \in Nat \ {0},
             PlayerCreateBuyOffer(p, kind, amount, price, ok)
      PROVE  Typed' /\ TableStep /\ UNCHANGED <<checks, rows>>
  <2> DEFINE sale == FALSE
  <2>1. sale \in BOOLEAN /\ nextId <= MaxOffers /\ CreateOffer(p, sale, kind, amount, price, ok)
        /\ UNCHANGED <<checks, rows>>
    BY <1>3 DEF PlayerCreateBuyOffer
  <2> HIDE DEF sale
  <2>2. Typed'
    BY <1>3, TypedBuy
  <2>3. TableStep
    BY <2>1, <2>2, CreateStep
  <2> QED
    BY <2>1, <2>2, <2>3
<1>4. ASSUME NEW id \in Ids, PlayerCancelMarketOffer(p, id, ok)
      PROVE  Typed' /\ TableStep /\ UNCHANGED <<checks, rows>>
  <2>1. UNCHANGED <<checks, rows>>
    BY <1>4 DEF PlayerCancelMarketOffer
  <2>2. Typed'
    BY <1>4, TypedCancel
  <2>3. TableStep
    BY <1>4, <2>2, CancelStep
  <2> QED
    BY <2>1, <2>2, <2>3
<1>5. ASSUME NEW id \in Ids, NEW amount \in Amounts, PlayerAcceptBuyOffer(p, id, amount, ok)
      PROVE  Typed' /\ TableStep /\ UNCHANGED <<checks, rows>>
  <2>1. /\ id \in DOMAIN offers /\ amount <= offers[id].amount /\ nextId' = nextId
        /\ Settle(id, amount, ok) /\ UNCHANGED <<checks, rows>>
    BY <1>5 DEF PlayerAcceptBuyOffer, MayAccept
  <2>2. Typed'
    BY <1>5, TypedAcceptBuy
  <2>3. TableStep
    BY <2>1, <2>2, SettleStep
  <2> QED
    BY <2>1, <2>2, <2>3
<1>6. ASSUME NEW id \in Ids, NEW amount \in Amounts, PlayerAcceptSellOffer(p, id, amount, ok)
      PROVE  Typed' /\ TableStep /\ UNCHANGED <<checks, rows>>
  <2>1. /\ id \in DOMAIN offers /\ amount <= offers[id].amount /\ nextId' = nextId
        /\ Settle(id, amount, ok) /\ UNCHANGED <<checks, rows>>
    BY <1>6 DEF PlayerAcceptSellOffer, MayAccept
  <2>2. Typed'
    BY <1>6, TypedAcceptSell
  <2>3. TableStep
    BY <2>1, <2>2, SettleStep
  <2> QED
    BY <2>1, <2>2, <2>3
<1> QED
  BY <1>1, <1>2, <1>3, <1>4, <1>5, <1>6

\* The rows of a query that has just run follow the offers they were read from.
LEMMA SelectedFollow ==
    ASSUME Typed, Counted, NEW id \in overdue
    PROVE  Follows(RowOf(id))
<1>1. id \in DOMAIN offers /\ id < nextId
  BY Parameters DEF Typed
<1>2. /\ id \in Ids /\ offers[id].owner \in Players /\ offers[id].sale \in BOOLEAN
      /\ offers[id].kind \in Kinds /\ offers[id].amount \in Amounts
      /\ offers[id].price \in Nat \ {0} /\ offers[id].amount \in Nat
  BY <1>1, OfferType
<1>3. RowOf(id) \in Row
  BY <1>2 DEF RowOf, Row
<1>4. offers[id].amount <= settled[id].created
  BY <1>1 DEF Counted
<1> QED
  BY <1>1, <1>2, <1>3, <1>4 DEF Follows, RowOf

\* An expiry query
Check == [run : BOOLEAN, rows : SUBSET Row]

\* Rows are selected, handed over or kept by the quiet steps, and follow their offers.
LEMMA PendingQuiet ==
    ASSUME Typed, Counted, Pending, Quiet
    PROVE  Pending'
<1>1. UNCHANGED <<offers, nextId, settled>>
  BY QuietKeeps
<1>2. \A r : Follows(r)' <=> Follows(r)
  BY <1>1 DEF Follows
<1>3. /\ checks \in Seq(Check) /\ \A r \in rows : Follows(r)
      /\ \A i \in 1 .. Len(checks) : \A r \in checks[i].rows : Follows(r)
  BY DEF Pending, Check
<1> SUFFICES /\ checks' \in Seq(Check) /\ \A r \in rows' : Follows(r)
             /\ \A i \in 1 .. Len(checks') : \A r \in checks'[i].rows : Follows(r)
  BY <1>2 DEF Pending, Check
<1>4. CASE UNCHANGED <<checks, rows>>
  BY <1>3, <1>4
<1>5. CASE CheckExpiredOffers
  <2>1. checks' = Append(checks, NotRun) /\ rows' = rows
    BY <1>5 DEF CheckExpiredOffers
  <2>2. NotRun \in Check /\ NotRun.rows = {}
    BY DEF NotRun, Check
  <2>3. /\ checks' \in Seq(Check) /\ Len(checks') = Len(checks) + 1
        /\ \A i \in 1 .. Len(checks) : checks'[i] = checks[i]
        /\ checks'[Len(checks) + 1] = NotRun
    BY <1>3, <2>1, <2>2
  <2>4. ASSUME NEW i \in 1 .. Len(checks') PROVE \A r \in checks'[i].rows : Follows(r)
    <3>1. i \in 1 .. Len(checks) \/ i = Len(checks) + 1
      BY <1>3, <2>3
    <3> QED
      BY <1>3, <2>2, <2>3, <3>1
  <2> QED
    BY <1>3, <2>1, <2>3, <2>4
<1>6. CASE SelectExpired
  <2> DEFINE read == {RowOf(id) : id \in Expired}
  <2>1. PICK i \in DOMAIN checks :
            checks' = [checks EXCEPT ![i] = [run |-> TRUE, rows |-> read]] /\ rows' = rows
    BY <1>6 DEF SelectExpired
  <2>2. \A r \in read : Follows(r)
    BY SelectedFollow DEF Expired
  <2>3. read \subseteq Row
    BY <2>2 DEF Follows
  <2> HIDE DEF read
  <2>4. [run |-> TRUE, rows |-> read] \in Check
    BY <2>3 DEF Check
  <2>5. /\ checks' \in Seq(Check) /\ Len(checks') = Len(checks)
        /\ \A j \in 1 .. Len(checks) : j # i => checks'[j] = checks[j]
        /\ checks'[i] = [run |-> TRUE, rows |-> read]
    BY <1>3, <2>1, <2>4
  <2> QED
    BY <1>3, <2>1, <2>2, <2>5
<1>7. CASE ProcessExpiredOffers
  <2>1. checks # <<>> /\ rows' = Head(checks).rows /\ checks' = Tail(checks)
    BY <1>7 DEF ProcessExpiredOffers
  <2>2. /\ checks' \in Seq(Check) /\ Len(checks) >= 1 /\ Len(checks') = Len(checks) - 1
        /\ Head(checks) = checks[1]
        /\ \A j \in 1 .. Len(checks') : checks'[j] = checks[j + 1] /\ j + 1 \in 1 .. Len(checks)
    BY <1>3, <2>1
  <2> QED
    BY <1>3, <2>1, <2>2
<1> QED
  BY <1>4, <1>5, <1>6, <1>7 DEF Quiet, EnterMarket, PlayerLeaveMarket, Age, vars

\* The inductive invariant
Inv == Typed /\ Counted /\ Pending

\* The invariant holds initially,
LEMMA InvInit ==
    ASSUME Init
    PROVE  Inv
<1>1. /\ bank \in [Players -> Nat] /\ cash \in [Players -> Nat]
      /\ goods \in [Kinds -> [Players -> Nat]] /\ inbox \in [Kinds -> [Players -> Nat]]
  <2>1. /\ InitialBank \in [Players -> Nat] /\ InitialCash \in [Players -> Nat]
        /\ InitialWares \in [Players -> Nat] /\ InitialCoins \in [Players -> Nat]
    BY MarketAssumption
  <2> QED
    BY <2>1 DEF Init
<1>2. DOMAIN offers = {} /\ offers \in [DOMAIN offers -> Offer]
  BY DEF Init
<1>3. nextId = 1 /\ nextId \in 1 .. MaxOffers + 1 /\ inMarket = {} /\ overdue = {}
      /\ fees \in Nat /\ anomalies = {}
  BY Parameters DEF Init
<1>4. settled = [i \in Ids |-> [created |-> 0, accepted |-> 0, returned |-> 0]]
  BY DEF Init
<1>5. Typed
  BY <1>1, <1>2, <1>3, <1>4 DEF Typed
<1>6. Counted
  BY <1>2, <1>4 DEF Counted
<1>7. Pending
  BY DEF Pending, Init
<1> QED
  BY <1>5, <1>6, <1>7 DEF Inv

\* and after every step, which is a TableStep.
LEMMA InvNext ==
    ASSUME Inv, [Next]_vars
    PROVE  Inv' /\ TableStep
<1>1. Typed /\ Counted /\ Pending
  BY DEF Inv
<1>2. CASE Quiet
  <2>1. Typed' /\ TableStep
    BY <1>1, <1>2, QuietStep
  <2>2. Counted'
    BY <1>1, <2>1, CountedLater
  <2>3. Pending'
    BY <1>1, <1>2, PendingQuiet
  <2> QED
    BY <2>1, <2>2, <2>3 DEF Inv
<1>3. CASE Handler
  <2>1. Typed' /\ TableStep /\ UNCHANGED <<checks, rows>>
    BY <1>1, <1>3, HandlerStep
  <2>2. Counted'
    BY <1>1, <2>1, CountedLater
  <2>3. \A r : Follows(r) => Follows(r)'
    BY <1>1, <2>1, FollowsLater
  <2>4. Pending'
    BY <1>1, <2>1, <2>3 DEF Pending
  <2> QED
    BY <2>1, <2>2, <2>4 DEF Inv
<1>4. CASE ExpireRows
  <2>1. PICK r \in rows, ok \in BOOLEAN : ExpireRow(r, ok)
    BY <1>4 DEF ExpireRows
  <2>2. r \in Row
    BY <1>1, <2>1 DEF Pending, Follows
  <2>3. Typed'
    BY <1>1, <2>1, <2>2, TypedExpire
  <2>4. TableStep
    BY <1>1, <2>1, <2>2, <2>3, ExpireStep
  <2>5. Counted'
    BY <1>1, <2>3, <2>4, CountedLater
  <2>6. \A q : Follows(q) => Follows(q)'
    BY <1>1, <2>3, <2>4, FollowsLater
  <2>7. rows' = rows \ {r} /\ checks' = checks
    BY <2>1 DEF ExpireRow
  <2>8. Pending'
    BY <1>1, <2>6, <2>7 DEF Pending
  <2> QED
    BY <2>3, <2>4, <2>5, <2>8 DEF Inv
<1> QED
  BY <1>2, <1>3, <1>4, Steps

\* No account is overdrawn, the table has its types, no offer exceeds what was offered, and the
\* rows of the expiry queries, run at any time before, follow the offers they were read from.
THEOREM InvHolds == Spec => []Inv
<1>1. Init => Inv
  BY InvInit
<1>2. Inv /\ [Next]_vars => Inv'
  BY InvNext
<1> QED
  BY <1>1, <1>2, PTL DEF Spec

\* The types are what TypeOK says.
LEMMA TypesOK ==
    ASSUME Typed
    PROVE  TypeOK
<1>1. \A i \in DOMAIN offers : offers[i].amount \in Amounts /\ offers[i].owner \in Players
  BY OfferType
<1> QED
  BY <1>1 DEF Typed, TypeOK

\* The variables keep their types; no account is ever overdrawn.
THEOREM TypeCorrect == Spec => []TypeOK
<1>1. Inv => TypeOK
  BY TypesOK DEF Inv
<1> QED
  BY <1>1, InvHolds, PTL

-----------------------------------------------------------------------------
(* What is given away of an offer *)

Left(i) == IF i \in DOMAIN offers THEN offers[i].amount ELSE 0

\* The accounts of one offer; until it ends nothing of it was returned.
Kept(i) ==
    /\ settled[i].accepted + Left(i) <= settled[i].created
    /\ settled[i].returned <= settled[i].created
    /\ "stale" \notin anomalies =>
           settled[i].accepted + settled[i].returned + Left(i) = settled[i].created
    /\ i \in DOMAIN offers => settled[i].returned = 0

Settled == "ignored" \notin anomalies => \A i \in Ids : Kept(i)

\* No anomaly is forgotten.
LEMMA Monotone ==
    ASSUME [Next]_vars
    PROVE  anomalies \subseteq anomalies'
<1>1. CASE Quiet
  BY <1>1, QuietKeeps
<1>2. CASE Handler
  <2>1. ASSUME NEW p, NEW kind, NEW amount, NEW price, NEW ok,
               PlayerCreateSellOffer(p, kind, amount, price, ok)
        PROVE  anomalies \subseteq anomalies'
    BY <2>1 DEF PlayerCreateSellOffer
  <2>2. ASSUME NEW p, NEW kind, NEW amount, NEW price, NEW ok,
               PlayerCreateBuyOffer(p, kind, amount, price, ok)
        PROVE  anomalies \subseteq anomalies'
    BY <2>2 DEF PlayerCreateBuyOffer
  <2>3. ASSUME NEW p, NEW id, NEW ok, PlayerCancelMarketOffer(p, id, ok)
        PROVE  anomalies \subseteq anomalies'
    BY <2>3 DEF PlayerCancelMarketOffer
  <2>4. ASSUME NEW p, NEW id, NEW amount, NEW ok,
               PlayerAcceptBuyOffer(p, id, amount, ok) \/ PlayerAcceptSellOffer(p, id, amount, ok)
        PROVE  anomalies \subseteq anomalies'
    <3>1. Settle(id, amount, ok)
      BY <2>4 DEF PlayerAcceptBuyOffer, PlayerAcceptSellOffer
    <3> QED
      BY <3>1 DEF Settle
  <2> QED
    BY <1>2, <2>1, <2>2, <2>3, <2>4 DEF Handler
<1>3. CASE ExpireRows
  BY <1>3 DEF ExpireRows, ExpireRow
<1> QED
  BY <1>1, <1>2, <1>3, Steps

\* The other offers' accounts stay.
LEMMA KeptElsewhere ==
    ASSUME NEW id \in Ids, NEW i \in Ids, i # id, Kept(i), OneOffer(id),
           settled'[i] = settled[i], anomalies \subseteq anomalies'
    PROVE  Kept(i)'
<1>1. Left(i)' = Left(i) /\ (i \in DOMAIN offers' <=> i \in DOMAIN offers)
  BY DEF OneOffer, Left
<1>2. "stale" \notin anomalies' => "stale" \notin anomalies
  OBVIOUS
<1> QED
  BY <1>1, <1>2 DEF Kept

\* An offer is created with an empty history.
LEMMA CreateKept ==
    ASSUME Inv, Inv', NEW p \in Players, NEW sale \in BOOLEAN, NEW kind \in Kinds,
           NEW amount \in Amounts, NEW price \in Nat \ {0}, NEW ok \in BOOLEAN,
           nextId <= MaxOffers, CreateOffer(p, sale, kind, amount, price, ok),
           anomalies \subseteq anomalies', \A i \in Ids : Kept(i)
    PROVE  ok => \A i \in Ids : Kept(i)'
<1>1. Typed /\ Counted
  BY DEF Inv
<1>2. /\ nextId \in Ids /\ OneOffer(nextId)
      /\ ok => /\ nextId \in DOMAIN offers'
               /\ offers'[nextId] = [owner |-> p, sale |-> sale, kind |-> kind,
                                     amount |-> amount, price |-> price]
  BY <1>1, OfferCreated
<1> SUFFICES ASSUME ok PROVE \A i \in Ids : Kept(i)'
  OBVIOUS
<1>3. /\ nextId \in Ids /\ OneOffer(nextId) /\ nextId \in DOMAIN offers'
      /\ offers'[nextId] = [owner |-> p, sale |-> sale, kind |-> kind,
                            amount |-> amount, price |-> price]
  BY <1>2
<1>4. settled' = [settled EXCEPT ![nextId].created = amount]
  BY DEF CreateOffer
<1>5. amount \in Nat /\ settled \in [Ids -> Record] /\ settled[nextId] \in Record
      /\ nextId >= nextId
  BY <1>1, <1>3, Parameters DEF Typed, Record
<1>6. /\ settled[nextId].created = 0 /\ settled[nextId].accepted = 0
      /\ settled[nextId].returned = 0
  BY <1>1, <1>3, <1>5 DEF Counted
<1>7. /\ settled'[nextId].created = amount /\ settled'[nextId].accepted = 0
      /\ settled'[nextId].returned = 0
  BY <1>3, <1>4, <1>5, <1>6 DEF Record
<1>8. offers'[nextId].amount = amount
  BY <1>3
<1>9. ASSUME NEW i \in Ids, i = nextId PROVE Kept(i)'
  <2>1. Left(i)' = amount
    BY <1>3, <1>8, <1>9 DEF Left
  <2> QED
    BY <1>5, <1>7, <1>9, <2>1 DEF Kept
<1>10. ASSUME NEW i \in Ids, i # nextId PROVE Kept(i)'
  <2>1. settled'[i] = settled[i]
    BY <1>4, <1>5, <1>10
  <2> QED
    BY <1>3, <1>10, <2>1, KeptElsewhere
<1> QED
  BY <1>9, <1>10

\* An offer of which an amount is returned ends.
LEMMA ReturnKept ==
    ASSUME Inv, NEW id \in DOMAIN offers, NEW amount \in Nat,
           offers' = Without(id), settled' = Returned(id, amount),
           amount <= settled[id].created,
           offers[id].amount # amount => "stale" \in anomalies',
           anomalies \subseteq anomalies', \A i \in Ids : Kept(i)
    PROVE  \A i \in Ids : Kept(i)'
<1>1. Typed /\ id \in Ids /\ offers[id].amount \in Nat
  BY OfferType DEF Inv
<1>2. OneOffer(id) /\ id \notin DOMAIN offers'
  BY <1>1, OfferRemoved
<1>3. settled \in [Ids -> Record] /\ settled[id] \in Record
  BY <1>1 DEF Typed, Record
<1>4. /\ settled[id].created \in Nat /\ settled[id].accepted \in Nat /\ settled[id].returned \in Nat
  BY <1>3 DEF Record
<1>5. settled'[id] = [settled[id] EXCEPT !.returned = settled[id].returned + amount]
  BY <1>1, <1>3 DEF Returned
<1>6. /\ settled'[id].created = settled[id].created /\ settled'[id].accepted = settled[id].accepted
      /\ settled'[id].returned = settled[id].returned + amount
  BY <1>3, <1>5 DEF Record
<1>7. /\ settled[id].accepted + offers[id].amount <= settled[id].created
      /\ settled[id].returned = 0
      /\ "stale" \notin anomalies' =>
             settled[id].accepted + settled[id].returned + offers[id].amount = settled[id].created
  BY <1>1 DEF Kept, Left
<1>8. Left(id)' = 0
  BY <1>2 DEF Left
<1>9. Kept(id)'
  <2>1. settled[id].accepted + 0 <= settled[id].created /\ 0 + amount <= settled[id].created
    BY <1>1, <1>4, <1>7
  <2>2. "stale" \notin anomalies' => settled[id].accepted + (0 + amount) + 0 = settled[id].created
    BY <1>1, <1>4, <1>7
  <2> QED
    BY <1>2, <1>6, <1>7, <1>8, <2>1, <2>2 DEF Kept
<1>10. ASSUME NEW i \in Ids, i # id PROVE Kept(i)'
  <2>1. settled'[i] = settled[i]
    BY <1>1, <1>3, <1>10 DEF Returned
  <2> QED
    BY <1>1, <1>2, <1>10, <2>1, KeptElsewhere
<1> QED
  BY <1>9, <1>10

\* What is accepted of an offer is taken from what is left.
LEMMA AcceptKept ==
    ASSUME Inv, Inv', NEW id \in DOMAIN offers, NEW amount \in Amounts,
           amount <= offers[id].amount,
           offers' = Reduced(id, amount), settled' = Accepted(id, amount),
           anomalies \subseteq anomalies', \A i \in Ids : Kept(i)
    PROVE  \A i \in Ids : Kept(i)'
<1>1. Typed /\ id \in Ids /\ offers[id].amount \in Nat /\ offers[id] \in Offer /\ amount \in Nat
  BY OfferType, Parameters DEF Inv
<1>2. /\ OneOffer(id) /\ DOMAIN offers' \subseteq DOMAIN offers
      /\ id \notin DOMAIN offers' => offers[id].amount = amount
      /\ id \in DOMAIN offers' =>
            offers'[id] = [offers[id] EXCEPT !.amount = offers[id].amount - amount]
  BY <1>1, OfferReduced
<1>3. settled \in [Ids -> Record] /\ settled[id] \in Record
  BY <1>1 DEF Typed, Record
<1>4. /\ settled[id].created \in Nat /\ settled[id].accepted \in Nat /\ settled[id].returned \in Nat
  BY <1>3 DEF Record
<1>5. settled'[id] = [settled[id] EXCEPT !.accepted = settled[id].accepted + amount]
  BY <1>1, <1>3 DEF Accepted
<1>6. /\ settled'[id].created = settled[id].created
      /\ settled'[id].accepted = settled[id].accepted + amount
      /\ settled'[id].returned = settled[id].returned
  BY <1>3, <1>5 DEF Record
<1>7. Left(id) = offers[id].amount /\ Left(id)' = offers[id].amount - amount
  BY <1>1, <1>2 DEF Left, Offer
<1>8. Kept(id)'
  <2>1. /\ settled[id].accepted + offers[id].amount <= settled[id].created
        /\ settled[id].returned <= settled[id].created
        /\ settled[id].returned = 0
        /\ "stale" \notin anomalies' =>
             settled[id].accepted + settled[id].returned + offers[id].amount = settled[id].created
    BY <1>1, <1>7 DEF Kept
  <2>2. settled[id].accepted + amount + (offers[id].amount - amount) <= settled[id].created
    BY <1>1, <1>4, <2>1
  <2>3. "stale" \notin anomalies' =>
          (settled[id].accepted + amount) + settled[id].returned + (offers[id].amount - amount)
             = settled[id].created
    BY <1>1, <1>4, <2>1
  <2> QED
    BY <1>6, <1>7, <2>1, <2>2, <2>3 DEF Kept
<1>9. ASSUME NEW i \in Ids, i # id PROVE Kept(i)'
  <2>1. settled'[i] = settled[i]
    BY <1>1, <1>3, <1>9 DEF Accepted
  <2> QED
    BY <1>1, <1>2, <1>9, <2>1, KeptElsewhere
<1> QED
  BY <1>8, <1>9

\* Every step keeps these accounts,
LEMMA SettledNext ==
    ASSUME Inv, Inv', Settled, [Next]_vars
    PROVE  Settled'
<1> SUFFICES ASSUME "ignored" \notin anomalies'
             PROVE  \A i \in Ids : Kept(i)'
  BY DEF Settled
<1>1. anomalies \subseteq anomalies' /\ Typed
  BY Monotone DEF Inv
<1>2. \A i \in Ids : Kept(i)
  BY <1>1 DEF Settled
<1>3. CASE Quiet
  <2>1. UNCHANGED <<offers, settled, anomalies>>
    BY <1>3, QuietKeeps
  <2> QED
    BY <1>2, <2>1 DEF Kept, Left
<1>4. CASE Handler
  <2>1. PICK p \in Players, ok \in BOOLEAN :
          \/ \E kind \in Kinds, amount \in Amounts, price \in Nat \ {0} :
                 \/ PlayerCreateSellOffer(p, kind, amount, price, ok)
                 \/ PlayerCreateBuyOffer(p, kind, amount, price, ok)
          \/ \E id \in Ids : PlayerCancelMarketOffer(p, id, ok)
          \/ \E id \in Ids, amount \in Amounts :
                 PlayerAcceptBuyOffer(p, id, amount, ok) \/ PlayerAcceptSellOffer(p, id, amount, ok)
    BY <1>4 DEF Handler
  <2>2. CASE \E kind \in Kinds, amount \in Amounts, price \in Nat \ {0} :
                 PlayerCreateSellOffer(p, kind, amount, price, ok)
    <3> DEFINE sale == TRUE
    <3>1. PICK kind \in Kinds, amount \in Amounts, price \in Nat \ {0} :
              /\ nextId <= MaxOffers /\ CreateOffer(p, sale, kind, amount, price, ok)
              /\ Ignored(ok) \subseteq anomalies'
      BY <2>2 DEF PlayerCreateSellOffer
    <3>2. sale \in BOOLEAN /\ ok
      BY <3>1 DEF Ignored
    <3> HIDE DEF sale
    <3>3. ok => \A i \in Ids : Kept(i)'
      BY <1>1, <1>2, <3>1, <3>2, CreateKept
    <3> QED
      BY <3>2, <3>3
  <2>3. CASE \E kind \in Kinds, amount \in Amounts, price \in Nat \ {0} :
                 PlayerCreateBuyOffer(p, kind, amount, price, ok)
    <3> DEFINE sale == FALSE
    <3>1. PICK kind \in Kinds, amount \in Amounts, price \in Nat \ {0} :
              /\ nextId <= MaxOffers /\ CreateOffer(p, sale, kind, amount, price, ok)
              /\ Ignored(ok) \subseteq anomalies'
      BY <2>3 DEF PlayerCreateBuyOffer
    <3>2. sale \in BOOLEAN /\ ok
      BY <3>1 DEF Ignored
    <3> HIDE DEF sale
    <3>3. ok => \A i \in Ids : Kept(i)'
      BY <1>1, <1>2, <3>1, <3>2, CreateKept
    <3> QED
      BY <3>2, <3>3
  <2>4. ASSUME NEW id \in Ids, PlayerCancelMarketOffer(p, id, ok)
        PROVE  \A i \in Ids : Kept(i)'
    <3> DEFINE amount == offers[id].amount
    <3>1. /\ id \in DOMAIN offers /\ settled' = Returned(id, amount)
          /\ offers' = IF ok THEN Without(id) ELSE offers
          /\ Ignored(ok) \subseteq anomalies'
      BY <2>4 DEF PlayerCancelMarketOffer
    <3>2. offers' = Without(id)
      BY <3>1 DEF Ignored
    <3>3. amount \in Nat /\ amount <= settled[id].created
      BY <1>1, <3>1, OfferType DEF Inv, Counted
    <3>4. offers[id].amount # amount => "stale" \in anomalies'
      OBVIOUS
    <3> HIDE DEF amount
    <3> QED
      BY <1>1, <1>2, <3>1, <3>2, <3>3, <3>4, ReturnKept
  <2>5. ASSUME NEW id \in Ids, NEW amount \in Amounts,
               PlayerAcceptBuyOffer(p, id, amount, ok) \/ PlayerAcceptSellOffer(p, id, amount, ok)
        PROVE  \A i \in Ids : Kept(i)'
    <3>1. id \in DOMAIN offers /\ amount <= offers[id].amount /\ Settle(id, amount, ok)
      BY <2>5 DEF PlayerAcceptBuyOffer, PlayerAcceptSellOffer, MayAccept
    <3>2. /\ settled' = Accepted(id, amount)
          /\ offers' = IF ok THEN Reduced(id, amount) ELSE offers
          /\ Ignored(ok) \subseteq anomalies'
      BY <3>1 DEF Settle
    <3>3. offers' = Reduced(id, amount)
      BY <3>2 DEF Ignored
    <3> QED
      BY <1>1, <1>2, <3>1, <3>2, <3>3, AcceptKept
  <2> QED
    BY <2>1, <2>2, <2>3, <2>4, <2>5
<1>5. CASE ExpireRows
  <2>1. PICK r \in rows, ok \in BOOLEAN : ExpireRow(r, ok)
    BY <1>5 DEF ExpireRows
  <2>2. r \in Row /\ r.id \in Ids /\ r.amount \in Nat /\ r.amount <= settled[r.id].created
    BY <2>1, Parameters DEF Inv, Pending, Follows, Row
  <2> DEFINE id == r.id
             amount == r.amount
  <2>3. CASE MoveOfferToHistory(r.id, ok)
    <3>1. /\ id \in DOMAIN offers /\ offers' = Without(id) /\ settled' = Returned(id, amount)
          /\ offers[id].amount # amount => "stale" \in anomalies'
      BY <2>1, <2>3 DEF ExpireRow, MoveOfferToHistory
    <3>2. amount \in Nat /\ amount <= settled[id].created
      BY <2>2
    <3> HIDE DEF id, amount
    <3> QED
      BY <1>1, <1>2, <3>1, <3>2, ReturnKept
  <2>4. CASE ~MoveOfferToHistory(r.id, ok)
    <3>1. UNCHANGED <<offers, settled, anomalies>>
      BY <2>1, <2>4 DEF ExpireRow
    <3> QED
      BY <1>2, <3>1 DEF Kept, Left
  <2> QED
    BY <2>3, <2>4
<1> QED
  BY <1>3, <1>4, <1>5, Steps

\* which are empty at first.
LEMMA SettledInit ==
    ASSUME Init
    PROVE  Settled
<1>1. /\ DOMAIN offers = {}
      /\ settled = [i \in Ids |-> [created |-> 0, accepted |-> 0, returned |-> 0]]
  BY DEF Init
<1> QED
  BY <1>1 DEF Settled, Kept, Left

\* Of every offer no more is given away than was offered, and exactly that much unless a refund
\* was stale: playerAcceptMarketOffer, playerCancelMarketOffer and processExpiredOffers, which
\* works from rows read earlier, never settle the same amount twice.
THEOREM SettledHolds == Spec => []OfferSettledOnce
<1>1. Init => Inv /\ Settled
  BY InvInit, SettledInit
<1>2. (Inv /\ Settled) /\ [Next]_vars => (Inv /\ Settled)'
  BY InvNext, SettledNext
<1>3. Settled => OfferSettledOnce
  BY DEF Settled, OfferSettledOnce, Kept, Left
<1> QED
  BY <1>1, <1>2, <1>3, PTL DEF Spec

-----------------------------------------------------------------------------
(* Goods and money *)

\* What one offer of a table holds
GoodsIn(table, k, i) ==
    IF i \in DOMAIN table /\ table[i].sale /\ table[i].kind = k THEN table[i].amount ELSE 0

MoneyIn(table, i) ==
    IF i \in DOMAIN table /\ ~table[i].sale THEN table[i].price * table[i].amount ELSE 0

\* That is a natural.
LEMMA HeldType ==
    ASSUME NEW table, table \in [DOMAIN table -> Offer], NEW k, NEW i
    PROVE  GoodsIn(table, k, i) \in Nat /\ MoneyIn(table, i) \in Nat
<1>1. CASE i \in DOMAIN table
  <2>1. table[i] \in Offer
    BY <1>1
  <2>2. table[i].amount \in Nat /\ table[i].price \in Nat
    BY <2>1, Parameters DEF Offer
  <2>3. table[i].price * table[i].amount \in Nat
    BY <2>2
  <2> QED
    BY <2>2, <2>3 DEF GoodsIn, MoneyIn
<1>2. CASE i \notin DOMAIN table
  BY <1>2 DEF GoodsIn, MoneyIn
<1> QED
  BY <1>1, <1>2

\* One offer changes, and so does the sum.
LEMMA OnSaleChange ==
    ASSUME Typed, Typed', NEW id \in Ids, OneOffer(id), NEW k \in Kinds
    PROVE  /\ Sum(OnSale(k)) \in Nat /\ Sum(OnSale(k)') \in Nat
           /\ GoodsIn(offers, k, id) \in Nat /\ GoodsIn(offers', k, id) \in Nat
           /\ Sum(OnSale(k)') + GoodsIn(offers, k, id) = Sum(OnSale(k)) + GoodsIn(offers', k, id)
<1> DEFINE f == [i \in Ids |-> GoodsIn(offers, k, i)]
           g == [i \in Ids |-> GoodsIn(offers', k, i)]
<1>1. OnSale(k) = f /\ OnSale(k)' = g
  BY DEF OnSale, GoodsIn
<1>2. offers \in [DOMAIN offers -> Offer] /\ offers' \in [DOMAIN offers' -> Offer]
  BY DEF Typed
<1>3. \A i \in Ids : GoodsIn(offers, k, i) \in Nat /\ GoodsIn(offers', k, i) \in Nat
  BY <1>2, HeldType
<1>4. \A j \in Ids : j # id => GoodsIn(offers', k, j) = GoodsIn(offers, k, j)
  BY DEF OneOffer, GoodsIn
<1>5. /\ f \in [Ids -> Nat] /\ g \in [Ids -> Nat]
      /\ \A j \in Ids : j # id => g[j] = f[j]
      /\ f[id] = GoodsIn(offers, k, id) /\ g[id] = GoodsIn(offers', k, id)
  BY <1>3, <1>4
<1>6. IsFiniteSet(Ids)
  BY Parameters
<1> HIDE DEF f, g
<1>7. Sum(f) \in Nat /\ Sum(g) \in Nat /\ Sum(g) + f[id] = Sum(f) + g[id]
  BY <1>5, <1>6, SumUpdate
<1> QED
  BY <1>1, <1>3, <1>5, <1>7

\* The same for the money the buy offers hold
LEMMA EscrowChange ==
    ASSUME Typed, Typed', NEW id \in Ids, OneOffer(id)
    PROVE  /\ Sum(Escrow) \in Nat /\ Sum(Escrow') \in Nat
           /\ MoneyIn(offers, id) \in Nat /\ MoneyIn(offers', id) \in Nat
           /\ Sum(Escrow') + MoneyIn(offers, id) = Sum(Escrow) + MoneyIn(offers', id)
<1> DEFINE f == [i \in Ids |-> MoneyIn(offers, i)]
           g == [i \in Ids |-> MoneyIn(offers', i)]
<1>1. Escrow = f /\ Escrow' = g
  BY DEF Escrow, MoneyIn
<1>2. offers \in [DOMAIN offers -> Offer] /\ offers' \in [DOMAIN offers' -> Offer]
  BY DEF Typed
<1>3. \A i \in Ids : MoneyIn(offers, i) \in Nat /\ MoneyIn(offers', i) \in Nat
  BY <1>2, HeldType
<1>4. \A j \in Ids : j # id => MoneyIn(offers', j) = MoneyIn(offers, j)
  BY DEF OneOffer, MoneyIn
<1>5. /\ f \in [Ids -> Nat] /\ g \in [Ids -> Nat]
      /\ \A j \in Ids : j # id => g[j] = f[j]
      /\ f[id] = MoneyIn(offers, id) /\ g[id] = MoneyIn(offers', id)
  BY <1>3, <1>4
<1>6. IsFiniteSet(Ids)
  BY Parameters
<1> HIDE DEF f, g
<1>7. Sum(f) \in Nat /\ Sum(g) \in Nat /\ Sum(g) + f[id] = Sum(f) + g[id]
  BY <1>5, <1>6, SumUpdate
<1> QED
  BY <1>1, <1>3, <1>5, <1>7

\* The accounts before a step, the players' and what the offers hold
LEMMA HeldSums ==
    ASSUME Typed, NEW k \in Kinds
    PROVE  /\ Sum(bank) \in Nat /\ Sum(cash) \in Nat /\ Sum(Escrow) \in Nat /\ fees \in Nat
           /\ Owned(k) \in Nat /\ Sum(OnSale(k)) \in Nat
<1> DEFINE f == [i \in Ids |-> GoodsIn(offers, k, i)]
           e == [i \in Ids |-> MoneyIn(offers, i)]
<1>1. OnSale(k) = f /\ Escrow = e
  BY DEF OnSale, GoodsIn, Escrow, MoneyIn
<1>2. offers \in [DOMAIN offers -> Offer]
  BY DEF Typed
<1>3. f \in [Ids -> Nat] /\ e \in [Ids -> Nat]
  BY <1>2, HeldType
<1>4. IsFiniteSet(Ids) /\ IsFiniteSet(Players)
  BY Parameters, MarketAssumption
<1> HIDE DEF f, e
<1>5. Sum(f) \in Nat /\ Sum(e) \in Nat
  BY <1>3, <1>4, SumType
<1>6. bank \in [Players -> Nat] /\ cash \in [Players -> Nat] /\ fees \in Nat
  BY DEF Typed
<1>7. Sum(bank) \in Nat /\ Sum(cash) \in Nat
  BY <1>4, <1>6, SumType
<1> QED
  BY <1>1, <1>5, <1>6, <1>7, OwnedType

\* What one step does to the goods of a kind and to the money
GoodsKept(k) == OfKind(k)' = OfKind(k)

MoneyKept == Money' <= Money /\ ("charged_twice" \notin anomalies' => Money' = Money)

\* What the offer id gains or loses of a kind is what the players lose or gain.
LEMMA GoodsBalance ==
    ASSUME Typed, Typed', NEW id \in Ids, OneOffer(id), NEW k \in Kinds,
           Owned(k)' + GoodsIn(offers', k, id) = Owned(k) + GoodsIn(offers, k, id)
    PROVE  GoodsKept(k)
<1>1. /\ Sum(OnSale(k)) \in Nat /\ Sum(OnSale(k)') \in Nat
      /\ GoodsIn(offers, k, id) \in Nat /\ GoodsIn(offers', k, id) \in Nat
      /\ Sum(OnSale(k)') + GoodsIn(offers, k, id) = Sum(OnSale(k)) + GoodsIn(offers', k, id)
  BY OnSaleChange
<1>2. Owned(k) \in Nat
  BY OwnedType
<1>3. Owned(k)' \in Nat
  <2>1. goods'[k] \in [Players -> Nat] /\ inbox'[k] \in [Players -> Nat]
    BY DEF Typed
  <2>2. IsFiniteSet(Players)
    BY MarketAssumption
  <2> DEFINE f == goods'[k]
             g == inbox'[k]
  <2>3. f \in [Players -> Nat] /\ g \in [Players -> Nat]
    BY <2>1
  <2> HIDE DEF f, g
  <2>4. Sum(f) \in Nat /\ Sum(g) \in Nat
    BY <2>2, <2>3, SumType
  <2> QED
    BY <2>4 DEF f, g, Owned
<1>4. OfKind(k) = Owned(k) + Sum(OnSale(k)) /\ OfKind(k)' = Owned(k)' + Sum(OnSale(k)')
  BY DEF OfKind, Owned
<1> DEFINE a == Owned(k)
           b == Owned(k)'
           c == Sum(OnSale(k))
           d == Sum(OnSale(k)')
<1>5. /\ a \in Nat /\ b \in Nat /\ c \in Nat /\ d \in Nat
      /\ d + GoodsIn(offers, k, id) = c + GoodsIn(offers', k, id)
      /\ b + GoodsIn(offers', k, id) = a + GoodsIn(offers, k, id)
  BY <1>1, <1>2, <1>3
<1> HIDE DEF a, b, c, d
<1>6. b + d = a + c
  BY <1>1, <1>5
<1> QED
  BY <1>4, <1>6 DEF a, b, c, d, GoodsKept

-----------------------------------------------------------------------------
(* The goods, handler by handler *)

\* Goods on sale after the creation of an offer
LEMMA CreatedHolds ==
    ASSUME Typed, NEW id \in Ids, id = nextId, NEW p \in Players, NEW sale \in BOOLEAN,
           NEW kind \in Kinds, NEW amount \in Amounts, NEW price \in Nat \ {0}, NEW ok \in BOOLEAN,
           nextId <= MaxOffers, CreateOffer(p, sale, kind, amount, price, ok)
    PROVE  /\ OneOffer(id)
           /\ \A k \in Kinds : GoodsIn(offers, k, id) = 0
           /\ MoneyIn(offers, id) = 0
           /\ ok => /\ \A k \in Kinds :
                         GoodsIn(offers', k, id) = IF sale /\ kind = k THEN amount ELSE 0
                    /\ MoneyIn(offers', id) = IF sale THEN 0 ELSE price * amount
<1>1. /\ OneOffer(nextId) /\ nextId \notin DOMAIN offers
      /\ ok => /\ nextId \in DOMAIN offers'
               /\ offers'[nextId] = [owner |-> p, sale |-> sale, kind |-> kind,
                                     amount |-> amount, price |-> price]
  BY OfferCreated
<1>2. OneOffer(id) /\ id \notin DOMAIN offers
  BY <1>1
<1>3. ASSUME ok
      PROVE  /\ id \in DOMAIN offers' /\ offers'[id].sale = sale /\ offers'[id].kind = kind
             /\ offers'[id].amount = amount /\ offers'[id].price = price
  BY <1>1, <1>3
<1>4. (\A k \in Kinds : GoodsIn(offers, k, id) = 0) /\ MoneyIn(offers, id) = 0
  BY <1>2 DEF GoodsIn, MoneyIn
<1>5. ASSUME ok
      PROVE  /\ \A k \in Kinds : GoodsIn(offers', k, id) = IF sale /\ kind = k THEN amount ELSE 0
             /\ MoneyIn(offers', id) = IF sale THEN 0 ELSE price * amount
  BY <1>3, <1>5 DEF GoodsIn, MoneyIn
<1> QED
  BY <1>2, <1>4, <1>5

\* the same after its end,
LEMMA RemovedHolds ==
    ASSUME Typed, NEW id \in DOMAIN offers, offers' = Without(id)
    PROVE  /\ OneOffer(id)
           /\ \A k \in Kinds : GoodsIn(offers', k, id) = 0
           /\ MoneyIn(offers', id) = 0
<1>1. OneOffer(id) /\ id \notin DOMAIN offers'
  BY OfferRemoved
<1> QED
  BY <1>1 DEF GoodsIn, MoneyIn

\* What is left and what is accepted cost together what the offer did.
LEMMA Distributes ==
    ASSUME NEW a \in Nat, NEW b \in Nat, NEW c \in Nat, c <= b
    PROVE  a * b = a * (b - c) + a * c
  OBVIOUS

\* and after the acceptance of an amount
LEMMA ReducedHolds ==
    ASSUME Typed, NEW id \in DOMAIN offers, NEW amount \in Amounts, amount <= offers[id].amount,
           offers' = Reduced(id, amount)
    PROVE  /\ OneOffer(id)
           /\ \A k \in Kinds : GoodsIn(offers, k, id) = GoodsIn(offers', k, id)
                  + IF offers[id].sale /\ offers[id].kind = k THEN amount ELSE 0
           /\ MoneyIn(offers, id) = MoneyIn(offers', id)
                  + IF offers[id].sale THEN 0 ELSE offers[id].price * amount
<1>1. /\ OneOffer(id)
      /\ id \notin DOMAIN offers' => offers[id].amount = amount
      /\ id \in DOMAIN offers' =>
            offers'[id] = [offers[id] EXCEPT !.amount = offers[id].amount - amount]
  BY OfferReduced
<1>2. /\ offers[id] \in Offer /\ offers[id].amount \in Nat /\ amount \in Nat
      /\ offers[id].price \in Nat /\ offers[id].sale \in BOOLEAN
  BY OfferType, Parameters
<1>3. CASE id \in DOMAIN offers'
  <2>1. /\ offers'[id].sale = offers[id].sale /\ offers'[id].kind = offers[id].kind
        /\ offers'[id].price = offers[id].price
        /\ offers'[id].amount = offers[id].amount - amount
    BY <1>1, <1>2, <1>3 DEF Offer
  <2> DEFINE a == offers[id].price
             b == offers[id].amount
  <2>2. a \in Nat /\ b \in Nat /\ amount <= b
    BY <1>2
  <2> HIDE DEF a, b
  <2>3. a * b = a * (b - amount) + a * amount /\ a * b \in Nat /\ a * (b - amount) \in Nat
    <3>1. b - amount \in Nat
      BY <1>2, <2>2
    <3>2. a * b \in Nat /\ a * (b - amount) \in Nat
      BY <2>2, <3>1
    <3>3. a * b = a * (b - amount) + a * amount
      BY <1>2, <2>2, Distributes
    <3> QED
      BY <3>2, <3>3
  <2>4. \A k \in Kinds : GoodsIn(offers, k, id) = GoodsIn(offers', k, id)
            + IF offers[id].sale /\ offers[id].kind = k THEN amount ELSE 0
    BY <1>2, <1>3, <2>1 DEF GoodsIn
  <2>5. CASE offers[id].sale
    BY <1>1, <1>3, <2>1, <2>4, <2>5 DEF MoneyIn
  <2>6. CASE ~offers[id].sale
    <3>1. MoneyIn(offers, id) = a * b /\ MoneyIn(offers', id) = a * (b - amount)
      BY <1>3, <2>1, <2>6 DEF MoneyIn, a, b
    <3> QED
      BY <1>1, <2>3, <2>4, <2>6, <3>1 DEF a
  <2> QED
    BY <2>5, <2>6
<1>4. CASE id \notin DOMAIN offers'
  <2>1. offers[id].amount = amount
    BY <1>1, <1>4
  <2>2. \A k \in Kinds : GoodsIn(offers, k, id) = GoodsIn(offers', k, id)
            + IF offers[id].sale /\ offers[id].kind = k THEN amount ELSE 0
    BY <1>2, <1>4, <2>1 DEF GoodsIn
  <2>3. offers[id].price * amount \in Nat
    BY <1>2
  <2>4. MoneyIn(offers, id) = MoneyIn(offers', id)
            + IF offers[id].sale THEN 0 ELSE offers[id].price * amount
    BY <1>2, <1>4, <2>1, <2>3 DEF MoneyIn
  <2> QED
    BY <1>1, <2>2, <2>4
<1> QED
  BY <1>3, <1>4

\* What a row in the table holds
LEMMA ExistingHolds ==
    ASSUME Typed, NEW id \in DOMAIN offers
    PROVE  /\ \A k \in Kinds : GoodsIn(offers, k, id) =
                  IF offers[id].sale /\ offers[id].kind = k THEN offers[id].amount ELSE 0
           /\ MoneyIn(offers, id) =
                  IF offers[id].sale THEN 0 ELSE offers[id].price * offers[id].amount
  BY DEF GoodsIn, MoneyIn

\* A step that touches no goods
LEMMA GoodsQuiet ==
    ASSUME NEW k, UNCHANGED <<goods, inbox, offers>>
    PROVE  GoodsKept(k)
  BY DEF GoodsKept, OfKind, OnSale

\* Selling: the goods go from the depot or the account into the offer.
LEMMA GoodsSell ==
    ASSUME Typed, Typed', NEW p \in Players, NEW kind \in Kinds, NEW amount \in Amounts,
           NEW price \in Nat \ {0}, NEW ok \in BOOLEAN,
           PlayerCreateSellOffer(p, kind, amount, price, ok), "ignored" \notin anomalies',
           NEW k \in Kinds
    PROVE  GoodsKept(k)
<1> DEFINE sale == TRUE
<1>1. /\ nextId <= MaxOffers /\ CreateOffer(p, sale, kind, amount, price, ok)
      /\ goods' = [goods EXCEPT ![kind][p] = goods[kind][p] - amount] /\ inbox' = inbox
      /\ amount <= goods[kind][p] /\ Ignored(ok) \subseteq anomalies'
  BY DEF PlayerCreateSellOffer, HasGoods
<1>2. sale \in BOOLEAN /\ sale /\ ok
  BY <1>1 DEF Ignored
<1>3. nextId \in Ids
  BY <1>1, Parameters DEF Typed, Ids
<1>4. PICK id \in Ids : id = nextId
  BY <1>3
<1>5. /\ OneOffer(id) /\ GoodsIn(offers, k, id) = 0
      /\ ok => GoodsIn(offers', k, id) = IF sale /\ kind = k THEN amount ELSE 0
  <2>1. sale \in BOOLEAN
    BY <1>2
  <2> HIDE DEF sale
  <2> QED
    BY <1>1, <1>4, <2>1, CreatedHolds
<1>6. GoodsIn(offers', k, id) = IF kind = k THEN amount ELSE 0
  BY <1>2, <1>5
<1> DEFINE v == goods[kind][p] - amount
<1>7. /\ goods[kind][p] \in Nat /\ amount \in Nat /\ v \in Nat /\ v + amount = goods[kind][p]
      /\ goods \in [Kinds -> [Players -> Nat]] /\ Sum(inbox[kind]) \in Nat
  BY <1>1, Parameters, OwnedType DEF Typed
<1>8. GoodsChange(goods, goods', kind, p, v)
  <2>1. goods' = [goods EXCEPT ![kind][p] = v]
    BY <1>1
  <2> HIDE DEF v
  <2>2. GoodsChange(goods, [goods EXCEPT ![kind][p] = v], kind, p, v)
    BY <1>7, GoodsUpdate
  <2> QED
    BY <2>1, <2>2
<1> HIDE DEF v
<1>9. Sum(goods'[kind]) + amount = Sum(goods[kind]) /\ Sum(goods[kind]) \in Nat
      /\ Sum(goods'[kind]) \in Nat
  <2>1. /\ Sum(goods'[kind]) + goods[kind][p] = Sum(goods[kind]) + v
        /\ Sum(goods[kind]) \in Nat /\ Sum(goods'[kind]) \in Nat
    BY <1>8 DEF GoodsChange
  <2>2. goods[kind][p] \in Nat /\ amount \in Nat /\ v \in Nat /\ v + amount = goods[kind][p]
    BY <1>7
  <2>3. Sum(goods'[kind]) + amount = Sum(goods[kind])
    BY <2>1, <2>2
  <2> QED
    BY <2>1, <2>3
<1>10. Owned(k)' + GoodsIn(offers', k, id) = Owned(k) + GoodsIn(offers, k, id)
  <2>1. CASE k = kind
    <3>1. /\ Owned(k)' = Sum(goods'[kind]) + Sum(inbox[kind])
          /\ Owned(k) = Sum(goods[kind]) + Sum(inbox[kind])
      BY <1>1, <2>1 DEF Owned
    <3>2. GoodsIn(offers', k, id) = amount /\ GoodsIn(offers, k, id) = 0
      BY <1>5, <1>6, <2>1
    <3>3. amount \in Nat /\ Sum(inbox[kind]) \in Nat
      BY <1>7
    <3> QED
      BY <1>9, <3>1, <3>2, <3>3
  <2>2. CASE k # kind
    <3>1. goods'[k] = goods[k]
      BY <1>8, <2>2 DEF GoodsChange
    <3>2. Owned(k)' = Owned(k)
      BY <1>1, <3>1 DEF Owned
    <3> QED
      BY <1>5, <1>6, <2>2, <3>2
  <2> QED
    BY <2>1, <2>2
<1> QED
  BY <1>5, <1>10, GoodsBalance

\* Buying: no goods move.
LEMMA GoodsBuy ==
    ASSUME Typed, Typed', NEW p \in Players, NEW kind \in Kinds, NEW amount \in Amounts,
           NEW price \in Nat \ {0}, NEW ok \in BOOLEAN,
           PlayerCreateBuyOffer(p, kind, amount, price, ok), "ignored" \notin anomalies',
           NEW k \in Kinds
    PROVE  GoodsKept(k)
<1> DEFINE sale == FALSE
<1>1. /\ nextId <= MaxOffers /\ CreateOffer(p, sale, kind, amount, price, ok)
      /\ goods' = goods /\ inbox' = inbox /\ Ignored(ok) \subseteq anomalies'
  BY DEF PlayerCreateBuyOffer
<1>2. sale \in BOOLEAN /\ ~sale /\ ok
  BY <1>1 DEF Ignored
<1>3. PICK id \in Ids : id = nextId
  BY <1>1, Parameters DEF Typed, Ids
<1>4. /\ OneOffer(id) /\ GoodsIn(offers, k, id) = 0
      /\ ok => GoodsIn(offers', k, id) = IF sale /\ kind = k THEN amount ELSE 0
  <2>1. sale \in BOOLEAN
    BY <1>2
  <2> HIDE DEF sale
  <2> QED
    BY <1>1, <1>3, <2>1, CreatedHolds
<1>5. GoodsIn(offers', k, id) = GoodsIn(offers, k, id)
  BY <1>2, <1>4
<1>6. Owned(k)' = Owned(k)
  BY <1>1 DEF Owned
<1> QED
  BY <1>4, <1>5, <1>6, GoodsBalance

\* Goods given to a player that the offer held
LEMMA GoodsMoved ==
    ASSUME Typed, Typed', NEW id \in Ids, OneOffer(id), NEW kind \in Kinds, NEW amount \in Nat,
           Owned(kind)' = Owned(kind) + amount,
           \A j \in Kinds : j # kind => Owned(j)' = Owned(j),
           \A j \in Kinds : GoodsIn(offers, j, id) =
               GoodsIn(offers', j, id) + IF kind = j THEN amount ELSE 0,
           NEW k \in Kinds
    PROVE  GoodsKept(k)
<1>1. Owned(kind) \in Nat
  BY OwnedType
<1>2. offers' \in [DOMAIN offers' -> Offer]
  BY DEF Typed
<1>3. GoodsIn(offers', k, id) \in Nat
  BY <1>2, HeldType
<1>4. Owned(k)' + GoodsIn(offers', k, id) = Owned(k) + GoodsIn(offers, k, id)
  <2>1. CASE k = kind
    <3>1. /\ Owned(k)' = Owned(k) + amount /\ Owned(k) \in Nat
          /\ GoodsIn(offers, k, id) = GoodsIn(offers', k, id) + amount
      BY <1>1, <2>1
    <3> QED
      BY <1>3, <3>1
  <2>2. CASE k # kind
    <3>1. Owned(k)' = Owned(k) /\ GoodsIn(offers, k, id) = GoodsIn(offers', k, id)
      BY <1>3, <2>2
    <3> QED
      BY <3>1
  <2> QED
    BY <2>1, <2>2
<1> QED
  BY <1>4, GoodsBalance

\* Cancelling: the offer gives back what it holds.
LEMMA GoodsCancel ==
    ASSUME Typed, Typed', NEW p \in Players, NEW id \in Ids, NEW ok \in BOOLEAN,
           PlayerCancelMarketOffer(p, id, ok), "ignored" \notin anomalies', NEW k \in Kinds
    PROVE  GoodsKept(k)
<1>1. id \in DOMAIN offers
  BY DEF PlayerCancelMarketOffer
<1>2. PICK kind \in Kinds : kind = offers[id].kind
  BY <1>1, OfferType
<1> DEFINE amount == offers[id].amount
<1>3. /\ id \in DOMAIN offers /\ offers' = IF ok THEN Without(id) ELSE offers
      /\ Ignored(ok) \subseteq anomalies'
      /\ IF offers[id].sale THEN Delivered(p, kind, amount) ELSE UNCHANGED <<goods, inbox>>
  BY <1>2 DEF PlayerCancelMarketOffer
<1>4. offers' = Without(id)
  BY <1>3 DEF Ignored
<1>5. kind \in Kinds /\ amount \in Nat
  BY <1>3, OfferType
<1>6. OneOffer(id) /\ \A j \in Kinds : GoodsIn(offers', j, id) = 0
  BY <1>3, <1>4, RemovedHolds
<1>7. \A j \in Kinds : GoodsIn(offers, j, id) =
          IF offers[id].sale /\ kind = j THEN amount ELSE 0
  BY <1>3, <1>2, ExistingHolds
<1> HIDE DEF amount
<1>8. CASE offers[id].sale
  <2>1. Owned(kind)' = Owned(kind) + amount /\ \A j \in Kinds : j # kind => Owned(j)' = Owned(j)
    BY <1>3, <1>5, <1>8, GoodsDelivered
  <2>2. \A j \in Kinds : GoodsIn(offers, j, id) =
            GoodsIn(offers', j, id) + IF kind = j THEN amount ELSE 0
    BY <1>5, <1>6, <1>7, <1>8
  <2> QED
    BY <1>5, <1>6, <2>1, <2>2, GoodsMoved
<1>9. CASE ~offers[id].sale
  <2>1. Owned(k)' = Owned(k)
    BY <1>3, <1>9 DEF Owned
  <2>2. GoodsIn(offers', k, id) = GoodsIn(offers, k, id)
    BY <1>6, <1>7, <1>9
  <2> QED
    BY <1>6, <2>1, <2>2, GoodsBalance
<1> QED
  BY <1>8, <1>9

\* Accepting a buy offer: one player's goods become another's.
LEMMA GoodsAcceptBuy ==
    ASSUME Typed, Typed', NEW p \in Players, NEW id \in Ids, NEW amount \in Amounts,
           NEW ok \in BOOLEAN, PlayerAcceptBuyOffer(p, id, amount, ok),
           "ignored" \notin anomalies', NEW k \in Kinds
    PROVE  GoodsKept(k)
<1> DEFINE owner == offers[id].owner
           kind == offers[id].kind
<1>1. /\ id \in DOMAIN offers /\ amount <= offers[id].amount /\ owner # p /\ ~offers[id].sale
      /\ amount <= goods[kind][p] /\ Settle(id, amount, ok)
  BY DEF PlayerAcceptBuyOffer, MayAccept, HasGoods
<1>2. IF kind = "coin"
      THEN /\ goods' = [goods EXCEPT !["coin"][p] = @ - amount, !["coin"][owner] = @ + amount]
           /\ UNCHANGED inbox
      ELSE /\ goods' = [goods EXCEPT !["ware"][p] = @ - amount]
           /\ inbox' = [inbox EXCEPT !["ware"][owner] = @ + amount]
  BY DEF PlayerAcceptBuyOffer
<1>3. owner \in Players /\ kind \in Kinds /\ amount \in Nat /\ p # owner
  BY <1>1, OfferType, Parameters
<1>4. offers' = Reduced(id, amount)
  BY <1>1 DEF Settle, Ignored
<1> HIDE DEF owner, kind
<1>5. Owned(k)' = Owned(k)
  BY <1>1, <1>2, <1>3, GoodsGiven
<1>6. /\ OneOffer(id)
      /\ GoodsIn(offers, k, id) = GoodsIn(offers', k, id)
             + IF offers[id].sale /\ offers[id].kind = k THEN amount ELSE 0
  BY <1>1, <1>4, ReducedHolds
<1>7. GoodsIn(offers', k, id) = GoodsIn(offers, k, id)
  <2>1. offers' \in [DOMAIN offers' -> Offer]
    BY DEF Typed
  <2>2. GoodsIn(offers', k, id) \in Nat
    BY <2>1, HeldType
  <2> QED
    BY <1>1, <1>6, <2>2
<1> QED
  BY <1>5, <1>6, <1>7, GoodsBalance

\* Accepting a sell offer: the goods come out of the offer.
LEMMA GoodsAcceptSell ==
    ASSUME Typed, Typed', NEW p \in Players, NEW id \in Ids, NEW amount \in Amounts,
           NEW ok \in BOOLEAN, PlayerAcceptSellOffer(p, id, amount, ok),
           "ignored" \notin anomalies', NEW k \in Kinds
    PROVE  GoodsKept(k)
<1>1. id \in DOMAIN offers
  BY DEF PlayerAcceptSellOffer, MayAccept
<1>2. PICK kind \in Kinds : kind = offers[id].kind
  BY <1>1, OfferType
<1>3. /\ id \in DOMAIN offers /\ amount <= offers[id].amount /\ offers[id].sale
      /\ Delivered(p, kind, amount) /\ Settle(id, amount, ok)
  BY <1>2 DEF PlayerAcceptSellOffer, MayAccept
<1>4. kind \in Kinds /\ amount \in Nat
  BY <1>3, OfferType, Parameters
<1>5. offers' = Reduced(id, amount)
  BY <1>3 DEF Settle, Ignored
<1>6. /\ OneOffer(id)
      /\ \A j \in Kinds : GoodsIn(offers, j, id) = GoodsIn(offers', j, id)
             + IF offers[id].sale /\ kind = j THEN amount ELSE 0
  BY <1>3, <1>5, <1>2, ReducedHolds
<1>7. Owned(kind)' = Owned(kind) + amount /\ \A j \in Kinds : j # kind => Owned(j)' = Owned(j)
  BY <1>3, <1>4, GoodsDelivered
<1>8. \A j \in Kinds : GoodsIn(offers, j, id) =
          GoodsIn(offers', j, id) + IF kind = j THEN amount ELSE 0
  BY <1>3, <1>6
<1> QED
  BY <1>4, <1>6, <1>7, <1>8, GoodsMoved

\* Expiry, with the amount the offer still has: it gives back what it holds.
LEMMA GoodsExpire ==
    ASSUME Typed, Typed', NEW r, Follows(r), NEW ok \in BOOLEAN, ExpireRow(r, ok),
           "stale" \notin anomalies', NEW k \in Kinds
    PROVE  GoodsKept(k)
<1> DEFINE moved == MoveOfferToHistory(r.id, ok)
           id == r.id
           kind == r.kind
           owner == r.owner
           amount == r.amount
<1>1. /\ offers' = IF moved THEN Without(id) ELSE offers
      /\ inbox' = IF moved /\ r.sale
                  THEN [inbox EXCEPT ![kind][owner] = inbox[kind][owner] + amount] ELSE inbox
      /\ goods' = goods
      /\ moved => id \in DOMAIN offers /\ offers[id].amount = amount
  BY DEF ExpireRow, MoveOfferToHistory
<1>2. /\ id \in Ids /\ kind \in Kinds /\ owner \in Players /\ amount \in Nat
      /\ id \in DOMAIN offers => offers[id].sale = r.sale /\ offers[id].kind = kind
  BY Parameters DEF Follows, Row
<1> HIDE DEF moved, id, kind, owner, amount
<1>3. CASE moved
  <2>1. offers' = Without(id) /\ id \in DOMAIN offers
    BY <1>1, <1>3
  <2>2. OneOffer(id) /\ \A j \in Kinds : GoodsIn(offers', j, id) = 0
    BY <2>1, RemovedHolds
  <2>3. \A j \in Kinds : GoodsIn(offers, j, id) =
            IF offers[id].sale /\ offers[id].kind = j THEN offers[id].amount ELSE 0
    BY <2>1, ExistingHolds
  <2>4. \A j \in Kinds : GoodsIn(offers, j, id) = IF r.sale /\ kind = j THEN amount ELSE 0
    BY <1>1, <1>2, <1>3, <2>1, <2>3
  <2>5. CASE r.sale
    <3> DEFINE v == inbox[kind][owner] + amount
    <3>1. inbox \in [Kinds -> [Players -> Nat]] /\ inbox[kind][owner] \in Nat /\ v \in Nat
      BY <1>2 DEF Typed
    <3>2. inbox' = [inbox EXCEPT ![kind][owner] = v] /\ v = inbox[kind][owner] + amount
      BY <1>1, <1>3, <2>5
    <3> HIDE DEF v
    <3>3. GoodsChange(inbox, inbox', kind, owner, v)
      <4>1. GoodsChange(inbox, [inbox EXCEPT ![kind][owner] = v], kind, owner, v)
        BY <1>2, <3>1, GoodsUpdate
      <4> QED
        BY <3>2, <4>1
    <3>4. /\ Sum(inbox'[kind]) + inbox[kind][owner] = Sum(inbox[kind]) + v
          /\ Sum(inbox[kind]) \in Nat /\ Sum(inbox'[kind]) \in Nat
      BY <3>3 DEF GoodsChange
    <3>5. Sum(inbox'[kind]) = Sum(inbox[kind]) + amount
      <4> DEFINE x == inbox[kind][owner]
                 s == Sum(inbox[kind])
                 t == Sum(inbox'[kind])
      <4>1. x \in Nat /\ amount \in Nat /\ v = x + amount /\ s \in Nat /\ t \in Nat /\ t + x = s + v
        BY <1>2, <3>1, <3>2, <3>4
      <4> HIDE DEF x, s, t
      <4>2. t = s + amount
        BY <4>1
      <4> QED
        BY <4>2 DEF s, t
    <3>6. Sum(goods[kind]) \in Nat
      BY <1>2, OwnedType
    <3>7. Owned(kind)' = Owned(kind) + amount
      <4>1. Sum(goods[kind]) + (Sum(inbox[kind]) + amount)
                = Sum(goods[kind]) + Sum(inbox[kind]) + amount
        BY <1>2, <3>4, <3>6
      <4>2. Sum(goods'[kind]) + Sum(inbox'[kind]) = Sum(goods[kind]) + Sum(inbox[kind]) + amount
        BY <1>1, <3>5, <4>1
      <4>3. kind' = kind
        BY DEF kind
      <4> QED
        BY <4>2, <4>3 DEF Owned
    <3>8. \A j \in Kinds : j # kind => Owned(j)' = Owned(j)
      BY <1>1, <3>3 DEF GoodsChange, Owned
    <3>9. \A j \in Kinds : GoodsIn(offers, j, id) =
              GoodsIn(offers', j, id) + IF kind = j THEN amount ELSE 0
      BY <1>2, <2>2, <2>4, <2>5
    <3> QED
      BY <1>2, <2>2, <3>7, <3>8, <3>9, GoodsMoved
  <2>6. CASE ~r.sale
    <3>1. Owned(k)' = Owned(k)
      BY <1>1, <2>6 DEF Owned
    <3>2. GoodsIn(offers', k, id) = GoodsIn(offers, k, id)
      BY <2>2, <2>4, <2>6
    <3> QED
      BY <1>2, <2>2, <3>1, <3>2, GoodsBalance
  <2> QED
    BY <2>5, <2>6
<1>4. CASE ~moved
  BY <1>1, <1>4, GoodsQuiet
<1> QED
  BY <1>3, <1>4

-----------------------------------------------------------------------------
(* The money, handler by handler *)

\* What the players have, in the bank and in the pocket
Purses == Sum(bank) + Sum(cash)

\* These sums are naturals,
LEMMA PursesType ==
    ASSUME Typed
    PROVE  Purses \in Nat /\ Sum(Escrow) \in Nat /\ fees \in Nat
<1> DEFINE k == "ware"
<1>1. k \in Kinds
  BY DEF Kinds
<1> HIDE DEF k
<1>2. Sum(bank) \in Nat /\ Sum(cash) \in Nat /\ Sum(Escrow) \in Nat /\ fees \in Nat
  BY <1>1, HeldSums
<1> QED
  BY <1>2 DEF Purses

\* also after the step.
LEMMA PursesTypeNext ==
    ASSUME Typed'
    PROVE  Purses' \in Nat /\ fees' \in Nat
<1>1. bank' \in [Players -> Nat] /\ cash' \in [Players -> Nat] /\ fees' \in Nat
  BY DEF Typed
<1>2. IsFiniteSet(Players)
  BY MarketAssumption
<1>3. Sum(bank') \in Nat /\ Sum(cash') \in Nat
  BY <1>1, <1>2, SumType
<1>4. Purses' = Sum(bank') + Sum(cash')
  BY DEF Purses
<1> QED
  BY <1>1, <1>3, <1>4

\* What the offer id and the fees gain the players lose.
LEMMA MoneyBalance ==
    ASSUME Typed, Typed', NEW id \in Ids, OneOffer(id),
           Purses' + MoneyIn(offers', id) + fees' = Purses + MoneyIn(offers, id) + fees
    PROVE  MoneyKept
<1>1. /\ Sum(Escrow) \in Nat /\ Sum(Escrow') \in Nat
      /\ MoneyIn(offers, id) \in Nat /\ MoneyIn(offers', id) \in Nat
      /\ Sum(Escrow') + MoneyIn(offers, id) = Sum(Escrow) + MoneyIn(offers', id)
  BY EscrowChange
<1>2. Purses \in Nat /\ fees \in Nat /\ Purses' \in Nat /\ fees' \in Nat
  BY PursesType, PursesTypeNext
<1>3. Money = Purses + Sum(Escrow) + fees /\ Money' = Purses' + Sum(Escrow') + fees'
  BY DEF Money, Purses
<1> DEFINE a == Purses
           b == Purses'
           c == Sum(Escrow)
           d == Sum(Escrow')
           x == MoneyIn(offers, id)
           y == MoneyIn(offers', id)
           f == fees
           g == fees'
<1>4. /\ a \in Nat /\ b \in Nat /\ c \in Nat /\ d \in Nat /\ x \in Nat /\ y \in Nat
      /\ f \in Nat /\ g \in Nat
      /\ d + x = c + y /\ b + y + g = a + x + f
  BY <1>1, <1>2
<1> HIDE DEF a, b, c, d, x, y, f, g
<1>5. b + d + g = a + c + f /\ b + d + g \in Nat
  BY <1>4
<1>6. Money' = Money /\ Money \in Nat
  BY <1>3, <1>4, <1>5 DEF a, b, c, d, f, g
<1> QED
  BY <1>6 DEF MoneyKept

\* What a player pays is taken, or more.
LEMMA PursesCharged ==
    ASSUME Typed, NEW p \in Players, NEW money \in Nat, NEW b \in Nat, NEW c \in Nat,
           bank' = [bank EXCEPT ![p] = b], cash' = [cash EXCEPT ![p] = c],
           c + b + money <= cash[p] + bank[p]
    PROVE  /\ Purses' + money <= Purses
           /\ c + b + money = cash[p] + bank[p] => Purses' + money = Purses
<1> DEFINE b1 == Sum(bank)
           b2 == Sum(bank')
           c1 == Sum(cash)
           c2 == Sum(cash')
           x == bank[p]
           y == cash[p]
<1>1. /\ b1 \in Nat /\ b2 \in Nat /\ c1 \in Nat /\ c2 \in Nat
      /\ b2 + x = b1 + b /\ c2 + y = c1 + c
  BY MoneyTaken
<1>2. x \in Nat /\ y \in Nat /\ c + b + money <= y + x
  BY DEF Typed
<1>3. Purses = b1 + c1 /\ Purses' = b2 + c2
  BY DEF Purses
<1>4. c + b + money = cash[p] + bank[p] => c + b + money = y + x
  OBVIOUS
<1> HIDE DEF b1, b2, c1, c2, x, y
<1>5. b2 + c2 + money <= b1 + c1 /\ (c + b + money = y + x => b2 + c2 + money = b1 + c1)
  BY <1>1, <1>2
<1> QED
  BY <1>3, <1>4, <1>5

\* The creation of an offer, with what removeMoney() may take twice
LEMMA MoneyCharged ==
    ASSUME Typed, Typed', NEW id \in Ids, OneOffer(id), NEW twice \in BOOLEAN,
           NEW fee \in Nat, NEW cost \in Nat, fees' = fees + fee,
           MoneyIn(offers, id) = 0, MoneyIn(offers', id) = cost,
           Purses' + (fee + cost) <= Purses,
           ~twice => Purses' + (fee + cost) = Purses,
           twice => "charged_twice" \in anomalies'
    PROVE  MoneyKept
<1>1. /\ Sum(Escrow) \in Nat /\ Sum(Escrow') \in Nat
      /\ Sum(Escrow') + MoneyIn(offers, id) = Sum(Escrow) + MoneyIn(offers', id)
  BY EscrowChange
<1> DEFINE a == Purses
           b == Purses'
           c == Sum(Escrow)
           d == Sum(Escrow')
           f == fees
<1>2. /\ a \in Nat /\ b \in Nat /\ c \in Nat /\ d \in Nat /\ f \in Nat
      /\ d + 0 = c + cost
  BY <1>1, PursesType, PursesTypeNext
<1>3. b + (fee + cost) <= a /\ (~twice => b + (fee + cost) = a)
  OBVIOUS
<1>4. Money = a + c + f /\ Money' = b + d + (f + fee)
  BY DEF Money, Purses
<1> HIDE DEF a, b, c, d, f
<1>5. b + d + (f + fee) <= a + c + f /\ (~twice => b + d + (f + fee) = a + c + f)
  BY <1>2, <1>3
<1>6. Money' <= Money /\ (~twice => Money' = Money)
  BY <1>4, <1>5
<1> QED
  BY <1>6 DEF MoneyKept

\* A step that touches no money
LEMMA MoneyQuiet ==
    ASSUME Typed, UNCHANGED <<bank, cash, offers, fees>>
    PROVE  MoneyKept
<1>1. Money' = Money
  BY DEF Money, Escrow
<1>2. Money \in Nat
  <2>1. Money = Purses + Sum(Escrow) + fees
    BY DEF Money, Purses
  <2> QED
    BY <2>1, PursesType
<1> QED
  BY <1>1, <1>2 DEF MoneyKept

\* Selling: only the fee is paid.
LEMMA MoneySell ==
    ASSUME Typed, Typed', NEW p \in Players, NEW kind \in Kinds, NEW amount \in Amounts,
           NEW price \in Nat \ {0}, NEW ok \in BOOLEAN,
           PlayerCreateSellOffer(p, kind, amount, price, ok), "ignored" \notin anomalies'
    PROVE  MoneyKept
<1> DEFINE sale == TRUE
           fee == Fee(price, amount)
           paid == RemoveMoney(cash[p], bank[p], fee)
           b == paid.bank
           c == paid.cash
           twice == paid.twice
<1>1. /\ nextId <= MaxOffers /\ CreateOffer(p, sale, kind, amount, price, ok)
      /\ fee <= bank[p] + cash[p] /\ Ignored(ok) \subseteq anomalies'
      /\ cash' = [cash EXCEPT ![p] = c] /\ bank' = [bank EXCEPT ![p] = b]
      /\ fees' = fees + fee
  BY DEF PlayerCreateSellOffer
<1>2. twice => "charged_twice" \in anomalies'
  BY DEF PlayerCreateSellOffer
<1>3. sale \in BOOLEAN /\ sale /\ ok
  BY <1>1 DEF Ignored
<1>4. PICK id \in Ids : id = nextId
  BY <1>1, Parameters DEF Typed, Ids
<1>5. /\ OneOffer(id) /\ MoneyIn(offers, id) = 0
      /\ ok => MoneyIn(offers', id) = IF sale THEN 0 ELSE price * amount
  <2>1. sale \in BOOLEAN
    BY <1>3
  <2> HIDE DEF sale
  <2> QED
    BY <1>1, <1>4, <2>1, CreatedHolds
<1>6. MoneyIn(offers', id) = 0
  BY <1>3, <1>5
<1>7. cash[p] \in Nat /\ bank[p] \in Nat /\ price \in Nat /\ amount \in Nat
  BY Parameters DEF Typed
<1>8. fee \in Nat
  BY <1>7, TotalType
<1> HIDE DEF fee
<1>9. fee <= cash[p] + bank[p]
  BY <1>1, <1>7, <1>8
<1>10. /\ b \in Nat /\ c \in Nat /\ twice \in BOOLEAN /\ c + b + fee <= cash[p] + bank[p]
       /\ ~twice => c + b + fee = cash[p] + bank[p]
  <2> DEFINE x == cash[p]
             y == bank[p]
             r == RemoveMoney(x, y, fee)
  <2>1. x \in Nat /\ y \in Nat /\ fee \in Nat /\ fee <= x + y
    BY <1>7, <1>8, <1>9
  <2>2. r.cash = c /\ r.bank = b /\ r.twice = twice
    OBVIOUS
  <2> HIDE DEF x, y, b, c, twice
  <2>3. /\ r.cash \in Nat /\ r.bank \in Nat /\ r.twice \in BOOLEAN
        /\ r.cash + r.bank + fee <= x + y
        /\ ~r.twice => r.cash + r.bank + fee = x + y
    BY <2>1, MoneyRemoved
  <2> HIDE DEF r
  <2> QED
    BY <2>2, <2>3 DEF x, y
<1> HIDE DEF b, c, twice, paid
<1>11. /\ Purses' + fee <= Purses
       /\ c + b + fee = cash[p] + bank[p] => Purses' + fee = Purses
  BY <1>1, <1>8, <1>10, PursesCharged
<1> DEFINE cost == 0
<1>12. /\ cost \in Nat /\ MoneyIn(offers', id) = cost
       /\ Purses' + (fee + cost) <= Purses
       /\ ~twice => Purses' + (fee + cost) = Purses
  <2>1. fee + 0 = fee
    BY <1>8
  <2> QED
    BY <1>6, <1>10, <1>11, <2>1
<1> HIDE DEF cost
<1> QED
  BY <1>1, <1>2, <1>5, <1>8, <1>10, <1>12, MoneyCharged

\* Buying: the offer holds the price.
LEMMA MoneyBuy ==
    ASSUME Typed, Typed', NEW p \in Players, NEW kind \in Kinds, NEW amount \in Amounts,
           NEW price \in Nat \ {0}, NEW ok \in BOOLEAN,
           PlayerCreateBuyOffer(p, kind, amount, price, ok), "ignored" \notin anomalies',
           "wrapped" \notin anomalies'
    PROVE  MoneyKept
<1> DEFINE sale == FALSE
           fee == Fee(price, amount)
           total == Total(price, amount)
           cost == price * amount
           money == BuyPrice(price, amount)
           paid == RemoveMoney(cash[p], bank[p], money)
           b == paid.bank
           c == paid.cash
           twice == paid.twice
<1>1. /\ nextId <= MaxOffers /\ CreateOffer(p, sale, kind, amount, price, ok)
      /\ money <= cash[p] + bank[p] /\ Ignored(ok) \subseteq anomalies'
      /\ cash' = [cash EXCEPT ![p] = c] /\ bank' = [bank EXCEPT ![p] = b]
      /\ fees' = fees + fee
  BY DEF PlayerCreateBuyOffer
<1>2. (twice => "charged_twice" \in anomalies') /\ ~WrapsAt(price, amount)
  BY DEF PlayerCreateBuyOffer
<1>3. sale \in BOOLEAN /\ ~sale /\ ok
  BY <1>1 DEF Ignored
<1>4. PICK id \in Ids : id = nextId
  BY <1>1, Parameters DEF Typed, Ids
<1>5. /\ OneOffer(id) /\ MoneyIn(offers, id) = 0
      /\ ok => MoneyIn(offers', id) = IF sale THEN 0 ELSE cost
  <2>1. sale \in BOOLEAN
    BY <1>3
  <2> HIDE DEF sale
  <2> QED
    BY <1>1, <1>4, <2>1, CreatedHolds
<1>6. MoneyIn(offers', id) = cost
  BY <1>3, <1>5
<1>7. cash[p] \in Nat /\ bank[p] \in Nat /\ price \in Nat /\ amount \in Nat
  BY Parameters DEF Typed
<1>8. fee \in Nat /\ cost \in Nat
  BY <1>7, TotalType
<1>9. total = cost /\ money = total + fee
  BY <1>2 DEF WrapsAt, BuyPrice
<1> HIDE DEF fee, cost, total, money
<1>10. money \in Nat /\ money = fee + cost
  BY <1>8, <1>9
<1>11. /\ b \in Nat /\ c \in Nat /\ twice \in BOOLEAN /\ c + b + money <= cash[p] + bank[p]
       /\ ~twice => c + b + money = cash[p] + bank[p]
  <2> DEFINE x == cash[p]
             y == bank[p]
             r == RemoveMoney(x, y, money)
  <2>1. x \in Nat /\ y \in Nat /\ money \in Nat /\ money <= x + y
    BY <1>1, <1>7, <1>10
  <2>2. r.cash = c /\ r.bank = b /\ r.twice = twice
    OBVIOUS
  <2> HIDE DEF x, y, b, c, twice
  <2>3. /\ r.cash \in Nat /\ r.bank \in Nat /\ r.twice \in BOOLEAN
        /\ r.cash + r.bank + money <= x + y
        /\ ~r.twice => r.cash + r.bank + money = x + y
    BY <2>1, MoneyRemoved
  <2> HIDE DEF r
  <2> QED
    BY <2>2, <2>3 DEF x, y
<1> HIDE DEF b, c, twice, paid
<1>12. /\ Purses' + money <= Purses
       /\ c + b + money = cash[p] + bank[p] => Purses' + money = Purses
  BY <1>1, <1>10, <1>11, PursesCharged
<1>13. /\ Purses' + (fee + cost) <= Purses
       /\ ~twice => Purses' + (fee + cost) = Purses
  BY <1>10, <1>11, <1>12
<1> QED
  BY <1>1, <1>2, <1>5, <1>6, <1>8, <1>11, <1>13, MoneyCharged

\* Money paid to a player that the offer held
LEMMA MoneyMoved ==
    ASSUME Typed, Typed', NEW id \in Ids, OneOffer(id), NEW money \in Nat,
           Purses' = Purses + money, fees' = fees,
           MoneyIn(offers, id) = MoneyIn(offers', id) + money
    PROVE  MoneyKept
<1> DEFINE x == MoneyIn(offers', id)
           a == Purses
           f == fees
<1>1. a \in Nat /\ x \in Nat /\ f \in Nat
  BY EscrowChange, PursesType
<1>2. Purses' = a + money /\ MoneyIn(offers, id) = x + money
  OBVIOUS
<1> HIDE DEF x, a, f
<1>3. (a + money) + x + f = a + (x + money) + f
  BY <1>1
<1>4. Purses' + MoneyIn(offers', id) + fees' = Purses + MoneyIn(offers, id) + fees
  BY <1>2, <1>3 DEF x, a, f
<1> QED
  BY <1>4, MoneyBalance

\* A bank account is credited.
LEMMA PursesCredited ==
    ASSUME Typed, NEW p \in Players, NEW money \in Nat,
           bank' = [bank EXCEPT ![p] = bank[p] + money], cash' = cash
    PROVE  Purses' = Purses + money
<1>1. Sum(bank) \in Nat /\ Sum(bank') = Sum(bank) + money
  BY BankCredited
<1>2. Purses = Sum(bank) + Sum(cash) /\ Purses' = Sum(bank') + Sum(cash)
  BY DEF Purses
<1>3. Sum(cash) \in Nat
  <2>1. cash \in [Players -> Nat] /\ IsFiniteSet(Players)
    BY MarketAssumption DEF Typed
  <2> QED
    BY <2>1, SumType
<1>4. (Sum(bank) + money) + Sum(cash) = (Sum(bank) + Sum(cash)) + money
  BY <1>1, <1>3
<1> QED
  BY <1>1, <1>2, <1>4

\* Cancelling: the offer gives back what it holds.
LEMMA MoneyCancel ==
    ASSUME Typed, Typed', NEW p \in Players, NEW id \in Ids, NEW ok \in BOOLEAN,
           PlayerCancelMarketOffer(p, id, ok), "ignored" \notin anomalies'
    PROVE  MoneyKept
<1> DEFINE cost == offers[id].price * offers[id].amount
<1>1. /\ id \in DOMAIN offers /\ offers' = IF ok THEN Without(id) ELSE offers
      /\ Ignored(ok) \subseteq anomalies' /\ fees' = fees /\ cash' = cash
      /\ IF offers[id].sale THEN bank' = bank ELSE bank' = [bank EXCEPT ![p] = bank[p] + cost]
  BY DEF PlayerCancelMarketOffer, WideTotal
<1>2. offers' = Without(id)
  BY <1>1 DEF Ignored
<1>3. cost \in Nat
  <2>1. offers[id].price \in Nat /\ offers[id].amount \in Nat
    BY <1>1, OfferType
  <2> QED
    BY <2>1
<1>4. OneOffer(id) /\ MoneyIn(offers', id) = 0
  BY <1>1, <1>2, RemovedHolds
<1>5. MoneyIn(offers, id) = IF offers[id].sale THEN 0 ELSE cost
  BY <1>1, ExistingHolds
<1> HIDE DEF cost
<1>6. CASE offers[id].sale
  <2>1. Purses' = Purses
    BY <1>1, <1>6 DEF Purses
  <2>2. MoneyIn(offers', id) = MoneyIn(offers, id)
    BY <1>4, <1>5, <1>6
  <2> QED
    BY <1>1, <1>4, <2>1, <2>2, MoneyBalance
<1>7. CASE ~offers[id].sale
  <2>1. Purses' = Purses + cost
    BY <1>1, <1>3, <1>7, PursesCredited
  <2>2. MoneyIn(offers, id) = MoneyIn(offers', id) + cost
    BY <1>3, <1>4, <1>5, <1>7
  <2> QED
    BY <1>1, <1>3, <1>4, <2>1, <2>2, MoneyMoved
<1> QED
  BY <1>6, <1>7

\* Accepting a buy offer: the offer pays.
LEMMA MoneyAcceptBuy ==
    ASSUME Typed, Typed', NEW p \in Players, NEW id \in Ids, NEW amount \in Amounts,
           NEW ok \in BOOLEAN, PlayerAcceptBuyOffer(p, id, amount, ok),
           "ignored" \notin anomalies', "wrapped" \notin anomalies'
    PROVE  MoneyKept
<1> DEFINE cost == offers[id].price * amount
<1>1. /\ id \in DOMAIN offers /\ amount <= offers[id].amount /\ ~offers[id].sale
      /\ bank' = [bank EXCEPT ![p] = bank[p] + Total(offers[id].price, amount)]
      /\ Settle(id, amount, ok) /\ fees' = fees /\ cash' = cash
  BY DEF PlayerAcceptBuyOffer, MayAccept
<1>2. Total(offers[id].price, amount) = cost /\ offers' = Reduced(id, amount)
  BY <1>1 DEF Settle, Ignored, WrapsAt
<1>3. cost \in Nat
  <2>1. offers[id].price \in Nat /\ amount \in Nat
    BY <1>1, OfferType, Parameters
  <2> QED
    BY <2>1
<1>4. /\ OneOffer(id)
      /\ MoneyIn(offers, id) = MoneyIn(offers', id) + IF offers[id].sale THEN 0 ELSE cost
  BY <1>1, <1>2, ReducedHolds
<1> HIDE DEF cost
<1>5. Purses' = Purses + cost
  BY <1>1, <1>2, <1>3, PursesCredited
<1>6. MoneyIn(offers, id) = MoneyIn(offers', id) + cost
  BY <1>1, <1>4
<1> QED
  BY <1>1, <1>3, <1>4, <1>5, <1>6, MoneyMoved

\* Accepting a sell offer: one player pays another.
LEMMA MoneyAcceptSell ==
    ASSUME Typed, Typed', NEW p \in Players, NEW id \in Ids, NEW amount \in Amounts,
           NEW ok \in BOOLEAN, PlayerAcceptSellOffer(p, id, amount, ok),
           "ignored" \notin anomalies'
    PROVE  MoneyKept
<1> DEFINE price == Total(offers[id].price, amount)
           owner == offers[id].owner
<1>1. /\ id \in DOMAIN offers /\ amount <= offers[id].amount /\ offers[id].sale
      /\ owner # p /\ price <= bank[p] + cash[p]
      /\ Settle(id, amount, ok) /\ fees' = fees
  BY DEF PlayerAcceptSellOffer, MayAccept
<1>2. /\ bank' = [bank EXCEPT ![p] = IF price <= @ THEN @ - price ELSE 0,
                              ![owner] = @ + price]
      /\ cash' = [cash EXCEPT ![p] = IF price <= bank[p] THEN @ ELSE @ - (price - bank[p])]
  BY DEF PlayerAcceptSellOffer
<1>3. offers' = Reduced(id, amount)
  BY <1>1 DEF Settle, Ignored
<1>4. price \in Nat /\ owner \in Players /\ p # owner
  <2>1. offers[id].price \in Nat /\ amount \in Nat /\ owner \in Players
    BY <1>1, OfferType, Parameters
  <2> QED
    BY <1>1, <2>1, TotalType
<1>5. /\ OneOffer(id)
      /\ MoneyIn(offers, id) = MoneyIn(offers', id)
             + IF offers[id].sale THEN 0 ELSE offers[id].price * amount
  BY <1>1, <1>3, ReducedHolds
<1> HIDE DEF price, owner
<1>6. Purses' = Purses
  <2>1. Sum(bank') + Sum(cash') = Sum(bank) + Sum(cash)
    BY <1>1, <1>2, <1>4, MoneyPaid
  <2> QED
    BY <2>1 DEF Purses
<1>7. MoneyIn(offers', id) = MoneyIn(offers, id)
  <2>1. MoneyIn(offers', id) \in Nat
    BY <1>5, EscrowChange
  <2> QED
    BY <1>1, <1>5, <2>1
<1> QED
  BY <1>1, <1>5, <1>6, <1>7, MoneyBalance

\* Expiry, with the amount the offer still has: it gives back what it holds.
LEMMA MoneyExpire ==
    ASSUME Typed, Typed', NEW r, Follows(r), NEW ok \in BOOLEAN, ExpireRow(r, ok),
           "stale" \notin anomalies'
    PROVE  MoneyKept
<1> DEFINE moved == MoveOfferToHistory(r.id, ok)
           id == r.id
           owner == r.owner
           cost == r.price * r.amount
<1>1. /\ offers' = IF moved THEN Without(id) ELSE offers
      /\ bank' = IF moved /\ ~r.sale THEN [bank EXCEPT ![owner] = bank[owner] + cost] ELSE bank
      /\ cash' = cash /\ fees' = fees
      /\ moved => id \in DOMAIN offers /\ offers[id].amount = r.amount
  BY DEF ExpireRow, MoveOfferToHistory, WideTotal
<1>2. /\ id \in Ids /\ owner \in Players /\ r.amount \in Nat /\ r.price \in Nat
      /\ id \in DOMAIN offers => offers[id].sale = r.sale /\ offers[id].price = r.price
  BY Parameters DEF Follows, Row
<1>3. cost \in Nat
  BY <1>2
<1> HIDE DEF moved, id, owner
<1>4. CASE moved
  <2>1. offers' = Without(id) /\ id \in DOMAIN offers
    BY <1>1, <1>4
  <2>2. OneOffer(id) /\ MoneyIn(offers', id) = 0
    BY <2>1, RemovedHolds
  <2>3. MoneyIn(offers, id) = IF offers[id].sale THEN 0 ELSE offers[id].price * offers[id].amount
    BY <2>1, ExistingHolds
  <2>4. MoneyIn(offers, id) = IF r.sale THEN 0 ELSE cost
    BY <1>1, <1>2, <1>4, <2>1, <2>3
  <2> HIDE DEF cost
  <2>5. CASE r.sale
    <3>1. Purses' = Purses
      BY <1>1, <2>5 DEF Purses
    <3>2. MoneyIn(offers', id) = MoneyIn(offers, id)
      BY <2>2, <2>4, <2>5
    <3> QED
      BY <1>1, <1>2, <2>2, <3>1, <3>2, MoneyBalance
  <2>6. CASE ~r.sale
    <3>1. bank' = [bank EXCEPT ![owner] = bank[owner] + cost]
      BY <1>1, <1>4, <2>6
    <3>2. Purses' = Purses + cost
      BY <1>1, <1>2, <1>3, <3>1, PursesCredited
    <3>3. MoneyIn(offers, id) = MoneyIn(offers', id) + cost
      BY <1>3, <2>2, <2>4, <2>6
    <3> QED
      BY <1>1, <1>2, <1>3, <2>2, <3>2, <3>3, MoneyMoved
  <2> QED
    BY <2>5, <2>6
<1>5. CASE ~moved
  BY <1>1, <1>5, MoneyQuiet
<1> QED
  BY <1>4, <1>5

-----------------------------------------------------------------------------
(* The theorems *)

\* What a step does to the accounts
LEMMA Balanced ==
    ASSUME Inv, Inv', [Next]_vars
    PROVE  /\ anomalies' \cap {"stale", "ignored"} = {} => \A k \in Kinds : GoodsKept(k)
           /\ anomalies' \cap {"wrapped", "stale", "ignored"} = {} => MoneyKept
<1>1. Typed /\ Typed'
  BY DEF Inv
<1>2. CASE Quiet
  <2>1. UNCHANGED <<bank, cash, goods, inbox, offers, fees>>
    BY <1>2, QuietKeeps
  <2> QED
    BY <1>1, <2>1, GoodsQuiet, MoneyQuiet
<1>3. CASE Handler
  <2>1. PICK p \in Players, ok \in BOOLEAN :
          \/ \E kind \in Kinds, amount \in Amounts, price \in Nat \ {0} :
                 \/ PlayerCreateSellOffer(p, kind, amount, price, ok)
                 \/ PlayerCreateBuyOffer(p, kind, amount, price, ok)
          \/ \E id \in Ids : PlayerCancelMarketOffer(p, id, ok)
          \/ \E id \in Ids, amount \in Amounts :
                 PlayerAcceptBuyOffer(p, id, amount, ok) \/ PlayerAcceptSellOffer(p, id, amount, ok)
    BY <1>3 DEF Handler
  <2>2. ASSUME NEW kind \in Kinds, NEW amount \in Amounts, NEW price \in Nat \ {0},
               PlayerCreateSellOffer(p, kind, amount, price, ok), "ignored" \notin anomalies'
        PROVE  (\A k \in Kinds : GoodsKept(k)) /\ MoneyKept
    BY <1>1, <2>2, GoodsSell, MoneySell
  <2>3. ASSUME NEW kind \in Kinds, NEW amount \in Amounts, NEW price \in Nat \ {0},
               PlayerCreateBuyOffer(p, kind, amount, price, ok), "ignored" \notin anomalies'
        PROVE  (\A k \in Kinds : GoodsKept(k)) /\ ("wrapped" \notin anomalies' => MoneyKept)
    BY <1>1, <2>3, GoodsBuy, MoneyBuy
  <2>4. ASSUME NEW id \in Ids, PlayerCancelMarketOffer(p, id, ok), "ignored" \notin anomalies'
        PROVE  (\A k \in Kinds : GoodsKept(k)) /\ MoneyKept
    BY <1>1, <2>4, GoodsCancel, MoneyCancel
  <2>5. ASSUME NEW id \in Ids, NEW amount \in Amounts,
               PlayerAcceptBuyOffer(p, id, amount, ok), "ignored" \notin anomalies'
        PROVE  (\A k \in Kinds : GoodsKept(k)) /\ ("wrapped" \notin anomalies' => MoneyKept)
    BY <1>1, <2>5, GoodsAcceptBuy, MoneyAcceptBuy
  <2>6. ASSUME NEW id \in Ids, NEW amount \in Amounts,
               PlayerAcceptSellOffer(p, id, amount, ok), "ignored" \notin anomalies'
        PROVE  (\A k \in Kinds : GoodsKept(k)) /\ MoneyKept
    BY <1>1, <2>6, GoodsAcceptSell, MoneyAcceptSell
  <2>7. \/ anomalies' \cap {"stale", "ignored"} = {} => "ignored" \notin anomalies'
        \/ anomalies' \cap {"wrapped", "stale", "ignored"} = {} =>
              "ignored" \notin anomalies' /\ "wrapped" \notin anomalies'
    OBVIOUS
  <2> QED
    BY <2>1, <2>2, <2>3, <2>4, <2>5, <2>6, <2>7
<1>4. CASE ExpireRows
  <2>1. PICK r \in rows, ok \in BOOLEAN : ExpireRow(r, ok)
    BY <1>4 DEF ExpireRows
  <2>2. Follows(r)
    BY <2>1 DEF Inv, Pending
  <2>3. ASSUME "stale" \notin anomalies'
        PROVE  (\A k \in Kinds : GoodsKept(k)) /\ MoneyKept
    BY <1>1, <2>1, <2>2, <2>3, GoodsExpire, MoneyExpire
  <2> QED
    BY <2>3
<1> QED
  BY <1>2, <1>3, <1>4, Steps

\* At first the players have the goods,
LEMMA GoodsInit ==
    ASSUME Init
    PROVE  GoodsAreConserved
<1>1. /\ goods["ware"] = InitialWares /\ goods["coin"] = InitialCoins
      /\ inbox = [k \in Kinds |-> [p \in Players |-> 0]] /\ DOMAIN offers = {}
  BY DEF Init, Kinds
<1>2. ASSUME NEW k \in Kinds
      PROVE  Sum(inbox[k]) = 0 /\ Sum(OnSale(k)) = 0
  <2> DEFINE f == inbox[k]
             g == OnSale(k)
  <2>1. (\A p \in DOMAIN f : f[p] = 0) /\ (\A i \in DOMAIN g : g[i] = 0)
    BY <1>1 DEF OnSale
  <2> HIDE DEF f, g
  <2>2. Sum(f) = 0 /\ Sum(g) = 0
    BY <2>1, SumZero
  <2> QED
    BY <2>2 DEF f, g
<1> DEFINE wares == InitialWares
           coins == InitialCoins
<1>3. wares \in [Players -> Nat] /\ coins \in [Players -> Nat] /\ IsFiniteSet(Players)
  BY MarketAssumption
<1> HIDE DEF wares, coins
<1>4. Sum(wares) \in Nat /\ Sum(coins) \in Nat
  BY <1>3, SumType
<1>5. Sum(wares) + 0 + 0 = Sum(wares) /\ Sum(coins) + 0 + 0 = Sum(coins)
  BY <1>4
<1>6. OfKind("ware") = Sum(wares) + 0 + 0 /\ OfKind("coin") = Sum(coins) + 0 + 0
  BY <1>1, <1>2 DEF OfKind, Kinds, wares, coins
<1> QED
  BY <1>5, <1>6 DEF GoodsAreConserved, wares, coins

\* and the money.
LEMMA MoneyInit ==
    ASSUME Init
    PROVE  MoneyIsConserved
<1>1. bank = InitialBank /\ cash = InitialCash /\ fees = 0 /\ DOMAIN offers = {}
  BY DEF Init
<1>2. Sum(Escrow) = 0
  <2> DEFINE g == Escrow
  <2>1. \A i \in DOMAIN g : g[i] = 0
    BY <1>1 DEF Escrow
  <2> HIDE DEF g
  <2>2. Sum(g) = 0
    BY <2>1, SumZero
  <2> QED
    BY <2>2 DEF g
<1>3. bank \in [Players -> Nat] /\ cash \in [Players -> Nat] /\ IsFiniteSet(Players)
  BY <1>1, MarketAssumption
<1>4. Sum(bank) \in Nat /\ Sum(cash) \in Nat
  BY <1>3, SumType
<1> DEFINE b == Sum(bank)
           c == Sum(cash)
<1>5. b \in Nat /\ c \in Nat /\ Money = b + c + 0 + 0
  BY <1>1, <1>2, <1>4 DEF Money
<1>6. b + c = Sum(InitialBank) + Sum(InitialCash)
  BY <1>1
<1> HIDE DEF b, c
<1>7. Money = b + c /\ Money <= b + c
  BY <1>5
<1> QED
  BY <1>6, <1>7 DEF MoneyIsConserved

\* Every step keeps the sums of goods,
LEMMA GoodsNext ==
    ASSUME Inv, Inv', GoodsAreConserved, [Next]_vars
    PROVE  GoodsAreConserved'
<1> SUFFICES ASSUME anomalies' \cap {"stale", "ignored"} = {}
             PROVE  /\ OfKind("ware")' = Sum(InitialWares)
                    /\ OfKind("coin")' = Sum(InitialCoins)
  BY DEF GoodsAreConserved
<1>1. anomalies \cap {"stale", "ignored"} = {}
  BY Monotone
<1>2. "ware" \in Kinds /\ "coin" \in Kinds
  BY DEF Kinds
<1>3. \A k \in Kinds : GoodsKept(k)
  BY Balanced
<1> QED
  BY <1>1, <1>2, <1>3 DEF GoodsKept, GoodsAreConserved

\* and of money.
LEMMA MoneyNext ==
    ASSUME Inv, Inv', MoneyIsConserved, [Next]_vars
    PROVE  MoneyIsConserved'
<1> DEFINE initial == Sum(InitialBank) + Sum(InitialCash)
<1> SUFFICES ASSUME anomalies' \cap {"wrapped", "stale", "ignored"} = {}
             PROVE  /\ Money' <= initial
                    /\ "charged_twice" \notin anomalies' => Money' = initial
  BY DEF MoneyIsConserved
<1>1. /\ anomalies \cap {"wrapped", "stale", "ignored"} = {}
      /\ "charged_twice" \notin anomalies' => "charged_twice" \notin anomalies
  BY Monotone
<1>2. MoneyKept
  BY Balanced
<1>3. Money <= initial /\ ("charged_twice" \notin anomalies => Money = initial)
  BY <1>1 DEF MoneyIsConserved
<1>4. Money \in Nat /\ Money' \in Nat /\ initial \in Nat
  <2>1. Typed /\ Typed'
    BY DEF Inv
  <2>2. Money = Purses + Sum(Escrow) + fees /\ Money \in Nat
    <3>1. Money = Purses + Sum(Escrow) + fees
      BY DEF Money, Purses
    <3> QED
      BY <2>1, <3>1, PursesType
  <2>3. InitialBank \in [Players -> Nat] /\ InitialCash \in [Players -> Nat] /\ IsFiniteSet(Players)
    BY MarketAssumption
  <2>4. Sum(InitialBank) \in Nat /\ Sum(InitialCash) \in Nat
    BY <2>3, SumType
  <2>5. Money' \in Nat
    <3> DEFINE e == [i \in Ids |-> MoneyIn(offers', i)]
    <3>1. offers' \in [DOMAIN offers' -> Offer] /\ IsFiniteSet(Ids)
      BY <2>1, Parameters DEF Typed
    <3>2. e \in [Ids -> Nat] /\ Escrow' = e
      BY <3>1, HeldType DEF Escrow, MoneyIn
    <3> HIDE DEF e
    <3>3. Sum(Escrow') \in Nat
      BY <3>1, <3>2, SumType
    <3>4. Purses' \in Nat /\ fees' \in Nat
      BY <2>1, PursesTypeNext
    <3>5. Money' = Purses' + Sum(Escrow') + fees'
      BY DEF Money, Purses
    <3> QED
      BY <3>3, <3>4, <3>5
  <2> QED
    BY <2>2, <2>4, <2>5
<1> HIDE DEF initial
<1> QED
  BY <1>1, <1>2, <1>3, <1>4 DEF MoneyKept

\* No ware and no store coin is duplicated or lost by the market, whatever the numbers of players,
\* offers and amounts, unless a refund was stale or the refusal of a statement ignored.
THEOREM GoodsHold == Spec => []GoodsAreConserved
<1>1. Init => Inv /\ GoodsAreConserved
  BY InvInit, GoodsInit
<1>2. (Inv /\ GoodsAreConserved) /\ [Next]_vars => (Inv /\ GoodsAreConserved)'
  BY InvNext, GoodsNext
<1> QED
  BY <1>1, <1>2, PTL DEF Spec

\* No money appears, and none is lost but the fees, unless a total wrapped, a refund was stale or
\* the refusal of a statement ignored; what removeMoney() charges twice is only ever lost.
THEOREM MoneyHolds == Spec => []MoneyIsConserved
<1>1. Init => Inv /\ MoneyIsConserved
  BY InvInit, MoneyInit
<1>2. (Inv /\ MoneyIsConserved) /\ [Next]_vars => (Inv /\ MoneyIsConserved)'
  BY InvNext, MoneyNext
<1> QED
  BY <1>1, <1>2, PTL DEF Spec
=============================================================================
