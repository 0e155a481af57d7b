------------------------------ MODULE Market --------------------------------
(***************************************************************************)
(* The player market: the handlers of src/game.cpp that create, cancel and *)
(* accept offers, and the expiry of src/iomarket.cpp.                      *)
(*                                                                         *)
(* Offers are rows of the table market_offers; what an offer promises (the *)
(* buyer's money, the seller's items) has been taken from its owner when   *)
(* the row was written.  Handlers run one at a time on the dispatcher      *)
(* thread and use its connection.  The rows to expire, however, are        *)
(* selected on the database thread, and the dispatcher applies them later: *)
(* in between the offers may have been accepted, in part or entirely.      *)
(*                                                                         *)
(* There are two kinds of goods: wares, kept in the depot, and store       *)
(* coins, kept on the account; both are delivered to different places.     *)
(* The coins a player carries are one stack of the least denomination.     *)
(***************************************************************************)
EXTENDS Integers, Sequences, FiniteSets, Functions

CONSTANTS Players,
          MaxOffers,      \* bound: how many offers are ever created
          Quotes,         \* the kinds of goods and the prices that players ask for them
          MaxAmount,      \* 64000
          PriceBits,      \* the width of price * amount: 32
          FeeDivisor, FeeMin, FeeMax,     \* 100, 20 and 1000
          MaxOwnOffers,   \* MAX_MARKET_OFFERS_AT_A_TIME_PER_PLAYER, 0 for no limit
          InitialBank, InitialCash, InitialWares, InitialCoins,
          MaxChecks,      \* bound: expiry queries under way at a time
          MaxFailures     \* bound: statements that the database refuses

ASSUME MarketAssumption ==
    /\ {MaxOffers, MaxAmount, PriceBits, FeeDivisor} \subseteq Nat \ {0}
    /\ {FeeMin, FeeMax, MaxOwnOffers, MaxChecks, MaxFailures} \subseteq Nat
    /\ IsFiniteSet(Players)
    /\ Quotes \subseteq {"ware", "coin"} \X (Nat \ {0})
    /\ {InitialBank, InitialCash, InitialWares, InitialCoins} \subseteq [Players -> Nat]

VARIABLES inMarket,       \* the players in the game with Player::inMarket
          bank,           \* Player::bankBalance, or `players`.`balance` when offline
          cash,           \* the money a player carries
          goods,          \* the wares in the depot, the store coins of the account
          inbox,          \* what the player's inbox holds
          offers,         \* the table `market_offers`, by id
          nextId,         \* its AUTO_INCREMENT
          overdue,        \* the ids of the rows that are older than MARKET_OFFER_DURATION
          checks,         \* the expiry queries under way: not yet run, or with their rows
          rows,           \* the rows that processExpiredOffers still has to do
          failures,       \* how many statements failed
          fees,           \* history: the fees paid
          settled,        \* history: what was accepted and given back of each offer
          anomalies       \* history: what broke the accounts, see Anomalies

vars == <<inMarket, bank, cash, goods, inbox, offers, nextId, overdue, checks, rows,
          failures, fees, settled, anomalies>>

Kinds == {"ware", "coin"}
Ids == 1 .. MaxOffers
Amounts == 1 .. MaxAmount

(***************************************************************************)
(* "wrapped": a total that does not fit PriceBits; "charged_twice":        *)
(* removeMoney took the money from the coins and from the bank; "stale": a *)
(* refund of the amount an offer had when the expiry query ran; "ignored": *)
(* the database refused a statement whose result the handler ignores.      *)
(***************************************************************************)
Anomalies == {"wrapped", "charged_twice", "stale", "ignored"}

\* The dispatcher is between two tasks.
Idle == rows = {}

Init ==
    /\ inMarket = {}
    /\ bank = InitialBank /\ cash = InitialCash
    /\ goods = [k \in Kinds |-> IF k = "ware" THEN InitialWares ELSE InitialCoins]
    /\ inbox = [k \in Kinds |-> [p \in Players |-> 0]]
    /\ offers = <<>> /\ nextId = 1 /\ overdue = {}
    /\ checks = <<>> /\ rows = {}
    /\ failures = 0 /\ fees = 0
    /\ settled = [i \in Ids |-> [created |-> 0, accepted |-> 0, returned |-> 0]]
    /\ anomalies = {}

-----------------------------------------------------------------------------

\* uint64_t totalPrice = price * amount: the product of a uint32_t and a uint16_t.
Total(price, amount) == (price * amount) % 2^PriceBits

\* The same with a 64 bit operand (cancelling and expiry).
WideTotal(price, amount) == price * amount

WrapsAt(price, amount) == Total(price, amount) # price * amount

Fee(price, amount) ==
    LET percent == (price * amount) \div FeeDivisor
    IN  IF percent < FeeMin THEN FeeMin ELSE IF percent > FeeMax THEN FeeMax ELSE percent

Mut_RemoveMoney(c, b, money) ==
    IF c < money THEN [cash |-> c, bank |-> b + c - money, twice |-> FALSE]
    ELSE [cash |-> c - money, bank |-> b, twice |-> FALSE]

(***************************************************************************)
(* removeMoney() with useBalance: coins are taken until the sum is         *)
(* reached, and what is then missing from the bank.  The sum is not        *)
(* reduced by the stack that reaches it, so that the bank, if it can, pays *)
(* that part again.                                                        *)
(***************************************************************************)
RemoveMoney(c, b, money) ==
    IF c < money THEN [cash |-> 0, bank |-> b + c - money, twice |-> FALSE]
    ELSE IF money > 0 /\ b >= money
         THEN [cash |-> c - money, bank |-> b - money, twice |-> TRUE]
         ELSE [cash |-> c - money, bank |-> b, twice |-> FALSE]

\* The database accepts the statement, or refuses it (within the bound).
Executes(ok) ==
    /\ ok \/ failures < MaxFailures
    /\ failures' = IF ok THEN failures ELSE failures + 1

Ignored(ok) == IF ok THEN {} ELSE {"ignored"}

\* IOMarket::deleteOffer, and the row as the history table keeps it.
Without(id) == Restrict(offers, DOMAIN offers \ {id})

Accepted(id, amount) == [settled EXCEPT ![id].accepted = @ + amount]
Returned(id, amount) == [settled EXCEPT ![id].returned = @ + amount]

-----------------------------------------------------------------------------

\* A player opens the market at a depot (ProtocolGame::sendMarketEnter).  Players that
\* are not in it may be offline: what is theirs is then changed by the statements of
\* increaseBankBalance or by loading and saving the player, with the same effect.
EnterMarket(p) ==
    /\ Idle /\ p \notin inMarket
    /\ inMarket' = inMarket \cup {p}
    /\ UNCHANGED <<bank, cash, goods, inbox, offers, nextId, overdue, checks, rows,
                   failures, fees, settled, anomalies>>

\* playerLeaveMarket(), or the player logs out.
PlayerLeaveMarket(p) ==
    /\ Idle /\ p \in inMarket
    /\ inMarket' = inMarket \ {p}
    /\ UNCHANGED <<bank, cash, goods, inbox, offers, nextId, overdue, checks, rows,
                   failures, fees, settled, anomalies>>

\* getMarketItemList() finds enough wares in the depot, or the account has the coins.
HasGoods(p, kind, amount) == amount <= goods[kind][p]

\* getPlayerOfferCount() and the limit on it.
MayOffer(p) ==
    \/ MaxOwnOffers = 0
    \/ Cardinality({i \in DOMAIN offers : offers[i].owner = p}) < MaxOwnOffers

\* IOMarket::createOffer: the row, unless the database refuses it.
CreateOffer(p, sale, kind, amount, price, ok) ==
    /\ nextId' = nextId + 1
    /\ offers' = IF ok THEN [i \in DOMAIN offers \cup {nextId} |->
                               IF i = nextId
                               THEN [owner |-> p, sale |-> sale, kind |-> kind,
                                     amount |-> amount, price |-> price]
                               ELSE offers[i]]
                       ELSE offers
    /\ settled' = IF ok THEN [settled EXCEPT ![nextId].created = amount] ELSE settled

\* playerCreateMarketOffer(), MARKETACTION_SELL: the goods are taken, then the fee.
PlayerCreateSellOffer(p, kind, amount, price, ok) ==
    LET fee == Fee(price, amount)
        paid == RemoveMoney(cash[p], bank[p], fee)
    IN  /\ Idle /\ p \in inMarket /\ nextId <= MaxOffers /\ MayOffer(p)
        /\ fee <= bank[p] + cash[p]
        /\ HasGoods(p, kind, amount)
        /\ goods' = [goods EXCEPT ![kind][p] = @ - amount]
        /\ cash' = [cash EXCEPT ![p] = paid.cash]
        /\ bank' = [bank EXCEPT ![p] = paid.bank]
        /\ fees' = fees + fee
        /\ Executes(ok)
        /\ CreateOffer(p, TRUE, kind, amount, price, ok)
        /\ anomalies' = anomalies \cup Ignored(ok)
                        \cup (IF paid.twice THEN {"charged_twice"} ELSE {})
        /\ UNCHANGED <<inMarket, inbox, overdue, checks, rows>>

\* What a buy offer costs its owner.
BuyPrice(price, amount) == Total(price, amount) + Fee(price, amount)

\* playerCreateMarketOffer(), MARKETACTION_BUY: the whole price and the fee are taken.
PlayerCreateBuyOffer(p, kind, amount, price, ok) ==
    LET paid == RemoveMoney(cash[p], bank[p], BuyPrice(price, amount))
    IN  /\ Idle /\ p \in inMarket /\ nextId <= MaxOffers /\ MayOffer(p)
        /\ BuyPrice(price, amount) <= cash[p] + bank[p]
        /\ cash' = [cash EXCEPT ![p] = paid.cash]
        /\ bank' = [bank EXCEPT ![p] = paid.bank]
        /\ fees' = fees + Fee(price, amount)
        /\ Executes(ok)
        /\ CreateOffer(p, FALSE, kind, amount, price, ok)
        /\ anomalies' = anomalies \cup Ignored(ok)
                        \cup (IF paid.twice THEN {"charged_twice"} ELSE {})
                        \cup (IF WrapsAt(price, amount) THEN {"wrapped"} ELSE {})
        /\ UNCHANGED <<inMarket, goods, inbox, overdue, checks, rows>>

-----------------------------------------------------------------------------

\* Goods that a player buys or gets back from a cancelled offer: wares are put into the
\* inbox, coins onto the account.
Delivered(p, kind, amount) ==
    IF kind = "coin"
    THEN /\ goods' = [goods EXCEPT !["coin"][p] = @ + amount]
         /\ UNCHANGED inbox
    ELSE /\ inbox' = [inbox EXCEPT !["ware"][p] = @ + amount]
         /\ UNCHANGED goods

\* playerCancelMarketOffer(): the refund comes first, then moveOfferToHistory, whose result
\* is ignored.
PlayerCancelMarketOffer(p, id, ok) ==
    LET o == offers[id]
    IN  /\ Idle /\ p \in inMarket /\ id \in DOMAIN offers
        /\ o.owner = p
        /\ IF o.sale
           THEN Delivered(p, o.kind, o.amount) /\ UNCHANGED bank
           ELSE /\ bank' = [bank EXCEPT ![p] = @ + WideTotal(o.price, o.amount)]
                /\ UNCHANGED <<goods, inbox>>
        /\ Executes(ok)
        /\ offers' = IF ok THEN Without(id) ELSE offers
        /\ overdue' = IF ok THEN overdue \ {id} ELSE overdue
        /\ settled' = Returned(id, o.amount)
        /\ anomalies' = anomalies \cup Ignored(ok)
        /\ UNCHANGED <<inMarket, cash, nextId, checks, rows, fees>>

Mut_Reduced(id, amount) == Without(id)

\* The row after amount of it was accepted: deleteOffer() or acceptOffer().
Reduced(id, amount) ==
    IF offers[id].amount = amount THEN Without(id)
                                  ELSE [offers EXCEPT ![id].amount = @ - amount]

\* The end of playerAcceptMarketOffer(): history, and the row deleted or reduced.
Settle(id, amount, ok) ==
    /\ Executes(ok)
    /\ offers' = IF ok THEN Reduced(id, amount) ELSE offers
    /\ overdue' = overdue \cap DOMAIN offers'
    /\ settled' = Accepted(id, amount)
    /\ anomalies' = anomalies \cup Ignored(ok)
                    \cup (IF WrapsAt(offers[id].price, amount) THEN {"wrapped"} ELSE {})

\* playerAcceptMarketOffer(): the offer exists, has that much left and is somebody else's.
MayAccept(p, id, amount) ==
    /\ Idle /\ p \in inMarket /\ id \in DOMAIN offers
    /\ amount <= offers[id].amount
    /\ offers[id].owner # p

\* Accepting a buy offer: the player's goods go to the buyer, who may be offline, and the
\* price to the player's bank account.
PlayerAcceptBuyOffer(p, id, amount, ok) ==
    LET o == offers[id]
    IN  /\ MayAccept(p, id, amount) /\ ~o.sale
        /\ HasGoods(p, o.kind, amount)
        /\ IF o.kind = "coin"
           THEN /\ goods' = [goods EXCEPT !["coin"][p] = @ - amount, !["coin"][o.owner] = @ + amount]
                /\ UNCHANGED inbox
           ELSE /\ goods' = [goods EXCEPT !["ware"][p] = @ - amount]
                /\ inbox' = [inbox EXCEPT !["ware"][o.owner] = @ + amount]
        /\ bank' = [bank EXCEPT ![p] = @ + Total(o.price, amount)]
        /\ Settle(id, amount, ok)
        /\ UNCHANGED <<inMarket, cash, nextId, checks, rows, fees>>

\* Accepting a sell offer: the bank account pays as far as it goes, the rest is carried
\* money; the seller's account is credited, by a statement if the seller is offline.
PlayerAcceptSellOffer(p, id, amount, ok) ==
    LET o == offers[id]
        price == Total(o.price, amount)
    IN  /\ MayAccept(p, id, amount) /\ o.sale
        /\ price <= bank[p] + cash[p]
        /\ bank' = [bank EXCEPT ![p] = IF price <= @ THEN @ - price ELSE 0,
                                ![o.owner] = @ + price]
        /\ cash' = [cash EXCEPT ![p] = IF price <= bank[p] THEN @ ELSE @ - (price - bank[p])]
        /\ Delivered(p, o.kind, amount)
        /\ Settle(id, amount, ok)
        /\ UNCHANGED <<inMarket, nextId, checks, rows, fees>>

-----------------------------------------------------------------------------

\* The offer was created MARKET_OFFER_DURATION ago.
Age(id) ==
    /\ id \in DOMAIN offers \ overdue
    /\ overdue' = overdue \cup {id}
    /\ UNCHANGED <<inMarket, bank, cash, goods, inbox, offers, nextId, checks, rows,
                   failures, fees, settled, anomalies>>

NotRun == [run |-> FALSE, rows |-> {}]

\* checkExpiredOffers(), a task of the scheduler that adds itself again: the query is
\* submitted to the database thread.
CheckExpiredOffers ==
    /\ Idle /\ Len(checks) < MaxChecks
    /\ checks' = Append(checks, NotRun)
    /\ UNCHANGED <<inMarket, bank, cash, goods, inbox, offers, nextId, overdue, rows,
                   failures, fees, settled, anomalies>>

RowOf(id) == [id |-> id, owner |-> offers[id].owner, sale |-> offers[id].sale,
              kind |-> offers[id].kind, amount |-> offers[id].amount,
              price |-> offers[id].price]

Mut_Expired == {id \in overdue : offers[id].sale}

\* WHERE `created` <= now - MARKET_OFFER_DURATION.
Expired == overdue

\* The database thread runs the first query that it has not run, at any time.
SelectExpired ==
    \E i \in DOMAIN checks :
        /\ ~checks[i].run /\ \A j \in 1 .. i - 1 : checks[j].run
        /\ checks' = [checks EXCEPT ![i] = [run |-> TRUE, rows |-> {RowOf(id) : id \in Expired}]]
        /\ UNCHANGED <<inMarket, bank, cash, goods, inbox, offers, nextId, overdue,
                       rows, failures, fees, settled, anomalies>>

\* The dispatcher begins processExpiredOffers with the rows of the query.
ProcessExpiredOffers ==
    /\ Idle /\ checks # <<>> /\ Head(checks).run
    /\ rows' = Head(checks).rows
    /\ checks' = Tail(checks)
    /\ UNCHANGED <<inMarket, bank, cash, goods, inbox, offers, nextId, overdue,
                   failures, fees, settled, anomalies>>

Mut_MoveOfferToHistory(id, ok) == TRUE

\* moveOfferToHistory() succeeds: the row is still there and is deleted.
MoveOfferToHistory(id, ok) == id \in DOMAIN offers /\ ok

\* One row of the loop of processExpiredOffers: if the offer can be moved to the history,
\* its owner gets the goods (store coins as items, in the inbox) or the money back.
ExpireRow(r, ok) ==
    LET moved == MoveOfferToHistory(r.id, ok)
        gone == r.id \notin DOMAIN offers
    IN  /\ r \in rows
        /\ rows' = rows \ {r}
        /\ gone => ok
        /\ Executes(ok)
        /\ offers' = IF moved THEN Without(r.id) ELSE offers
        /\ overdue' = overdue \cap DOMAIN offers'
        /\ inbox' = IF moved /\ r.sale THEN [inbox EXCEPT ![r.kind][r.owner] = @ + r.amount]
                                       ELSE inbox
        /\ bank' = IF moved /\ ~r.sale
                   THEN [bank EXCEPT ![r.owner] = @ + WideTotal(r.price, r.amount)] ELSE bank
        /\ settled' = IF moved THEN Returned(r.id, r.amount) ELSE settled
        /\ anomalies' = IF moved /\ ~gone /\ offers[r.id].amount # r.amount
                        THEN anomalies \cup {"stale"} ELSE anomalies
        /\ UNCHANGED <<inMarket, cash, goods, nextId, checks, fees>>

-----------------------------------------------------------------------------

PlayerStep(p) ==
    \/ EnterMarket(p)
    \/ PlayerLeaveMarket(p)
    \/ \E quote \in Quotes, amount \in Amounts, ok \in BOOLEAN :
           PlayerCreateSellOffer(p, quote[1], amount, quote[2], ok)
    \/ \E quote \in Quotes, amount \in Amounts, ok \in BOOLEAN :
           PlayerCreateBuyOffer(p, quote[1], amount, quote[2], ok)
    \/ \E id \in Ids, ok \in BOOLEAN : PlayerCancelMarketOffer(p, id, ok)
    \/ \E id \in Ids, amount \in Amounts, ok \in BOOLEAN : PlayerAcceptBuyOffer(p, id, amount, ok)
    \/ \E id \in Ids, amount \in Amounts, ok \in BOOLEAN : PlayerAcceptSellOffer(p, id, amount, ok)

ExpireRows == \E r \in rows, ok \in BOOLEAN : ExpireRow(r, ok)

Next ==
    \/ \E p \in Players : PlayerStep(p)
    \/ \E id \in Ids : Age(id)
    \/ CheckExpiredOffers
    \/ SelectExpired
    \/ ProcessExpiredOffers
    \/ ExpireRows

\* The scheduler runs the check again and again, and the threads run what they are given.
Fairness ==
    /\ WF_vars(CheckExpiredOffers) /\ WF_vars(SelectExpired)
    /\ WF_vars(ProcessExpiredOffers) /\ WF_vars(ExpireRows)

Spec == Init /\ [][Next]_vars /\ Fairness

-----------------------------------------------------------------------------

\* The sum of a function to the naturals: how many units there are.
Sum(f) == Cardinality(UNION {{x} \X (1 .. f[x]) : x \in DOMAIN f})

\* The money that each buy offer holds.
Escrow ==
    [i \in Ids |-> IF i \in DOMAIN offers /\ ~offers[i].sale
                   THEN offers[i].price * offers[i].amount ELSE 0]

\* The goods that each sell offer holds.
OnSale(k) ==
    [i \in Ids |-> IF i \in DOMAIN offers /\ offers[i].sale /\ offers[i].kind = k
                   THEN offers[i].amount ELSE 0]

Money == Sum(bank) + Sum(cash) + Sum(Escrow) + fees

OfKind(k) == Sum(goods[k]) + Sum(inbox[k]) + Sum(OnSale(k))

\* The values the variables take: no account is overdrawn, and only existing offers are overdue.
TypeOK ==
    /\ inMarket \subseteq Players
    /\ \A p \in Players : /\ bank[p] \in Nat /\ cash[p] \in Nat
                          /\ \A k \in Kinds : goods[k][p] \in Nat /\ inbox[k][p] \in Nat
    /\ DOMAIN offers \subseteq 1 .. nextId - 1 /\ overdue \subseteq DOMAIN offers
    /\ \A i \in DOMAIN offers : offers[i].amount \in Amounts /\ offers[i].owner \in Players
    /\ anomalies \subseteq Anomalies

\* Through every mixture of offers, partial acceptances, cancellations and expiries by
\* players online and offline, refused statements of the expiry included, no money appears
\* and none is lost but the fees, unless a 32 bit total wrapped, a refund used an amount
\* read before a partial acceptance, or a refused statement was ignored.  Money that
\* disappears otherwise was charged twice by removeMoney.
MoneyIsConserved ==
    anomalies \cap {"wrapped", "stale", "ignored"} = {} =>
        /\ Money <= Sum(InitialBank) + Sum(InitialCash)
        /\ "charged_twice" \notin anomalies => Money = Sum(InitialBank) + Sum(InitialCash)

\* No ware and no store coin is duplicated or lost by the market, unless a refund used an
\* amount read before a partial acceptance or a refused statement was ignored; wrapped
\* totals and double charges never touch the goods.
GoodsAreConserved ==
    anomalies \cap {"stale", "ignored"} = {} =>
        /\ OfKind("ware") = Sum(InitialWares)
        /\ OfKind("coin") = Sum(InitialCoins)

\* Of every offer no more is given away than was offered: what was accepted, what is left
\* and what was returned make up what was created, even when two expiry queries returned
\* the same row, or its owner cancelled it after the query.  Only a stale refund exceeds it,
\* and then by no more than what was accepted since.
OfferSettledOnce ==
    "ignored" \notin anomalies =>
        \A i \in Ids :
            LET s == settled[i]
                left == IF i \in DOMAIN offers THEN offers[i].amount ELSE 0
            IN  /\ s.accepted + left <= s.created
                /\ s.returned <= s.created
                /\ "stale" \notin anomalies => s.accepted + s.returned + left = s.created

\* An offer that is overdue ends, although a query may fail and players keep trading: the
\* check runs again and selects what an earlier one left.
OverdueOffersEnd == \A i \in Ids : i \in overdue ~> i \notin DOMAIN offers
=============================================================================
