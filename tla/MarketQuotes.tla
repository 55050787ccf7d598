----------------------------- MODULE MarketQuotes -----------------------------
(***************************************************************************)
(* The XRPL market tools. Both read the asks and then the bids of a pair in *)
(* two calls, the arbitrage scanner also the AMM pool in a third; offers    *)
(* and reserves may change in between, and each call may be answered by an  *)
(* error or by nothing. Volumes are whole units of the base asset, prices   *)
(* whole units of the quote asset; the divisions of the code are compared   *)
(* by multiplying across.                                                   *)
(***************************************************************************)
EXTENDS Integers, Sequences, FiniteSetsExt

CONSTANTS
  Prices,    \* prices of an offer
  Volumes,   \* base volumes of an offer; 0 is an offer that gives nothing
  TradeAmounts, \* trade_amount
  Reserves,  \* reserves of the pool
  Fees,      \* trading_fee, of FeeUnit
  FeeUnit,   \* 100_000
  MaxOffers, \* bound: offers on a side, at most depth_limit
  MaxShifts  \* bound: changes of the market

ASSUME MarketAssumption ==
  /\ Prices \subseteq Nat \ {0} /\ Volumes \subseteq Nat /\ TradeAmounts \subseteq Nat \ {0}
  /\ Reserves \subseteq Nat /\ FeeUnit \in Nat \ {0} /\ Fees \subseteq 0..(FeeUnit - 1)
  /\ MaxOffers \in Nat /\ MaxShifts \in Nat

VARIABLES
  sells,   \* the sell offers of the ledger, cheapest first
  buys,   \* the buy offers of the ledger, dearest first
  pool,    \* the reserves and the fee of the AMM
  shifts,  \* changes so far
  want,    \* trade_amount and trade_side
  seen     \* what the tool has read, and how far it is

marketVars == <<sells, buys, pool, shifts, want, seen>>

Offer == [price : Prices, volume : Volumes]
Book == UNION {[1..n -> Offer] : n \in 0..MaxOffers}
Rising == {b \in Book : \A i \in 1..(Len(b) - 1) : b[i].price <= b[i + 1].price}
Falling == {b \in Book : \A i \in 1..(Len(b) - 1) : b[i].price >= b[i + 1].price}

\* The ledger has matched what crosses.
Uncrossed(a, b) == \A i \in DOMAIN a, j \in DOMAIN b : a[i].price > b[j].price
Pool == [base : Reserves, quote : Reserves, fee : Fees]

MarketInit ==
  /\ sells \in Rising /\ buys \in Falling /\ Uncrossed(sells, buys)
  /\ pool \in Pool /\ shifts = 0
  /\ want \in [amount : TradeAmounts, side : {"buy", "sell"}]
  /\ seen = [step |-> "asks", asks |-> <<>>, bids |-> <<>>, pool |-> pool]

\* Offers are taken or withdrawn, from the top of a side.
Shift ==
  /\ shifts < MaxShifts /\ shifts' = shifts + 1
  /\ \/ sells # <<>> /\ sells' = Tail(sells) /\ UNCHANGED buys
     \/ buys # <<>> /\ buys' = Tail(buys) /\ UNCHANGED sells
     \/ \E o \in Offer : /\ buys' = <<o>> \o buys /\ Len(buys) < MaxOffers
                         /\ buys' \in Falling /\ Uncrossed(sells, buys')
                         /\ UNCHANGED sells
  /\ UNCHANGED <<pool, want, seen>>

\* parse_xrpl_amount, and the offers that give something.
Levels(book) ==
  LET upTo[i \in 0..Len(book)] ==
        IF i = 0 THEN <<>> ELSE
        IF book[i].volume > 0 THEN Append(upTo[i - 1], book[i]) ELSE upTo[i - 1]
  IN upTo[Len(book)]

\* What the tool makes of an answer: the levels of the book, or none of them, for an
\* error response has no "offers" and is taken for an empty book.
Heard(book) == {Levels(book), <<>>}

ReadAsks ==
  /\ seen.step = "asks"
  /\ \E levels \in Heard(sells) :
       seen' = [seen EXCEPT !.step = "bids", !.asks = levels]
  /\ UNCHANGED <<sells, buys, pool, shifts, want>>
ReadBids ==
  /\ seen.step = "bids"
  /\ \E levels \in Heard(buys) :
       seen' = [seen EXCEPT !.step = "pool", !.bids = levels]
  /\ UNCHANGED <<sells, buys, pool, shifts, want>>

\* A book request raises: the caller is told so and gets no figures.
BookFails ==
  /\ seen.step \in {"asks", "bids"}
  /\ seen' = [seen EXCEPT !.step = "failed"]
  /\ UNCHANGED <<sells, buys, pool, shifts, want>>

\* Without an AMM, or when its request raises or is refused, amm_data is None.
NoPool == [base |-> 0, quote |-> 0, fee |-> 0]
ReadPool ==
  /\ seen.step = "pool"
  /\ \E read \in {pool, NoPool} :
       seen' = [seen EXCEPT !.step = "answered", !.pool = read]
  /\ UNCHANGED <<sells, buys, pool, shifts, want>>

MarketNext == Shift \/ ReadAsks \/ ReadBids \/ BookFails \/ ReadPool
MarketSpec == MarketInit /\ [][MarketNext]_marketVars

-------------------------------------------------------------------------------
(* get_orderbook_depth.                                                      *)

Least(x, y) == IF x < y THEN x ELSE y

\* The offers the trade consumes.
Side == IF want.side = "buy" THEN seen.asks ELSE seen.bids

\* The walk: what is left before each level, and what the levels cost.
Left[i \in 0..MaxOffers] ==
  IF i = 0 THEN want.amount
  ELSE Left[i - 1] - (IF i <= Len(Side) THEN Least(Left[i - 1], Side[i].volume) ELSE 0)
Filled == want.amount - Left[Len(Side)]
Fillable == Left[Len(Side)] = 0
TotalQuote ==
  SumFunction([i \in DOMAIN Side |-> (Left[i - 1] - Left[i]) * Side[i].price])

(* get_amm_arb_quote.                                                        *)

BestAsk == Min({seen.asks[i].price : i \in DOMAIN seen.asks})
BestBid == Max({seen.bids[i].price : i \in DOMAIN seen.bids})
NetFee == FeeUnit - seen.pool.fee
Pooled == seen.pool.base > 0 /\ seen.pool.quote > 0

\* Mistake: the fee is taken off the price of a purchase too.
BuyAmmDiscounted ==
  /\ seen.bids # <<>> /\ Pooled
  /\ BestBid * seen.pool.base * FeeUnit > seen.pool.quote * NetFee

\* best_bid > amm_buy_price, the spot price divided by 1 - fee.
BuyAmmSellClob ==
  /\ seen.bids # <<>> /\ Pooled
  /\ BestBid * seen.pool.base * NetFee > seen.pool.quote * FeeUnit

\* amm_sell_price > best_ask, the spot price times 1 - fee.
BuyClobSellAmm ==
  /\ seen.asks # <<>> /\ Pooled
  /\ seen.pool.quote * NetFee > BestAsk * seen.pool.base * FeeUnit

Strategy ==
  IF BuyAmmSellClob THEN "BUY_AMM_SELL_CLOB" ELSE
  IF BuyClobSellAmm THEN "BUY_CLOB_SELL_AMM" ELSE "NONE"

-------------------------------------------------------------------------------
(* Properties.                                                               *)

MarketTypeOK ==
  /\ sells \in Seq(Offer) /\ buys \in Seq(Offer) /\ pool \in Pool
  /\ shifts \in 0..MaxShifts
  /\ seen.step \in {"asks", "bids", "pool", "answered", "failed"}

\* Any way to take volumes from the offers of a side.
Fills(book) == {f \in [DOMAIN book -> 0..want.amount] :
                  \A i \in DOMAIN book : f[i] <= book[i].volume}
Volume(f) == SumFunction(f)
Cost(book, f) == SumFunction([i \in DOMAIN book |-> f[i] * book[i].price])

\* The walk fills as much as the side that was read can give, and at the best total:
\* no other way to take that volume costs a buyer less or pays a seller more.
QuoteIsBest ==
  seen.step = "answered" =>
    LET book == IF want.side = "buy" THEN seen.asks ELSE seen.bids
        same == {f \in Fills(book) : Volume(f) = Filled}
    IN /\ \A f \in Fills(book) : Volume(f) <= want.amount => Volume(f) <= Filled
       /\ Fillable <=> Filled = want.amount
       /\ \E f \in same : Cost(book, f) = TotalQuote
       /\ \A f \in same : IF want.side = "buy" THEN Cost(book, f) >= TotalQuote
                          ELSE Cost(book, f) <= TotalQuote

\* A trade of one part in Grain of a unit, at the constant product pool with the fee on
\* what goes in: it costs less than the best bid pays, or brings more than the best ask
\* costs. If any size pays, a small one does.
Grain(price) == price * FeeUnit + 1
BuyPays ==
  /\ seen.bids # <<>>
  /\ BestBid * (Grain(BestBid) * seen.pool.base - 1) * NetFee
       > seen.pool.quote * Grain(BestBid) * FeeUnit
SellPays ==
  /\ seen.asks # <<>>
  /\ seen.pool.quote * Grain(BestAsk) * NetFee
       > BestAsk * (Grain(BestAsk) * seen.pool.base * FeeUnit + NetFee)

\* An opportunity is reported exactly when there is a pool and a trade between it and the
\* book that was read pays, in the direction that pays; both do only if that book is
\* crossed, which takes a change between the calls (get_amm_arb_quote).
ArbitrageIsReal ==
  seen.step = "answered" =>
    /\ Strategy = "BUY_AMM_SELL_CLOB" <=> Pooled /\ BuyPays
    /\ Strategy = "BUY_CLOB_SELL_AMM" <=> Pooled /\ SellPays /\ ~BuyPays
    /\ Pooled /\ BuyPays /\ SellPays => shifts > 0

MarketSound == QuoteIsBest /\ ArbitrageIsReal
===============================================================================
