------------------------------- MODULE Backtest -------------------------------
(***************************************************************************)
(* The backtest of one pair: load_csv of backtest/data_loader.cpp, the     *)
(* loop of backtest_engine.cpp over the times of the data, which trades    *)
(* with the simulated exchanges of simulated_exchange.cpp, and the metrics *)
(* of backtest_report.cpp.  It is a sequential program: what varies is the *)
(* data.                                                                   *)
(*                                                                         *)
(* Quantities are whole grains and prices whole numbers, as in             *)
(* DepthAnalyzer; amounts of the quote asset are in 1/Unit.                *)
(***************************************************************************)
EXTENDS DepthAnalyzer

CONSTANTS Width,      \* levels of a side in a row of the file, 20 in the code
          Times,      \* the times of the data, 1 .. Times
          Sides,      \* the [bids, asks] a row may have
          NExchanges, \* simulated exchanges
          SimFee,   \* of each, in 1/Unit
          Slack,      \* how far a limit is beyond the average price, in 1/Unit
          MinTrade,   \* min_trade_size_usd, times a grain
          InitialBase, InitialQuote, \* the balances that each exchange begins with
          None

ASSUME BacktestConstants ==
    /\ Width \in Nat \ {0} /\ Times \in Nat /\ NExchanges \in Nat
    /\ SimFee \in [1 .. NExchanges -> Nat] /\ Slack \in Nat
    /\ MinTrade \in Nat /\ InitialBase \in Nat /\ InitialQuote \in Nat

\* The levels that were recorded have a price; they are in any order, as those of
\* scripts/generate_mock_data.py are.
Priced == {l \in Levels : l.price > 0}
ASSUME SidesConstants == \A s \in Sides : s.bids \in Seq(Priced) /\ s.asks \in Seq(Priced)

VARIABLES snapshots,     \* of each exchange, in the order of their times
          current_index, now,
          books,         \* the aggregator's books, None if there is none yet
          place, directions,   \* of the engine: its phase, directions left
          base, quote,   \* balances_ of each exchange
          trades_,       \* the profits of the trades, in their order
          stray,         \* history: what the orders of the others moved
          owed,          \* history: of each exchange, the fee of its last buy, if
                         \* the asks were not in order
          disordered     \* history: the trades with a side that was not in order

history == <<stray, owed, disordered>>
backtestVars == <<snapshots, current_index, now, books, place, directions, base, quote, trades_, history>>

SimExchanges == 1 .. NExchanges
Directions == {d \in SimExchanges \X SimExchanges : d[1] # d[2]}
Earlier(d, e) == d[1] < e[1] \/ (d[1] = e[1] /\ d[2] < e[2])

-----------------------------------------------------------------------------
(* load_csv *)

\* The cells of a side in a file: its levels, and nothing up to the width.
Cells(levels) == [i \in 1 .. Width |-> IF i <= Len(levels) THEN levels[i] ELSE None]

\* What is before the first element that ends it.
Before(levels, stop) == IF stop = 0 THEN levels ELSE SubSeq(levels, 1, stop - 1)

\* The levels of a side: up to the width of them, or to the first empty cell.
ReadLevels(cells) ==
    LET side == SubSeq(cells, 1, Least(Width, Len(cells)))
    IN  Before(side, SelectInSeq(side, LAMBDA c : c = None))

\* The bids are read, and then the asks from where the bids have ended: after
\* the empty cell, which need not be the last of the bids.
ReadRow(cells) ==
    LET bids == ReadLevels(cells)
        rest == SubSeq(cells, Len(bids) + (IF Len(bids) < Width THEN 2 ELSE 1), Len(cells))
    IN  [bids |-> bids, asks |-> ReadLevels(rest)]

Snapshot(time, sides) ==
    LET row == ReadRow(Cells(sides.bids) \o Cells(sides.asks))
    IN  [time |-> time, bids |-> row.bids, asks |-> row.asks]

Rows == {Snapshot(t, sides) : t \in 1 .. Times, sides \in Sides}

\* load_snapshots: an exchange has a row for some of the times, in their order.
Histories ==
    {h \in UNION {[1 .. n -> Rows] : n \in 0 .. Times} :
        \A i, j \in DOMAIN h : i < j => h[i].time < h[j].time}

BacktestInit ==
    /\ snapshots \in [SimExchanges -> Histories]
    /\ current_index = [e \in SimExchanges |-> 1]
    /\ now = 0
    /\ books = [e \in SimExchanges |-> None]
    /\ place = "advance" /\ directions = {}
    /\ base = [e \in SimExchanges |-> InitialBase]
    /\ quote = [e \in SimExchanges |-> InitialQuote * Unit]
    /\ trades_ = <<>>
    /\ stray = [base |-> 0, quote |-> 0]
    /\ owed = [e \in SimExchanges |-> 0] /\ disordered = {}

-----------------------------------------------------------------------------
(* SimulatedExchange *)

\* Mutant: the next snapshot is taken when its time is still to come.
advance_to_next(e, time) ==
    LET i == current_index[e]
    IN  IF i < Len(snapshots[e]) /\ snapshots[e][i].time <= time THEN i + 1 ELSE i

\* The index goes on while the next snapshot is not of a later time.
advance_to(e, time) ==
    LET later == {i \in DOMAIN snapshots[e] :
                      i >= current_index[e] /\ (i = current_index[e] \/
                                                snapshots[e][i].time <= time)}
    IN  IF later = {} THEN current_index[e] ELSE CHOOSE i \in later : \A j \in later : j <= i

current_book(e) ==
    IF snapshots[e] = <<>> THEN [bids |-> <<>>, asks |-> <<>>]
    ELSE snapshots[e][current_index[e]]

\* An order of the engine: its limit is (Unit + Slack)/Unit of the average price
\* cost/quantity of what it buys, or as much less of what it sells.
Order(side, quantity, cost) ==
    [side |-> side, quantity |-> quantity,
     limit |-> cost * IF side = "buy" THEN Unit + Slack ELSE Unit - Slack]

BeyondLimit(order, level) ==
    LET price == level.price * order.quantity * Unit
    IN  IF order.side = "buy" THEN price > order.limit ELSE price < order.limit

\* The walk ends at the first level that is beyond the limit.
FilledWithin(order, levels) ==
    Walk(Before(levels, SelectInSeq(levels, LAMBDA l : BeyondLimit(order, l))), order.quantity)

\* Mutant: what is compared to the balance is what the best level would cost.
Insufficient_best(e, order) ==
    IF order.side = "buy"
    THEN quote[e] < Head(current_book(e).asks).price * order.quantity * Unit
    ELSE base[e] < order.quantity

\* The balance does not cover the order at its limit.
Insufficient(e, order) ==
    IF order.side = "buy" THEN quote[e] < order.limit ELSE base[e] < order.quantity

\* The result: what it did to the balances, the price that was paid and the fee.
place_limit_order(e, order) ==
    LET levels == IF order.side = "buy" THEN current_book(e).asks ELSE current_book(e).bids
        walk == FilledWithin(order, levels)
        filled == order.quantity - walk.remaining
    IN  IF levels = <<>> \/ Insufficient(e, order)
        THEN [status |-> "REJECTED", quantity |-> 0, cost |-> 0, fee |-> 0]
        ELSE [status |-> IF filled = 0 THEN "OPEN"
                         ELSE IF walk.remaining = 0 THEN "FILLED" ELSE "PARTIALLY_FILLED",
              quantity |-> filled, cost |-> walk.cost, fee |-> walk.cost * SimFee[e]]

-----------------------------------------------------------------------------
(* OrderBook::apply_snapshot *)

\* A level goes after those that are no worse.  (std::sort may put levels of one
\* price in any order: what a walk costs is the same.)
Inserted(side, level, descending) ==
    LET no_worse == {i \in DOMAIN side : IF descending THEN side[i].price >= level.price
                                                      ELSE side[i].price <= level.price}
    IN  InsertAt(side, Cardinality(no_worse) + 1, level)

\* The levels with a quantity, the best first.
Applied(levels, descending) ==
    LET side[i \in 0 .. Len(levels)] ==
            IF i = 0 THEN <<>>
            ELSE IF levels[i].quantity > 0 THEN Inserted(side[i - 1], levels[i], descending)
                 ELSE side[i - 1]
    IN  side[Len(levels)]

BookOf(row) == [bids |-> Applied(row.bids, TRUE), asks |-> Applied(row.asks, FALSE)]

\* The engine compares a side of a row as the exchange fills from it: sorted, and
\* without levels that have no quantity.
AsksInOrder(row) == Applied(row.asks, FALSE) = row.asks
BidsInOrder(row) == Applied(row.bids, TRUE) = row.bids

-----------------------------------------------------------------------------
(* BacktestEngine::run *)

TimesLeft == {t \in now + 1 .. Times :
                 \E e \in SimExchanges : \E i \in DOMAIN snapshots[e] : snapshots[e][i].time = t}

\* All exchanges go on to the next time of the data, and then the aggregator
\* gets their books, filtered and sorted; when a row has no levels, the book stays
\* as it was.
Advance ==
    /\ place = "advance" /\ TimesLeft # {}
    /\ now' = CHOOSE t \in TimesLeft : \A u \in TimesLeft : t <= u
    /\ current_index' = [e \in SimExchanges |-> advance_to(e, now')]
    /\ place' = "update"
    /\ UNCHANGED <<snapshots, books, directions, base, quote, trades_, history>>

UpdateBooks ==
    /\ place = "update"
    /\ books' = [e \in SimExchanges |->
                    IF current_book(e).bids = <<>> /\ current_book(e).asks = <<>>
                    THEN books[e] ELSE BookOf(current_book(e))]
    /\ directions' = IF Cardinality({e \in SimExchanges : books'[e] # None}) < 2 THEN {}
               ELSE {d \in Directions : books'[d[1]] # None /\ books'[d[2]] # None}
    /\ place' = IF directions' = {} THEN "advance" ELSE "scan"
    /\ UNCHANGED <<snapshots, current_index, now, base, quote, trades_, history>>

Quantity(buy_book) == MinTrade \div Head(buy_book.asks).price

Opportunity(d) ==
    LET buy_book == books[d[1]]
        sell_book == books[d[2]]
        buy == effective_buy_price(buy_book, Quantity(buy_book))
        sell == effective_sell_price(sell_book, Quantity(buy_book))
    IN  /\ buy_book.asks # <<>> /\ sell_book.bids # <<>>
        /\ Head(sell_book.bids).price > Head(buy_book.asks).price
        /\ FullyFillable(buy) /\ FullyFillable(sell)
        /\ Clears(buy.cost, sell.cost, SimFee[d[1]] + SimFee[d[2]])

\* Mutant: one order that is filled makes a trade.
Recorded_either(buy, sell) == buy.status = "FILLED" \/ sell.status = "FILLED"

Recorded(buy, sell) == buy.status = "FILLED" /\ sell.status = "FILLED"

\* Mutant: the fee of the sale is forgotten.
PnlOfBoth_gross(buy, sell) == (sell.cost - buy.cost) * Unit - buy.fee

\* Both quantities are the same when it counts.
PnlOfBoth(buy, sell) == (sell.cost - buy.cost) * Unit - buy.fee - sell.fee

\* A trade is a buy order and a sell order, which is placed whatever the first
\* has become; it is recorded if both are filled.  The exchanges fill them from
\* their rows as they are in the file.
PlaceBoth(d) ==
    LET quantity == Quantity(books[d[1]])
        buy == place_limit_order(d[1],
                   Order("buy", quantity, effective_buy_price(books[d[1]], quantity).cost))
        sell == place_limit_order(d[2],
                   Order("sell", quantity, effective_sell_price(books[d[2]], quantity).cost))
        paid == buy.cost * Unit + buy.fee
        got == sell.cost * Unit - sell.fee
        in_order == AsksInOrder(current_book(d[1])) /\ BidsInOrder(current_book(d[2]))
    IN  /\ base' = [base EXCEPT ![d[1]] = @ + buy.quantity, ![d[2]] = @ - sell.quantity]
        /\ quote' = [quote EXCEPT ![d[1]] = @ - paid, ![d[2]] = @ + got]
        /\ owed' = [owed EXCEPT ![d[1]] =
                        IF buy.cost = 0 THEN @
                        ELSE IF AsksInOrder(current_book(d[1])) THEN 0 ELSE buy.fee]
        /\ IF Recorded(buy, sell)
           THEN /\ trades_' = Append(trades_, PnlOfBoth(buy, sell))
                /\ disordered' = IF in_order THEN disordered
                                 ELSE disordered \cup {Len(trades_) + 1}
                /\ UNCHANGED stray
           ELSE /\ stray' = [base |-> stray.base + buy.quantity - sell.quantity,
                             quote |-> stray.quote + got - paid]
                /\ UNCHANGED <<trades_, disordered>>

\* The directions come in the order of the two loops.
Scan ==
    /\ place = "scan"
    /\ \E d \in directions :
           /\ \A e \in directions \ {d} : Earlier(d, e)
           /\ IF Opportunity(d) THEN PlaceBoth(d)
              ELSE UNCHANGED <<base, quote, trades_, history>>
           /\ directions' = directions \ {d}
           /\ place' = IF directions' = {} THEN "advance" ELSE "scan"
    /\ UNCHANGED <<snapshots, current_index, now, books>>

Finish ==
    /\ place = "advance" /\ TimesLeft = {}
    /\ place' = "done"
    /\ UNCHANGED <<snapshots, current_index, now, books, directions, base, quote, trades_, history>>

BacktestNext == Advance \/ UpdateBooks \/ Scan \/ Finish

BacktestSpec == BacktestInit /\ [][BacktestNext]_backtestVars

-----------------------------------------------------------------------------
(* BacktestReport::compute_metrics *)

\* The metrics so far, with one trade more.
AfterTrade(m, pnl) ==
    LET cumulative == m.cumulative + pnl
        peak == IF cumulative > m.peak THEN cumulative ELSE m.peak
    IN  [total |-> m.total + 1, winning |-> m.winning + (IF pnl > 0 THEN 1 ELSE 0),
         cumulative |-> cumulative, peak |-> peak,
         drawdown |-> IF peak - cumulative > m.drawdown THEN peak - cumulative ELSE m.drawdown]

NoMetrics == [total |-> 0, winning |-> 0, cumulative |-> 0, peak |-> 0, drawdown |-> 0]

compute_metrics(pnls) ==
    LET metrics[i \in 0 .. Len(pnls)] ==
            IF i = 0 THEN NoMetrics ELSE AfterTrade(metrics[i - 1], pnls[i])
    IN  metrics[Len(pnls)]

-----------------------------------------------------------------------------
(* Properties *)

\* What the report calls profit is what the exchanges hold more than they began
\* with, and nothing else has moved but for the orders of a trade that was not
\* filled on both sides, which the engine leaves as they are and forgets.
PnlAccounted ==
    /\ SumFunction(quote) = NExchanges * InitialQuote * Unit + SumFunction(trades_) + stray.quote
    /\ SumFunction(base) = NExchanges * InitialBase + stray.base

\* An exchange sells no more than it has, and pays no more than it has but for the
\* fee of its last purchase, and also that only if the asks it bought from were not
\* in order.  The check of the quote balance leaves the fee out: what makes up for
\* it is that the limit is as far beyond the average price as the fee is high, which
\* is lost when the levels are taken in another order than the engine's.
NothingOverdrawn == \A e \in SimExchanges : base[e] >= 0 /\ quote[e] >= -owed[e]

\* The book of an exchange is its last one up to the time of the loop; before
\* its first, it is the first, which is still to come.
BookOfTheTime ==
    now > 0 => \A e \in SimExchanges : \A i \in DOMAIN snapshots[e] :
        LET current == snapshots[e][current_index[e]]
        IN  /\ snapshots[e][i].time <= now =>
                   snapshots[e][i].time <= current.time /\ current.time <= now
            /\ current.time > now => current_index[e] = 1

\* A recorded trade made what the books promised, whatever the order of the
\* loop and however old a book of the aggregator, if the levels were filled in the
\* order that they were compared in: of sorted rows, then, the report shows nothing
\* but wins and never a drawdown.  A trade of rows that are not sorted may have lost.
\* What the orders of the trades that were not recorded lost is in no report.
OnlyWinsAreReported ==
    place = "done" =>
        LET m == compute_metrics(trades_)
        IN  /\ m.total = Len(trades_) /\ m.cumulative = SumFunction(trades_)
            /\ \A i \in DOMAIN trades_ \ disordered : trades_[i] > 0
            /\ disordered = {} => m.winning = m.total /\ m.drawdown = 0
-----------------------------------------------------------------------------
(* What the proofs of these properties add *)

BacktestTypeOK ==
    /\ snapshots \in [SimExchanges -> Histories]
    /\ current_index \in [SimExchanges -> Nat \ {0}] /\ now \in Nat
    /\ books \in [SimExchanges -> [bids : Seq(Priced), asks : Seq(Priced)] \cup {None}]
    /\ place \in {"advance", "update", "scan", "done"} /\ directions \subseteq Directions
    /\ base \in [SimExchanges -> Int] /\ quote \in [SimExchanges -> Int]
    /\ trades_ \in Seq(Int) /\ stray \in [base : Int, quote : Int]
    /\ owed \in [SimExchanges -> Nat] /\ disordered \subseteq DOMAIN trades_

\* An exchange with data is at one of its rows, before the loop at the first.
IndexInv ==
    \A e \in SimExchanges :
        /\ snapshots[e] # <<>> => current_index[e] \in DOMAIN snapshots[e]
        /\ now = 0 => current_index[e] = 1

\* What the engine compares while it scans is the exchange's row, filtered and
\* sorted, or the exchange has nothing to fill its orders from.
BooksInv ==
    place = "scan" =>
        /\ \A d \in directions : books[d[1]] # None /\ books[d[2]] # None
        /\ \A e \in SimExchanges : books[e] # None =>
               \/ books[e] = BookOf(current_book(e))
               \/ current_book(e).bids = <<>> /\ current_book(e).asks = <<>>

BacktestInv == BacktestTypeOK /\ IndexInv /\ BooksInv /\ PnlAccounted /\ BookOfTheTime

AllWin == \A i \in DOMAIN trades_ \ disordered : trades_[i] > 0

\* The engine's limits are as far beyond the average price as a fee is high, and
\* no fee is more than the whole: 0.1% for both in the code.
FeesAreCovered == \A e \in SimExchanges : SimFee[e] <= Slack /\ SimFee[e] <= Unit

\* The least profit makes up for the fee of the sale, which is taken of what is
\* got and not of what is paid: 3 bps of profit, and fees of 10.
ProfitIsEnough ==
    \A d \in Directions :
        MinNet * (Unit - SimFee[d[2]]) > (SimFee[d[1]] + SimFee[d[2]]) * SimFee[d[2]]
=============================================================================
