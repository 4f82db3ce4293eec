---------------------------- MODULE SpreadDetector ----------------------------
(***************************************************************************)
(* From a book update to a trade: scan_pair() of strategy/spread_detector.h*)
(* for one pair, run by the io thread of every exchange after each update  *)
(* of that exchange's book, with the books of the aggregator               *)
(* (orderbook/order_book_aggregator.cpp) and the rates of the fee manager, *)
(* which is refreshed meanwhile.  main.cpp connects the exchanges before it*)
(* gives the aggregator its callback.                                      *)
(*                                                                         *)
(* A snapshot of one book is one step here (OrderBook has its seqlock);    *)
(* the snapshots of two books, the rates of two directions, the test of    *)
(* the cooldown and the callback are steps of their own.                   *)
(***************************************************************************)
EXTENDS DepthAnalyzer, FeeManager

CONSTANTS Quotes,     \* the books that each exchange may send: [bids, asks]
          MaxAge,     \* 5000 ms, in ticks
          Cooldown,   \* kCooldownMs, in ticks
          MinTrade, MaxTrade, \* min_trade_size_usd and max_, times a grain
          MaxTime,    \* bound on the clock
          MaxUpdates, \* bound on the book updates
          None

NoQuote == [bids |-> <<>>, asks |-> <<>>]
Book(quote, time) == [bids |-> quote.bids, asks |-> quote.asks, time |-> time]
Books == {Book(q, n) : q \in {NoQuote} \cup UNION {Quotes[e] : e \in Exchanges},
                       n \in 0 .. MaxTime}

\* With fewer than two books scan_pair does nothing.
ASSUME DetectorConstants ==
    /\ NExchanges > 1
    /\ MaxAge \in Nat /\ Cooldown \in Nat
    /\ MinTrade \in Nat /\ MaxTrade \in Nat /\ MinTrade <= MaxTrade
    /\ MaxTime \in Nat /\ MaxUpdates \in Nat
    /\ None \notin Nat \cup Books

\* The sides of the books are sorted (Feed).
ASSUME QuoteConstants == \A e \in Exchanges : \A q \in Quotes[e] : BookSorted(q)

VARIABLES clock, books, updates,
          main,            \* "start", "connected", "running", "stopping", "stopped"
          last_trade_time, \* by direction
          pc, snaps, todo, best \* of each io thread: its place in scan_pair,
                                \* snapshots, directions left, best_opp

scan == <<clock, books, updates, main, last_trade_time, pc, snaps, todo, best>>
vars == <<fees, scan>>

-----------------------------------------------------------------------------
Threads == Exchanges \* the io threads
Directions == {d \in Exchanges \X Exchanges : d[1] # d[2]}

\* The order of the two loops.
Earlier(d, e) == d[1] < e[1] \/ (d[1] = e[1] /\ d[2] < e[2])

NoSnaps == [e \in Exchanges |-> None]

\* main creates a book for every exchange before it connects any.
Init ==
    /\ FeeInit
    /\ clock = 0 /\ updates = 0
    /\ books = [e \in Exchanges |-> Book(NoQuote, 0)]
    /\ main = "start"
    /\ last_trade_time = [d \in Directions |-> None]
    /\ pc = [t \in Threads |-> "idle"]
    /\ snaps = [t \in Threads |-> NoSnaps]
    /\ todo = [t \in Threads |-> {}]
    /\ best = [t \in Threads |-> None]

At(t, from, to) == pc[t] = from /\ pc' = [pc EXCEPT ![t] = to]

-----------------------------------------------------------------------------
(* main and time *)

Main(from, to) ==
    /\ main = from /\ main' = to
    /\ UNCHANGED <<clock, books, updates, last_trade_time, pc, snaps, todo, best>>

Connect == refresher # "main" /\ Main("start", "connected") /\ UNCHANGED fees
SetCallback == Main("connected", "running") /\ UNCHANGED fees
Stop == StopRefresh /\ Main("running", "stopping")
Stopped == StopReturns /\ Main("stopping", "stopped")

Tick ==
    /\ clock < MaxTime
    /\ clock' = clock + 1
    /\ UNCHANGED <<fees, books, updates, main, last_trade_time, pc, snaps, todo, best>>

-----------------------------------------------------------------------------
(* An io thread *)

\* The feed's message is applied to the book of the thread's exchange.
Update(t, quote) ==
    /\ main # "start" /\ updates < MaxUpdates
    /\ At(t, "idle", "notify")
    /\ updates' = updates + 1
    /\ books' = [books EXCEPT ![t] = Book(quote, clock)]
    /\ UNCHANGED <<fees, clock, main, last_trade_time, snaps, todo, best>>

\* notify_book_update: no callback, no scan.
Notify(t) ==
    /\ pc[t] = "notify"
    /\ IF main \in {"start", "connected"}
       THEN pc' = [pc EXCEPT ![t] = "idle"] /\ UNCHANGED snaps
       ELSE pc' = [pc EXCEPT ![t] = "snapshot"] /\ snaps' = [snaps EXCEPT ![t] = NoSnaps]
    /\ UNCHANGED <<fees, clock, books, updates, main, last_trade_time, todo, best>>

\* get_pair_snapshots: the books in the order of the exchanges.
Unread(t, e) ==
    /\ snaps[t][e] = None
    /\ \A f \in Exchanges : f < e => snaps[t][f] # None

\* Mutant: the thread reads its own book as it was before the update.
SnapshotCached(t) ==
    \E e \in Exchanges :
        /\ pc[t] = "snapshot" /\ Unread(t, e)
        /\ snaps' = [snaps EXCEPT ![t] = [@ EXCEPT ![e] =
                         IF e = t THEN Book(NoQuote, 0) ELSE books[e]]]
        /\ pc' = [pc EXCEPT ![t] = IF e = NExchanges THEN "evaluate" ELSE @]
        /\ todo' = [todo EXCEPT ![t] = Directions]
        /\ UNCHANGED <<fees, clock, books, updates, main, last_trade_time, best>>

Snapshot(t) ==
    \E e \in Exchanges :
        /\ pc[t] = "snapshot" /\ Unread(t, e)
        /\ snaps' = [snaps EXCEPT ![t] = [@ EXCEPT ![e] = books[e]]]
        /\ pc' = [pc EXCEPT ![t] = IF e = NExchanges THEN "evaluate" ELSE @]
        /\ todo' = [todo EXCEPT ![t] = Directions]
        /\ UNCHANGED <<fees, clock, books, updates, main, last_trade_time, best>>

\* A trade that is too large is cut to max_trade_size_usd at its average
\* price; a quantity is rounded down to a grain.
Capped(buy_book, max_qty) ==
    LET cost == effective_buy_price(buy_book, max_qty).cost
    IN  IF cost <= MaxTrade THEN max_qty ELSE (MaxTrade * max_qty) \div cost

Fresh(book) == clock - book.time <= MaxAge

\* The opportunity of a direction at a rate, None if the loop passes over it.
Opportunity(d, buy_book, sell_book, rate) ==
    LET max_qty == max_arb_quantity(buy_book, sell_book, rate)
        quantity == Capped(buy_book, max_qty)
        cost == effective_buy_price(buy_book, quantity).cost
        proceeds == effective_sell_price(sell_book, quantity).cost
    IN  IF /\ Fresh(buy_book) /\ Fresh(sell_book)
           /\ TopClears(buy_book, sell_book, rate)
           /\ Head(sell_book.bids).price > Head(buy_book.asks).price
           /\ max_qty > 0
           /\ effective_buy_price(buy_book, max_qty).cost >= MinTrade
           /\ quantity > 0
           /\ Clears(cost, proceeds, rate)
        THEN [direction |-> d, quantity |-> quantity, cost |-> cost,
              proceeds |-> proceeds, rate |-> rate, at |-> None]
        ELSE None

\* net_spread_bps > best_net_bps, which starts at the minimum
Better(o, b) ==
    LET net == NetOf(o.cost, o.proceeds, o.rate)
    IN  IF b = None THEN net > MinNet * o.cost
        ELSE net * b.cost > NetOf(b.cost, b.proceeds, b.rate) * o.cost

\* One round of the loops, which reads the rate of its direction now.
Evaluate(t) ==
    \E d \in todo[t] :
        LET o == Opportunity(d, snaps[t][d[1]], snaps[t][d[2]], total_fee_rate(d[1], d[2]))
        IN  /\ pc[t] = "evaluate" /\ \A e \in todo[t] \ {d} : Earlier(d, e)
            /\ best' = IF o # None /\ Better(o, best[t]) THEN [best EXCEPT ![t] = o] ELSE best
            /\ todo' = [todo EXCEPT ![t] = @ \ {d}]
            /\ pc' = [pc EXCEPT ![t] = IF todo[t] = {d} THEN "choose" ELSE @]
            /\ UNCHANGED <<fees, clock, books, updates, main, last_trade_time, snaps>>

\* Mutant: the cooldown is that of the other direction.
CoolingDownReversed(d) ==
    LET r == <<d[2], d[1]>>
    IN  last_trade_time[r] # None /\ clock - last_trade_time[r] < Cooldown

CoolingDown(d) == last_trade_time[d] # None /\ clock - last_trade_time[d] < Cooldown

\* Nothing was found, or the direction is in its cooldown.
GiveUp(t) ==
    /\ At(t, "choose", "idle")
    /\ best[t] # None => CoolingDown(best[t].direction)
    /\ best' = [best EXCEPT ![t] = None]
    /\ UNCHANGED <<fees, clock, books, updates, main, last_trade_time, snaps, todo>>

\* The time is taken and set under cooldown_mutex_.
TakeCooldown(t) ==
    /\ At(t, "choose", "fire")
    /\ best[t] # None /\ ~CoolingDown(best[t].direction)
    /\ last_trade_time' = [last_trade_time EXCEPT ![best[t].direction] = clock]
    /\ best' = [best EXCEPT ![t] = [@ EXCEPT !.at = clock]]
    /\ UNCHANGED <<fees, clock, books, updates, main, snaps, todo>>

\* The callback executes the trade, as long as that takes, and returns.
Fire(t) ==
    /\ At(t, "fire", "idle")
    /\ best' = [best EXCEPT ![t] = None]
    /\ UNCHANGED <<fees, clock, books, updates, main, last_trade_time, snaps, todo>>

-----------------------------------------------------------------------------
IoStep(t) == Notify(t) \/ Snapshot(t) \/ Evaluate(t) \/ GiveUp(t) \/ TakeCooldown(t)
             \/ Fire(t)

Next ==
    \/ FeeStep /\ UNCHANGED scan
    \/ Connect \/ SetCallback \/ Stop \/ Stopped \/ Tick
    \/ \E t \in Threads : IoStep(t) \/ \E q \in Quotes[t] : Update(t, q)

Spec == Init /\ [][Next]_vars

-----------------------------------------------------------------------------
(* Properties *)

\* The types of the detector's, the aggregator's and the fee manager's state.
OpportunityOK(o) ==
    /\ DOMAIN o = {"direction", "quantity", "cost", "proceeds", "rate", "at"}
    /\ o.direction \in Directions
    /\ o.at \in {None} \cup 0 .. MaxTime

TypeOK ==
    /\ FeeTypeOK
    /\ clock \in 0 .. MaxTime /\ updates \in 0 .. MaxUpdates
    /\ books \in [Exchanges -> Books]
    /\ main \in {"start", "connected", "running", "stopping", "stopped"}
    /\ last_trade_time \in [Directions -> {None} \cup 0 .. MaxTime]
    /\ pc \in [Threads -> {"idle", "notify", "snapshot", "evaluate", "choose", "fire"}]
    /\ snaps \in [Threads -> [Exchanges -> {None} \cup Books]]
    /\ todo \in [Threads -> SUBSET Directions]
    /\ best = [t \in Threads |-> best[t]]
    /\ \A t \in Threads : best[t] # None => OpportunityOK(best[t])

\* The opportunity that a thread is about to trade or trading, with the books
\* it was found in.
Firing(t) == pc[t] = "fire"
BuyBook(t) == snaps[t][best[t].direction[1]]
SellBook(t) == snaps[t][best[t].direction[2]]

\* An opportunity, by the two books it was found in.
Sound(o, buy_book, sell_book) ==
    LET asks == buy_book.asks
        bids == sell_book.bids
        found == max_arb_quantity(buy_book, sell_book, o.rate)
    IN  /\ \E a \in Allocations(asks, o.quantity) : Value(asks, a) = o.cost
        /\ \A a \in Allocations(asks, o.quantity) : Value(asks, a) >= o.cost
        /\ \A a \in Allocations(bids, o.quantity) : Value(bids, a) <= o.proceeds
        /\ Clears(o.cost, o.proceeds, o.rate)
        /\ o.cost <= MaxTrade
        /\ \A q \in 0 .. Depth(asks) :
               Beyond(q, found, Depth(asks)) => ~QuantityClears(buy_book, sell_book, o.rate, q)

\* What is traded is worth trading, at the prices and the rate it was found
\* with: the cost is the least and the proceeds are the most that the two books
\* allow for the quantity; it clears the fees and the minimum, and costs at most
\* max_trade_size_usd, though it was cut with the average price of a larger
\* quantity.  And nothing is left behind: a quantity that is larger than what
\* the binary search found by more than its precision does not clear.
FiredIsSound == \A t \in Threads : Firing(t) => Sound(best[t], BuyBook(t), SellBook(t))

\* The rate of a trade is of one refresh of the fees: both fees are from one
\* cache that was swapped in whole, also when a refresh runs meanwhile and the
\* fetch of a fee fails.
RateOfOneRefresh ==
    \A t \in Threads : Firing(t) =>
        \E c \in caches :
            best[t].rate = RateIn(c, best[t].direction[1], best[t].direction[2])

\* Two trades of one direction that are under way at once were taken at least
\* a cooldown apart, however the scans of the threads interleave.
CooldownKept ==
    \A t, u \in Threads :
        t # u /\ Firing(t) /\ Firing(u) /\ best[t].direction = best[u].direction =>
            \/ best[t].at - best[u].at >= Cooldown
            \/ best[u].at - best[t].at >= Cooldown

\* No update goes unseen: when no thread is busy, and since the callback is
\* there, one of the scans has read all the books as they are now, for the
\* thread of the last update reads the others' after its own.
NoUpdateMissed ==
    (\A t \in Threads : pc[t] = "idle") /\ (\E t \in Threads : snaps[t] # NoSnaps) =>
        \E t \in Threads : snaps[t] = books

-----------------------------------------------------------------------------
(* Their inductive strengthening *)

\* The rates that were read are of caches that were there.
RateInv ==
    /\ fee_cache \in caches
    /\ \A t \in Threads : best[t] # None \/ Firing(t) =>
           \E c \in caches :
               best[t].rate = RateIn(c, best[t].direction[1], best[t].direction[2])

\* What is being traded took the cooldown of its direction, or one after it did.
CooldownInv ==
    /\ \A t \in Threads : Firing(t) =>
           /\ OpportunityOK(best[t]) /\ best[t].at # None
           /\ last_trade_time[best[t].direction] # None
           /\ best[t].at <= last_trade_time[best[t].direction]
    /\ CooldownKept

\* A thread that has all the books as they are, or is about to: its reads so far
\* are up to date, or it has not begun to read.
Covers(t) ==
    \/ pc[t] = "notify" /\ main \notin {"start", "connected"}
    \/ /\ pc[t] = "snapshot"
       /\ \A e \in Exchanges : snaps[t][e] \in {None, books[e]}
    \/ snaps[t] = books

Scanned == \E t \in Threads : snaps[t] # NoSnaps \/ pc[t] = "snapshot"

CoverInv ==
    /\ main \in {"start", "connected"} => ~Scanned
    /\ Scanned => \E t \in Threads : Covers(t)

\* From its evaluation on, the opportunity of a thread is sound by the books that
\* the thread has read, which do not change until its next scan.
SoundInv ==
    \A t \in Threads :
        /\ pc[t] \in {"idle", "notify", "snapshot"} => best[t] = None
        /\ pc[t] \in {"evaluate", "choose", "fire"} => snaps[t] \in [Exchanges -> Books]
        /\ best[t] # None \/ Firing(t) => Sound(best[t], BuyBook(t), SellBook(t))

ScannerInv == TypeOK /\ RateInv /\ CooldownInv /\ CoverInv /\ SoundInv
=============================================================================
