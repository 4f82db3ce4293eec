---------------------------- MODULE DepthAnalyzer ----------------------------
(***************************************************************************)
(* The pure functions of orderbook/depth_analyzer.cpp: what it costs to    *)
(* take a quantity from one side of a book, and the largest quantity that  *)
(* can be bought from one book and sold to another with enough profit.     *)
(*                                                                         *)
(* Quantities are whole numbers of a grain and prices are whole numbers,   *)
(* so a cost is exact; a midpoint of the binary search is rounded down to  *)
(* a grain, where the code halves a double.  Spreads and fees are in       *)
(* 1/Unit (1/10000, basis points, in the code).  Averages over the same    *)
(* quantity are compared by their totals, which avoids division.           *)
(***************************************************************************)
EXTENDS Integers, SequencesExt

CONSTANTS Unit,          \* a spread of Unit is 100 %
          MinNet,        \* min_net_spread_bps
          MaxIterations, \* MAX_ITERATIONS, 50 in the code
          Epsilon        \* EPSILON, in grains

ASSUME DepthConstants ==
    /\ Unit \in Nat \ {0} /\ MinNet \in Nat
    /\ MaxIterations \in Nat /\ Epsilon \in Nat \ {0, 1}

-----------------------------------------------------------------------------
Least(a, b) == IF a < b THEN a ELSE b

Depth(levels) == SumFunction([i \in DOMAIN levels |-> levels[i].quantity])

\* What is taken from a level, when so much remains to be filled.
Taken(w, level) ==
    LET fill == Least(w.remaining, level.quantity)
    IN  [remaining |-> w.remaining - fill, cost |-> w.cost + fill * level.price]

\* The levels are taken in the order of the book until the quantity is there.
Walk(levels, quantity) ==
    LET walk[i \in 0 .. Len(levels)] ==
            IF i = 0 THEN [remaining |-> quantity, cost |-> 0]
            ELSE Taken(walk[i - 1], levels[i])
    IN  walk[Len(levels)]

effective_buy_price(book, quantity) == Walk(book.asks, quantity)
effective_sell_price(book, quantity) == Walk(book.bids, quantity)

FullyFillable(price) == price.remaining = 0

\* What is left of a unit of cost when the fees are paid, times the cost.
NetOf(cost, proceeds, rate) == (proceeds - cost) * Unit - rate * cost

Clears(cost, proceeds, rate) == NetOf(cost, proceeds, rate) >= MinNet * cost

\* The spread between the tops of the two books clears the fees.
TopClears(buy_book, sell_book, rate) ==
    /\ buy_book.asks # <<>> /\ sell_book.bids # <<>>
    /\ Head(buy_book.asks).price > 0
    /\ Clears(Head(buy_book.asks).price, Head(sell_book.bids).price, rate)

\* So does the whole quantity.
QuantityClears(buy_book, sell_book, rate, quantity) ==
    LET buy == effective_buy_price(buy_book, quantity)
        sell == effective_sell_price(sell_book, quantity)
    IN  /\ FullyFillable(buy) /\ FullyFillable(sell)
        /\ buy.cost > 0
        /\ Clears(buy.cost, sell.cost, rate)

\* Mutant: the search ends with the first quantity that clears.
SearchFirst(buy_book, sell_book, rate, max_qty) ==
    LET search[n \in Nat, hi \in Nat] ==
            LET mid == hi \div 2
            IN  IF n = 0 \/ mid < Epsilon THEN 0
                ELSE IF QuantityClears(buy_book, sell_book, rate, mid) THEN mid
                     ELSE search[n - 1, mid]
    IN  search[MaxIterations, max_qty]

\* One round of the binary search; where the code leaves the loop, the others
\* change nothing.
Narrowed(buy_book, sell_book, rate, range) ==
    LET mid == (range.lo + range.hi) \div 2
    IN  IF mid < Epsilon \/ range.hi - range.lo < Epsilon THEN range
        ELSE IF QuantityClears(buy_book, sell_book, rate, mid) THEN [range EXCEPT !.lo = mid]
             ELSE [range EXCEPT !.hi = mid]

\* What the code calls best_qty is always lo.  max_qty is approached and never
\* tried.
Search(buy_book, sell_book, rate, max_qty) ==
    LET search[n \in Nat] == IF n = 0 THEN [lo |-> 0, hi |-> max_qty]
                             ELSE Narrowed(buy_book, sell_book, rate, search[n - 1])
    IN  search[MaxIterations].lo

max_arb_quantity(buy_book, sell_book, rate) ==
    IF ~TopClears(buy_book, sell_book, rate) THEN 0
    ELSE Search(buy_book, sell_book, rate,
                Least(Depth(buy_book.asks), Depth(sell_book.bids)))

-----------------------------------------------------------------------------
(* What the properties say of it *)

\* The sides of a book, the best level first.
Levels == [price : Nat, quantity : Nat]
BookSorted(book) ==
    /\ book.asks \in Seq(Levels) /\ book.bids \in Seq(Levels)
    /\ \A i, j \in DOMAIN book.asks : i < j => book.asks[i].price <= book.asks[j].price
    /\ \A i, j \in DOMAIN book.bids : i < j => book.bids[i].price >= book.bids[j].price

\* The least that a quantity can cost, over every way to take it from the
\* levels of a side; and the most that it can bring.
Allocations(levels, quantity) ==
    {a \in [DOMAIN levels -> 0 .. quantity] :
        /\ \A i \in DOMAIN levels : a[i] <= levels[i].quantity
        /\ SumFunction(a) = quantity}
Value(levels, a) == SumFunction([i \in DOMAIN levels |-> a[i] * levels[i].price])

Doublings[n \in Nat] == IF n = 0 THEN 1 ELSE 2 * Doublings[n - 1]

\* How far a quantity is beyond what was found is more than EPSILON, and more
\* than the iterations leave of the depth.
Beyond(quantity, found, depth) ==
    quantity > found + Epsilon /\ (quantity - found - 1) * Doublings[MaxIterations] >= depth
=============================================================================
