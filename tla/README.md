# Verification of the arbitrage bot

TLA+ models of the bot in `src/` (C++17; file names below are relative to
`src/src/`), TLC configurations that check them on small instances, and TLAPS
proofs of the properties that matter most for every instance.

## The system

The bot watches the order books of five exchanges over websockets, looks for a
pair that can be bought on one exchange and sold at a higher price on another,
and trades it, on paper or live.  A dashboard is fed over a websocket of its own.

Threads: one websocketpp *io thread* per exchange, from whose message handler a
book is updated, the pair is scanned, and a trade is executed; a *reconnect
thread* per exchange; the *main loop* (every 100 ms prices and spreads, every 2 s
balances, profit and, every minute, rebalancing); the *fee refresh* and
*inventory monitor* threads; the dashboard's *server thread* and *drain thread*.

| Component | State | Operations | Interacts through | Hard because | Correct when |
|---|---|---|---|---|---|
| Websocket client (`exchange/ws_client`) | flags, connection, io and reconnect threads, backoff | connect, disconnect, handlers | handlers, `join` | threads that wait for each other, reconnection against shutdown | a lost link comes back, one at a time; disconnect returns and leaves nothing (each with exceptions, see below) |
| Feeds (`exchange/*/*_ws`) | subscriptions, callbacks | subscribe, unsubscribe, on_message, on_connected | client's callbacks, book callback | replay after reconnection, callbacks under a lock | every subscribed pair is subscribed on every link |
| Order book (`orderbook/order_book`) | sorted sides, copy of the top levels, seqlock | apply_snapshot, apply_delta, snapshot | shared memory | lock-free readers | a validated snapshot is of one update; sides sorted, stale deltas ignored |
| Aggregator (`orderbook/order_book_aggregator`) | map of books, callback | get_or_create_book, notify | calls | callback set after the threads start | one book per exchange and pair |
| Depth analyzer | none | effective prices, max_arb_quantity | calls | binary search, empty books | agrees with its definition |
| Spread detector (`strategy/spread_detector.h`) | time of the last trade per direction | scan_pair | calls the executor | concurrent scans of a pair | the best opportunity, once per cooldown |
| Fee manager | fee cache, refresh thread | get_fee, refresh, stop | shared lock | failed refresh, stop against sleep | a known fee is not lost |
| Paper executor | virtual balances, profit | execute, rebalance | called by io threads and main loop | balances checked and updated under separate locks | assets conserved, profit accounted for |
| Live engine, order manager, inventory | orders, balances | execute, track, refresh | REST calls in parallel | one leg fails, answers lost, retried orders | exposure is hedged or reported |
| REST client | curl handle | get, post, del | all callers | retry of what was already done | an order is placed once |
| Broadcast queue (`server/broadcast_queue`) | ring, two indices, drop counter | try_push, try_pop | lock-free | index protocol at wrap-around, number of producers | a bounded FIFO queue |
| Dashboard server (`server/ws_server`) | connections, running flag | on_open, on_close, broadcast, drain, stop | the queue | stop against drain | accepted messages are sent; stop returns |
| Trade logger | a file | log_trade, load | file lock | partial writes | a logged trade is found unless its write, or the line it follows, was faulty |
| Backtest | simulated balances and books | place_limit_order, run | sequential | partial fills at a limit | assets conserved |

`PROJECT.json` lists every component with its status, and the hazards with the
properties that cover them.

## What is modelled

**`BroadcastQueue`** (`server/broadcast_queue.cpp`).  `try_push` is `LoadHead`,
then `PushFull` or `PushNotFull`, `WriteSlot`, `PublishHead`; `try_pop` is
`LoadTail`, `PopEmpty` or `PopFound`, `MoveSlot`, `PublishTail`: one action for
each atomic access and each access to a slot.  A message is the number of its
call.  `accepted` and `delivered` are history variables.  **`BoundedQueue`** is
what the queue promises: an accepted message joins the end of a sequence of
bounded length, a message is discarded only at the bound, and messages leave at
the front.  `ImplementsBoundedQueue` is the refinement; the queue's contents are
read off the ring between the two indices (`Waiting`).

**`OrderBook`** (`orderbook/order_book.cpp`).  The writer (`apply_snapshot`,
`apply_delta`) is `UpdateBook`, then the critical section of the seqlock, one
action per store of `sync_top_levels`; `snapshot()` is one action per load, with
the `continue` of its do-while going where C++ takes it, to the loop's
condition.  A level is the number of the update that wrote it, since which
update a value comes from is all the seqlock decides.  A vector of the snapshot
keeps its size over the passes of one call, and what a pass writes past it is
blanked by `resize()`; `kept` is the size that the last pass found (history).  A stale delta returns
early and changes nothing, and is not an action.  What the updates do to the
sides is in `Feed`.

**`ExchangeWsClient`** (`exchange/ws_client.cpp`).  Three threads: `main`
(`Connect` once, `Disconnect` ... `JoinReconnect`, and the same once more for
`Destroy`, the destructor), `io` (the handlers `OnOpen`,
`OnFail`, `OnClose`, then `DecideReconnect` and `StartReconnect`, and `IoExit`
when `run()` returns) and `rec` (`reconnect_loop`).  Each `join()` is a step that
waits.  The reconnect thread goes on from its 2 s (`Linger`) whether the attempt is
decided or not, and `disconnect()` begins at any time; `overdue` and `amid`
(history) are the attempts and the call for which that matters.  websocketpp and
asio are modelled by what the code relies on.

**`PaperExecutor`** (`execution/paper_executor.cpp`).  `execute()` is ten steps of
a thread, `mutex_` being taken anew for each balance; `rebalance()` is one step,
under the lock.  Amounts are whole numbers: quantities are multiples of the
number of exchanges, so that the division of `rebalance()` is exact, and quote
amounts are in units of a fee.  Rounding of doubles is not modelled.  The call of
the trade logger is the last step; what the log then has is in `TradeLogger`.

**`LiveExecution`** (`execution/execution_engine.cpp`, with `order_manager.cpp`,
the retries of `exchange/rest_client.cpp` and the order calls of the adapters).
`execute()` holds its lock from end to end, so there is one trade, and its steps
are `Execute` (both orders tracked), the two threads' `Place`, `Gather` (the two
`get()`, then the updates of the order manager, or the exception that leaves
`execute()`), `OneSided`, `Partial`, `Query`, `Cancel` (`handle_partial_fill`) and
`Record` (`record_fill` and `log_trade`).  `Place`, `Query` and `Cancel` are one
attempt of a REST call each.  An attempt is answered, refused, or ends in a
*fault*: the request may have arrived, but the answer is lost, has a status that
`perform()` repeats or that the adapter does not expect, or does not parse.  What
an adapter makes of an answer differs (`Placed`, `Refused`, `MayThrow`): OKX and
Bybit only acknowledge, MEXC and Gate.io tell a status and no quantity, Binance
tells both and may throw.  The exchanges fill waiting orders at any time (`Fill`).

**`InventoryTracker`** (`execution/inventory_tracker.cpp`).  The monitor thread is
`Loop`, one `Fetch` and `Store` per exchange with the lock held, `Check` and
`Sleep`; `RecordFill` is the engine's and waits for the lock; `Stop` and `Join` are
main's.  Fills happen at the exchanges (`FillOrder`), and the engine records them later or
never.  The fills that a balance includes, by fetch or by record, are history.

**`SpreadDetector`** (`strategy/spread_detector.h`), with **`DepthAnalyzer`**
(`orderbook/depth_analyzer.cpp`), **`FeeManager`** (`strategy/fee_manager.cpp`) and
the books and the callback of `orderbook/order_book_aggregator.cpp`.  The io thread
of every exchange applies an update to its own book (`Update`), notifies the
aggregator (`Notify`, which scans only once `main` has set the callback), reads
the books of all exchanges one after the other (`Snapshot`), goes through the
directions in the order of the loops with the rate of each read when its turn
comes (`Evaluate`), tests and takes the cooldown under its lock (`GiveUp`,
`TakeCooldown`) and trades for as long as that takes (`Fire`).  Meanwhile the fees
are refreshed: `Fetch` asks one exchange and may fail, `SwapFirst`, `SwapAndStart`
and `Swap` put the new cache in place, `Wake`, `Leave`, `StopRefresh` and
`StopReturns` are the thread's life.  `DepthAnalyzer` has no state: in whole
numbers, with averages compared by their totals, it is the walk through the levels
of a side (`Walk`, of steps `Taken`) and the binary search (`Search`, of steps
`Narrowed`), as functions over the number of levels and of rounds.

**`Feed`** (`exchange/*/*_ws.cpp`, and the editing of the sides in
`orderbook/order_book.cpp`).  An exchange has a market that changes (`Change`) and
serves each subscription with whole books and changes as it does in reality
(`Serve`, external); a link carries them in order, and is lost with what is on it
(`FirstLink`, `NextLink`, `Lose`).  `Receive` is `on_message` as the adapter of each
exchange parses it, down to `apply_snapshot` or `apply_delta`; `Drop` is a message
that does not parse.  A message carries an id, or the time in ms that Gate.io
gives for one.  A side in order is the sequence in which each level has the place
of its rank (`Sorted`), which takes for granted what exchanges document: that a
message lists no price twice.

**`TradeLogger`** (`persistence/trade_logger.cpp`), **`DashboardServer`**
(`server/ws_server.cpp`) and **`Reporting`**, which composes them with `main.cpp`'s
loop and the threads that trade.  A record is written in two halves, so that a
reader, who takes no lock, may come between them; a write may fail, or be short.
The file begins with what earlier runs left in it (`KeptFiles`), perhaps without the
newline of its last record; `exposed` (history) are the trades that a fault, or
such a line, may cost.
The server has its clients (`OnOpen`, `OnClose`), the queue (`Broadcast`), the drain
thread (`Pop`, `LockClients`, one `SendSucceeds` or `SendFails` per client,
`CloseSlow`, `DrainExit`), and `stop()` in four steps.  The main loop is `FastPath`,
`SlowPath`, `ReadTotal`, `ReadPair`, `ReadStats`, `Report`, and the shutdown after it
`Stop`, `StopOthers` (the tracker's and the fee manager's `stop()`, each of which
ends: `InventoryTracker`'s `StopReturns`), `StopServer` ... `Join`, and `Exit`, when
the adapters' `disconnect()` have returned.  That they do is not assumed.

**`Backtest`** (`backtest/*.cpp`).  The files are read (`Histories`, with what
`load_csv` makes of rows with fewer levels), the times are gone through
(`Advance`, `UpdateBooks`, `Scan`) to their end (`Finish`), orders are filled from
the simulated books (`place_limit_order`), and the report is computed
(`compute_metrics`).  The engine's book of an exchange is what `apply_snapshot` makes
of the exchange's row (`BookOf`: the levels with a quantity, sorted), while orders are
filled from the row as it is in the file; `scripts/generate_mock_data.py:38-47`
writes rows that are not sorted.  `owed` and `disordered` (history) are what such
rows may cost.  The program is sequential; what varies is the data.


## What the runs show

| Run | Bounds | Shows |
|---|---|---|
| `queue` | one producer, capacity 2 (three slots), seven pushes: the indices wrap twice, the queue is full and empty in every position | types, no slot race, accounting, FIFO refinement, delivery |
| `queue_shared` | two producers, four pushes | **violated**: `main.cpp` pushes from several threads, and a message that `try_push` accepted is lost |
| `book` | 2 of up to 3 levels copied, depth 2, two updates, a reader that calls again and again; every step of one can fall between any two of the other, and the copy is both cut at `TOP_LEVELS` and shorter than before | snapshots validated by an even seqlock are of one update, with blank levels where an earlier pass of the call met a shorter book |
| `link` | four attempts, of which all but the last may fail, be lost or outlast the 2 s; disconnect at any time, and again by the destructor | a second link only beside one that was overdue; a lost link is restored unless the two threads block each other; disconnect returns and leaves nothing unless it began amid a reconnection |
| `link_backoff` | attempts may fail | **violated**: a failed reconnection makes the two threads join each other, for good |
| `paper` | two threads, three exchanges, four trades, full and partial fills, rebalancing at any time | assets and profit are accounted for; the overdraft is bounded |
| `live` | one trade, all 20 ordered pairs of the five adapters, orders of two units so that fills are partial, two attempts per call, two faults: a call can fail for good, and two calls can fail once | the order manager knows every order but those excepted; what one leg leaves alone is withdrawn unless the cancel fails; a trade filled on both sides is flat but for lost answers; every call returns |
| `inventory` | two exchanges, two fills of one unit of two, one failed fetch, the monitor goes round again and again | no fill is lost between fetch and record, alerts are real, balances come right, stop returns |
| `scanner` | two exchanges that both may be cheap or dear, with books on which the profitable depth depends on the rate and a trade of all of it is too large; two updates, three refreshes of which the last two may fail at one exchange, two ticks of a clock on which books age and the cooldown ends | what is traded is sound, at a rate of one refresh, a cooldown apart; no update goes unseen |
| `feed` | each of the five adapters, two pairs, three prices, two changes of the market, a second link, one malformed message | a book is the exchange's as of the last message unless it missed a change; its sides are sorted and positive; it catches up on every link |
| `reporting` | two trades of two pairs, a file of an earlier run with one of each of a pair that main has and has not (in paper mode without its last newline), one fault of a write, one client that opens once and may fail three sends, a queue of one message, one slow and one fast round of the main loop before or after the signal | only a trade whose write was faulty, or that followed such a line, is lost; the figures of a report are in order; slow clients are closed; the shutdown gets as far as the adapters |
| `backtest` | all data of three times for two exchanges over a small set of rows, among them empty ones, one-sided ones and one that is not sorted and has a level without quantity | profit is what the exchanges hold more; a balance is overdrawn by a fee at most, and only after a purchase from asks out of order; books are of their time; trades of rows in order are wins |

`UnmatchedIsWithdrawn` speaks of legs *reported* as rejected: OKX's adapter
reports a refusal that has no data as PENDING (`exchange/okx/okx_rest.cpp:125`), and
then the other leg stays open, against the comment of
`execution_engine.cpp:87`.

A violated run is a disagreement of the code with a comment, test or assertion
of the repository; `PROJECT.json` "findings" quotes it.

In `link` the network may fail or lose any attempt but the last of `MaxAttempts`, so
that there is always one that can come up.  One real-time assumption is a guard: the
sleep of at least a second outlasts the return of a `run()` with nothing to do
(`SleepEnds`).  What the properties except is what TLC finds without the exceptions:

- `OneLink`: an attempt that is still pending after the 2 s of `ws_client.cpp:287`
  has a second one beside it.
- `LinkRestored`: `Blocked`, the mutual join that `link_backoff` shows.  A second
  failure in a row leads to it, a link that is lost within the 2 s, and an attempt
  that fails after them.
- `DisconnectLeavesNothing` and `DisconnectReturns`: a `disconnect()` that begins
  between the reconnect thread's second test of `shutting_down_` and its new io
  thread.  `reset()` undoes `stop()`, so main may wait for an io thread that nobody
  stops, or return with one running.  Outside that window, and in the destructor's
  call in any case, both hold.

Two threads that join one `std::thread` at a time (main and the reconnect thread, at
`ws_client.cpp:109` and `282`) is undefined behaviour; in the model both wait for it.

In `paper` a direction is traded by one thread at a time (the detector's
cooldown of a second), and both threads' trades sell on the same exchange.
`MaxTrades` = 4 is what the unlimited overdraft of a wrong check needs to exceed
the bound.  Threads are symmetric, and the run uses only invariants.

In `live`, `RetryCount` = 1 stands for the code's 3: that an attempt follows
another, and that none does, is what matters.  One trade is enough, since the
lock keeps trades apart and a trade starts with locals of its own (`MaxTrades` = 2
with `Quantity` = 1 gives the same result).  In the model an invalid opportunity
is not offered, since the detector finds none, and main's calls of `check_drift`
are left out, since it changes nothing.

In `scanner` a snapshot of one book is one step, since `OrderBook` shows what a
validated one is.  `MaxUpdates` = 2 lets the threads of both exchanges scan at once,
and the last update fall before, between and after the reads of the other
thread.  `MaxRefreshes` = 3 is the two that `main` makes and one of the thread.

In `feed` a price has one of two quantities or none, and a link carries its
messages in order, as TCP does.  What a gap is differs: an adapter whose ids are
consecutive could see one, but none looks, so `BookIsCurrent` excepts the pairs
that missed a message, and Gate.io's second change of one ms.

In `reporting` `LostIsBounded` names the trades that may be missing, so with one fault
and two trades it still says that the other trade is found, unless it was written
to the same line.  The queue is no more than the number of messages in it, with a
capacity of one, so that messages are dropped (`BroadcastQueue` has the rest); the other bounds are the least with which a half written
line is read back, and a client is closed for its third failure while
`stop()` closes it too.

Fairness.  `queue`: the drain thread keeps calling `try_pop` (true while the
server runs; what is queued when `stop()` is called is not sent), and a producer
that is inside `try_push`, which never waits, goes on; nobody has to push.
`link`: each thread that can take a step does, and a pending attempt opens or
fails (websocketpp's handshake timeout); links need not close, and main need not
disconnect.  `live`: the engine and the two placing threads go on, as every
REST call has a timeout; nobody has to trade or fill.  `inventory`: the monitor
goes on; an engine that waits for the lock gets it in the end, strong fairness
being due to the monitor's 30 s of sleep without the lock; main need not stop.
`feed`: the exchange serves what is subscribed and the io thread receives; links
need not be lost, and nothing need change.  `reporting`: each thread that can take
a step does; no client need come, no trade be made, no signal be sent, and no
`disconnect()` of an adapter return.

## Known disagreements without a run

These are of less consequence than the two that have a run, and no passing
property says the contrary.

- `orderbook/order_book.cpp:184`: `continue` in a do-while goes to the condition,
  and the value loaded is still odd: if the writer has not moved on, the two loads agree and
  `snapshot()` returns empty or torn levels.  `orderbook/depth_analyzer.cpp:18` takes
  the asks to be sorted.  `ValidatedIsOfOneUpdate` is about even values for that reason.
- `orderbook/order_book.cpp:192` and `197`: a retry after a pass over a shorter book
  writes past the size of the vector, and `resize()` then appends levels of price
  and quantity 0.  The snapshot passes the test of the seqlock, and the depth analysis
  takes the blank levels for levels: a walk goes through them without a fill, and if
  the shorter book was empty, the best price is 0.
- `execution/paper_executor.cpp:123`: the check and the update of a balance are
  under separate locks, so that two trades may overdraw it, which
  `tests/test_paper_executor.cpp` (`InsufficientBalanceRejects`) excludes for one.
  `OverdraftIsBounded` says by how much.
- `exchange/mexc/mexc_rest.cpp:125` and `exchange/gateio/gateio_rest.cpp:127` report
  FILLED without a filled quantity, and `execution/execution_engine.cpp:157` then
  books a trade of nothing.
- `execution/inventory_tracker.cpp:28` leaves out balances of zero, so that line
  98 compares nothing when an asset is on one exchange only, which is the
  largest drift there is.

- `exchange/ws_client.cpp:287`: an attempt that takes longer than 2 s is joined by
  another, and `connection_hdl_` then names only the later one.
- `main.cpp:366`: in paper mode `total_pnl` is the executor's, which begins at 0,
  while the profits per pair and the counts are read from a file to which every run
  appends: after a restart the figures of one message are of different runs.
- `backtest/simulated_exchange.cpp:105`: orders are filled in the order of the file and
  priced from the sorted book.  With unsorted rows a fill costs more than the engine
  compared, up to the limit: a trade that was recorded may have lost, and a balance
  may go below zero by the fee.

Found on the way, and also without a run: a row of fewer than twenty bids loses
its asks when it is read back (`backtest/data_loader.cpp:48`); a trade of which one
side fills in part moves balances and is not in the report
(`backtest/backtest_engine.cpp:168`); `--from` and `--to` are stored and never used.

## What is proved

Eight modules hold proofs, `SumTheorems` and `DepthTheorems` only lemmas.  Where one of
the others is about two components, these share neither state nor constants.

`LockFreeProof`, the ring (for every capacity and number of calls):

- `TypeCorrect`: `TypeOK`, with any set of producers.
- `QueueInvHolds`: with one producer, `QueueInv` is inductive.  `TypeOK` and
  the accounting alone are not: that a producer between its load of `head_` and
  its store finds `head_` unchanged and the ring still not full (`PushProtocol`),
  and likewise the consumer (`PopProtocol`), is why the indices work.
- `NoSlotRaceHolds`, `AcceptedAccountedHolds`: consequences.
- `RingImplementsBoundedQueue`: every step of the ring is a step of
  `BoundedQueue` or a stutter.  `PublishHead` appends to the sequence, `MoveSlot`
  leaves it as it is since the message is then in the consumer's hands, and
  `PublishTail` takes its head.

The assumption is `SingleProducer`, which the class documents and `main.cpp`
does not keep.

`LockFreeProof`, the seqlock (for every number of levels, depth and number of updates):
`SeqlockInvHolds`, from which `BookTypeCorrect`, `PublishedIsWholeHolds` and
`ValidatedIsOfOneUpdateHolds` follow.  The inductive invariant has the writer's position
determine the seqlock and how much of the arrays is already of the last update
(`WriterInv`), and says of the reader that while the seqlock has the even value it
loaded, what it has read is of that update (`ReaderInv`), as far as the vector
had room for it (`kept`).

`MarketDataProof`, the link (for any number of attempts, any of which may fail, be
closed early or outlast its 2 s, and any delays): `LinkInvHolds`, from which
`LinkTypeCorrect`, `OneLinkHolds` and `DisconnectLeavesNothingHolds` follow, with no
assumption but those on the constants.  That an attempt gets company only when it was
overdue depends on all three threads: the reconnect thread sleeps only with links
that are overdue (`UpInv`), which it knows from `connected_`, and goes on from there
with no others, since the handlers' thread is not in `run()` meanwhile unless there
are such; of the others only the last attempt can be alive (`LastInv`).  What has
to hold only before `disconnect()` is said only of that time.  `JoinInv` says that no
thread is started after a `disconnect()` that did not begin amid a reconnection; that
one that did leaves no reconnect thread either, since it joins it last; and that the
destructor's call, which finds none, therefore leaves nothing.

`MarketDataProof`, the feed (for each adapter, any finite sets of pairs and prices, any
markets, and any number of changes, links and malformed messages): `FeedInvHolds`,
from which `BookIsCurrentHolds` and `SidesSortedHolds` follow.

- `BookIsCurrent` is not inductive, since it says nothing of what is on its way.
  `ChainInv` does: a change lists what differs from the message before it of the same
  pair, on the wire or received last, unless one was missed in between; and the last
  message of a served pair is of the market as it is.  A lost link empties the
  wire, and no pair is served until it is subscribed anew, which brings a whole book.
- `MessageInv`: what a message lists are levels of one market, in any order, each
  price once, and only Bybit and Gate.io send changes.
- `RankOf`, `PlaceOf`, `SortedOf`, `SideIsSorted`: to sort by rank puts each level in
  one place, and there is only one sorted side of a set of levels.  That is why a
  book that was edited level by level equals one that was sent whole.
- `LowerBoundOf`, `InsertedAt`, `RemovedAt`, `UpdateVec`: the binary search finds the
  one place, and what `update_vec` inserts, replaces or removes there leaves the side
  sorted.  `UpdatedRecurs`, `UpdatedSide`: after all levels of a change, each listed
  price has its new quantity, and the others have their old one.

`SpreadDetectorProof` (for any number of exchanges, any books, fees, failing
fetches, and any cooldown and bounds): `ScannerInvHolds`, from which `TypeCorrect`,
`RateOfOneRefreshHolds`, `CooldownKeptHolds`, `NoUpdateMissedHolds` and
`FiredIsSoundHolds` follow.

- `RateInv`: the cache that is read is one that was swapped in, and caches are
  never forgotten (`FeesStep`); so a rate stays of one refresh after the next.
- `CooldownInv`: a trade under way has a time not later than the last of its
  direction.  `CooldownKept` alone is not inductive, since it says nothing of the
  time that the next trade is compared with.
- `CoverInv`: from the first scan on, some thread has all the books as they are,
  or is about to: it will scan (`notify`), or what it read so far is up to date.
  An update makes its own thread that one; the last read makes what was up to date
  so far all of the books (`LastRead`).  This needs that reads come in one order and
  that a scan follows every update, and it does not depend on the number of
  threads.

`LiveTradingProof`, the engine (for any exchanges, adapters, opportunities, quantity, number
of retries, trades and faults): `LiveInvHolds`, from which `TypeCorrect`,
`NoOrphanHolds`, `UnmatchedIsWithdrawnHolds` and `FilledIsFlatHolds` follow.  None of
the three is inductive, since each speaks of a trade that is known or logged
already, and the exchanges go on filling its orders meanwhile.

- `Grows`, of every step: no order is forgotten, opened again or emptied, and new
  ones are of the trade that is being placed.  So what was true of the orders of a
  logged trade stays true, since a logged trade is over (`LoggedInv`).
- `PlacedInv`: while a trade is placed, an order whose answer was not lost is of the
  leg's last attempt, and the leg has its number and an honest status.  This
  becomes `NoOrphan` when `Gather` updates the order manager, and `FlatInv` for the
  rest of `execute()`.
- `ClosedInv`: which legs are closed at each step of `handle_partial_fill`: the leg
  left alone first, then the buyer's rest, then the seller's.  `OrdersInv` is why
  an order that the query says is filled needs no cancelling.

`SimulationProof`, the paper executor (for any exchanges, threads, finite set of opportunities,
quantities and number of trades): `ExecutorInvHolds`, from which `TypeCorrect`,
`BaseAccountedHolds`, `QuoteAccountedHolds` and
`OverdraftIsBoundedHolds` follow.  The sums over the exchanges and over the threads
change in one summand at a step; `rebalance()` is the step that changes all, and keeps
their sum because what is on the exchanges is divisible by their number, which is
itself a part of `AccountsInv`.  The assumption for that is that fills are
multiples of the number of exchanges (see above).  `OverdraftIsBounded` is not
inductive: a check and the sale that it allowed are steps apart.  `OverdraftInv`
keeps room for the threads between the two (`Selling`): a balance is below zero by
at most the largest trade of each of the other threads.

`LiveTradingProof`, the tracker (for any finite set of exchanges, deposits, changes, fills
and faults): `TrackerInvHolds`, from which `TrackerTypeCorrect`, `FillsAreCountedHolds` and
`AlertIsRealHolds` follow.

- `FillsAreCounted` is not inductive: what a fetch answered may be older than what was
  recorded since.  `FetchedInv` says why it is not: between `Fetch` and `Store` the
  monitor has the lock, under which `record_fill` writes too, so what was fetched has
  all that was recorded at that exchange.  `RecordsInv` has a fill recorded at most once.
- `AlertIsReal` is an action property.  `check_drift` leaves out the exchanges
  without an entry, which hold nothing when the balances are right: leaving them out
  only raises the mean, and what exceeds the threshold of it does so with them
  (`DriftIsReal`).

`ReportingProof` (for any pairs, trades, kept files, clients, faults and bounds):
`ReportingInvHolds`, from which `TypeCorrect`, `LostIsBoundedHolds`,
`ReportIsOrderedHolds` and `SlowIsClosedHolds` follow.

- `LogInv` is the form of the file: which lines end, and what the writer has begun.
- `LostInv`: a trade that was logged and is not exposed has a line of its own
  (`IsOwnLine`); and the exposed, with one more if the last line hangs without a
  newline (`Hanging`), are at most two for each fault, and one for the file that was
  kept.  The count alone is not inductive: a fault pays for its own trade and
  for the next.
- `ReadInv`: `Found`, what a load returns and what is spoiled, only grows; so what main
  has read stays in it, and of two readings the later one lacks nothing but what was
  spoiled in between.  In paper mode the total lacks the trades of earlier runs, and
  only those.
- `ServerInv`: who is sent a message, and who failed thrice and is not closed yet,
  while the drain thread has the lock, under which nobody comes or goes.

`DepthTheorems` is about the depth analysis, for any levels and quantities.  It is what
`FiredIsSound` needs, and what a simulated order is filled with:

- `WalkRecurs`, `AskPrice`, `BidPrice`: a walk is at the level where the quantity is
  reached, and its total is that of the cheapest way of buying the quantity
  (`WalkIsCheapest`, or dearest way of selling): every level before the last is at
  least as good as it, every one after at most, if the side is sorted.
- `AskAverage`, `BidAverage`: so a smaller quantity has no worse an average, and what
  clears is downward closed (`PartClears`).
- `SearchRecurs`, `RangeStep`, `SearchEnds`: the search keeps a range of which the
  lower end clears and the upper does not, and halves it in each round; so no
  quantity clears that is larger by more than the precision (`FoundOf`, and
  `CappedOf` in `SpreadDetectorProof`).

`FiredIsSoundHolds` assumes `QuoteConstants`, that the books offered to the detector are
sorted: what `Feed`'s `SidesSorted` says.  `SoundInv` says of a thread's opportunity that
it is sound for the books it read, which change meanwhile only in `books`.

`SimulationProof`, the backtest (for any data, number of exchanges, fees, balances and
width of a row): `BacktestInvHolds`, from which `BacktestTypeCorrect`,
`PnlAccountedHolds` and `BookOfTheTimeHolds` follow, and `NothingOverdrawnHolds` and
`OnlyWinsAreReportedHolds`, which assume more.

- `BooksInv`: while the engine scans, its book is the exchange's row, filtered and
  sorted (`AppliedOf`, `BookOfRow`), or that row is empty, and then nothing is filled.
  If the row is in order, a fill costs what the engine's walk says, or a part of it:
  `WalkOfSome`, `FilledWithinOf` have the walk over a prefix of the levels cost no
  more, and as much if it fills the order.  In any order it costs no more than the
  limit (`WalkWithin`).
- `TradeOf`, `OutcomeOf`, `MovedOf`: the outcomes of the two orders of a trade, and
  what the sums over the exchanges change by, also when one of them is rejected.
- `RowOf`, `ReadRowOf`: what `load_csv` reads are levels that have a price, whatever
  the row lacks.  `AdvanceToOf`, `NextTime`: where the index of an exchange is.
- `NothingOverdrawnHolds` assumes `FeesAreCovered`: no fee is higher than the slack of
  a limit, nor than the whole.  Both are 0.1% in the code
  (`backtest/simulated_exchange.h`, `backtest/backtest_engine.cpp`).  The check of
  the balance leaves the fee out, and `CoveredAtLimit` is why it suffices for
  asks in order; for others the slack may be used up by the price, and what is
  overdrawn is at most the fee.
- `OnlyWinsAreReportedHolds` assumes `ProfitIsEnough`: the least net profit that is
  required exceeds what the fee of the sale is more for being taken of the larger
  amount.  That is so with the 2 bps of `config.json` and the default of 3.  With
  `min_net_spread_bps` configured to 0 a recorded trade could lose some 0.0002% of its
  size.  `AllWin` is the invariant, of the trades whose rows were in order; `MetricsOf`
  and `WinsOf` are what the recursion of `compute_metrics` makes of it.
- `MCBacktest` assumes both conditions by name, so TLC evaluates them for the run.

`SumTheorems` is what these proofs need of data: sums over finite sets of numbers
(a summand changes, one comes or goes, two sums are ordered summand by summand) and
recursion over numbers.  The library's theorems about both take operators as
parameters, which the installed provers cannot instantiate; here a predicate is a
set of the values that have it, and induction is that a set of numbers without its
least counterexample is empty.

## What is only model-checked, or not modelled

Liveness (`AcceptedIsDelivered`, `LinkRestored`, `DisconnectReturns`, `ExecuteReturns`,
`Converges`, `StopReturns`, `BooksCatchUp`, `ShutdownReachesAdapters`) is checked by
TLC, which is all that can be done with ENABLED.  Every invariant and every action
property of a passing run is a theorem.

The models are sequentially consistent: the memory orders of the seqlock and of the
ring are not modelled.  Two producers in the ring race on a `std::string`, which
is undefined behaviour; the model lets one of the writes win.  The curl handle of
an exchange is used by several threads without a lock; the faults of
`LiveExecution` and `InventoryTracker` are the outcomes considered, and a crash is
not.  The paper executor's generator is used by all io threads without a lock; its
outcome is any fill, which `SimulateFills` allows.  Doubles are whole numbers
everywhere, and their rounding is not modelled.

Not modelled: formatting of messages and requests, signing, configuration,
logging, `unsubscribe_depth`, `cancel_order` and `query_order` of the simulated
exchange, `DataLoader::filter` and the queries of the order manager, which nobody
calls; the dashboard's pages and its receiver, which is a client of the server
like any other; build and deployment files.

## Plan

What was planned for these components is done, proofs included.  Left:

1. The composition of `LiveExecution` with `InventoryTracker`: the fills of the
   engine's orders are those that are recorded.
2. `Feed` composed with `ExchangeWsClient`, whose threads here are `Lose` and
   `NextLink`.
