--------------------------- MODULE LiveExecution ---------------------------
(***************************************************************************)
(* Live trading: ExecutionEngine::execute() with the order manager, the    *)
(* retries of RestClient::perform() and the order calls of the five        *)
(* exchanges' adapters.  execution_mutex_ is held throughout, so there is  *)
(* one trade at a time; its two legs are placed by two threads, and the    *)
(* exchanges go on filling what they were sent, in this trade and after.   *)
(*                                                                         *)
(* An order at an exchange is known by its trade, its side and the attempt *)
(* that brought it there: no adapter sends the client's order id, so each  *)
(* attempt that arrives is an order of its own.  A fault is an answer that *)
(* does not come or cannot be used (a curl error, a status that is retried *)
(* or not expected, a body that does not parse), the request having        *)
(* arrived or not.                                                         *)
(***************************************************************************)
EXTENDS Integers, Sequences, FiniteSets

CONSTANTS Exchanges,
          Adapter,        \* of each exchange, the adapter that speaks to it
          Opportunities,  \* where to buy and where to sell
          Quantity,       \* of every opportunity
          RetryCount,     \* retry_count_
          MaxTrades,      \* bound on the calls of execute()
          MaxFaults       \* bound on the faults

Sides == {"buy", "sell"}
Other(s) == IF s = "buy" THEN "sell" ELSE "buy"
Statuses == {"PENDING", "OPEN", "PARTIALLY_FILLED", "FILLED", "REJECTED"}
Tries == 0 .. RetryCount
None == RetryCount + 1

ASSUME LiveConstants ==
    /\ Adapter \in [Exchanges -> {"binance", "okx", "bybit", "mexc", "gateio"}]
    /\ Opportunities \subseteq [Sides -> Exchanges] /\ Opportunities # {}
    /\ Quantity \in Nat \ {0} /\ RetryCount \in Nat
    /\ MaxTrades \in Nat /\ MaxFaults \in Nat

VARIABLES pc, side,      \* where execute() is, and the leg it sees to
          opp, trade,    \* the opportunity, and the number of the call
          leg, results,  \* the two threads that place orders, and their answers
          tries,         \* attempts made of the REST call of each side
          managed,       \* orders_ of the order manager
          trades,        \* the trade logger's records
          orders,        \* the orders that the exchanges have taken
          faults, unanswered, uncancelled, threw  \* history

history == <<faults, unanswered, uncancelled, threw>>
vars == <<pc, side, opp, trade, leg, results, tries, managed, trades, orders,
          history>>

-----------------------------------------------------------------------------
(* Orders, and what the adapters answer about them *)

Id(s) == <<trade, s, tries[s]>>
Known(s) == <<trade, s, results[s].order>>

Lesser(a, b) == IF a < b THEN a ELSE b

\* The order as the exchange takes it, f of it filled at once.
Taken(f) == [live |-> f < Quantity, filled |-> f]

\* An attempt of side s arrives.
Arrive(s, f) ==
    orders' = [id \in DOMAIN orders \cup {Id(s)} |->
                   IF id \in DOMAIN orders THEN orders[id] ELSE Taken(f)]

Result(status, filled, n) == [status |-> status, filled |-> filled, order |-> n]
NoResult == Result("PENDING", 0, None)

\* Mutant: an order of which something is filled counts as filled.
StatusOfAny(o) == IF o.filled > 0 THEN "FILLED" ELSE "OPEN"
StatusOf(o) ==
    IF o.filled = Quantity THEN "FILLED"
    ELSE IF o.filled > 0 THEN "PARTIALLY_FILLED" ELSE "OPEN"

PlacedBinance(o, n) == Result(StatusOf(o), o.filled, n)
PlacedOkx(o, n) == Result("OPEN", 0, n)
PlacedBybit(o, n) == Result("OPEN", 0, n)
PlacedMexc(o, n) == Result(StatusOf(o), 0, n)
PlacedGateio(o, n) == Result(IF o.live THEN "OPEN" ELSE "FILLED", 0, n)

\* place_limit_order() when the exchange took the order and its answer came.
Placed(adapter, o, n) ==
    CASE adapter = "binance" -> PlacedBinance(o, n)
      [] adapter = "okx" -> PlacedOkx(o, n)
      [] adapter = "bybit" -> PlacedBybit(o, n)
      [] adapter = "mexc" -> PlacedMexc(o, n)
      [] adapter = "gateio" -> PlacedGateio(o, n)

\* ... and when it did not: OKX's adapter leaves the status as it was unless the
\* answer says something of the order.
Refused(adapter) ==
    {Result("REJECTED", 0, None)}
    \cup (IF adapter = "okx" THEN {NoResult} ELSE {})

\* Binance's adapter parses an answer of status 200 without a handler.
MayThrow(s) == Adapter[opp[s]] = "binance"

-----------------------------------------------------------------------------
Init ==
    /\ pc = "idle" /\ side = "buy"
    /\ opp = (CHOOSE o \in Opportunities : TRUE) /\ trade = 0
    /\ leg = [s \in Sides |-> "none"]
    /\ results = [s \in Sides |-> NoResult]
    /\ tries = [s \in Sides |-> 0]
    /\ managed = <<>> /\ trades = <<>> /\ orders = <<>>
    /\ faults = 0 /\ unanswered = {} /\ uncancelled = {} /\ threw = {}

Fault == faults < MaxFaults /\ faults' = faults + 1

\* perform(): one more attempt, if one is left.
Retry(s) == tries[s] < RetryCount /\ tries' = [tries EXCEPT ![s] = @ + 1]

-----------------------------------------------------------------------------
(* execute(), and the threads of fire_orders() *)

\* The detector's opportunities pass validate_opportunity().
Execute ==
    /\ pc = "idle" /\ trade < MaxTrades
    /\ pc' = "fire" /\ trade' = trade + 1
    /\ opp' \in Opportunities
    /\ managed' = [l \in DOMAIN managed \cup ({trade'} \X Sides) |->
                       IF l \in DOMAIN managed THEN managed[l] ELSE NoResult]
    /\ leg' = [s \in Sides |-> "placing"]
    /\ UNCHANGED <<side, results, tries, trades, orders, history>>

PlaceAnswered(s) ==
    /\ \E f \in 0 .. Quantity :
           /\ Arrive(s, f)
           /\ results' = [results EXCEPT
                  ![s] = Placed(Adapter[opp[s]], Taken(f), tries[s])]
    /\ leg' = [leg EXCEPT ![s] = "placed"]
    /\ UNCHANGED <<tries, history>>

PlaceRefused(s) ==
    /\ \E r \in Refused(Adapter[opp[s]]) : results' = [results EXCEPT ![s] = r]
    /\ leg' = [leg EXCEPT ![s] = "placed"]
    /\ UNCHANGED <<tries, orders, history>>

\* The request may have arrived, but what became of it is not known.
PlaceFails(s) ==
    /\ Fault
    /\ \/ UNCHANGED <<orders, unanswered>>
       \/ \E f \in 0 .. Quantity :
              /\ Arrive(s, f)
              /\ unanswered' = unanswered \cup {Id(s)}
    /\ \/ Retry(s) /\ UNCHANGED <<leg, results>>
       \/ /\ \E r \in Refused(Adapter[opp[s]]) :
                 results' = [results EXCEPT ![s] = r]
          /\ leg' = [leg EXCEPT ![s] = "placed"]
          /\ UNCHANGED tries
       \/ /\ MayThrow(s)
          /\ leg' = [leg EXCEPT ![s] = "threw"]
          /\ UNCHANGED <<results, tries>>
    /\ UNCHANGED <<uncancelled, threw>>

Place(s) ==
    /\ pc = "fire" /\ leg[s] = "placing"
    /\ PlaceAnswered(s) \/ PlaceRefused(s) \/ PlaceFails(s)
    /\ UNCHANGED <<pc, side, opp, trade, managed, trades>>

\* execute() is left, and its locals with it.
Return ==
    /\ pc' = "idle" /\ side' = "buy"
    /\ leg' = [s \in Sides |-> "none"] /\ results' = [s \in Sides |-> NoResult]
    /\ tries' = [s \in Sides |-> 0]

\* An exception leaves it too: the lock is released, and that is all.
Throw == Return /\ threw' = threw \cup {trade} /\ UNCHANGED <<managed, trades>>

\* Mutant: only the order of the side that buys is updated.
UpdateOrdersOfBuyer ==
    managed' = [managed EXCEPT ![<<trade, "buy">>] = results["buy"]]
UpdateOrders ==
    managed' = [managed EXCEPT ![<<trade, "buy">>] = results["buy"],
                               ![<<trade, "sell">>] = results["sell"]]

\* Mutant: a leg that threw is waited for.
LegsPlaced == \A s \in Sides : leg[s] = "placed"
LegsDone == \A s \in Sides : leg[s] # "placing"

\* The two get(), either of which rethrows what its thread threw; the destructor
\* of the other future waits for its thread.
Gather ==
    /\ pc = "fire" /\ LegsDone
    /\ IF \E s \in Sides : leg[s] = "threw" THEN Throw
       ELSE /\ UpdateOrders
            /\ pc' = IF \A s \in Sides : results[s].status = "FILLED"
                     THEN "record" ELSE "oneSided"
            /\ UNCHANGED <<side, leg, results, tries, trades, threw>>
    /\ UNCHANGED <<opp, trade, orders, faults, unanswered, uncancelled>>

-----------------------------------------------------------------------------
(* handle_partial_fill() *)

\* Mutant: only the rejection of the side that buys is seen to.
LeftAloneBySeller == {s \in {"sell"} : /\ results["buy"].status = "REJECTED"
                                       /\ results[s].status # "REJECTED"}
\* The leg whose other leg was rejected.
LeftAlone == {s \in Sides : /\ results[Other(s)].status = "REJECTED"
                            /\ results[s].status # "REJECTED"}

OneSided ==
    /\ pc = "oneSided"
    /\ \/ \E s \in LeftAlone :
              pc' = "withdraw" /\ side' = s /\ tries' = [tries EXCEPT ![s] = 0]
       \/ LeftAlone = {} /\ pc' = "partial" /\ side' = "buy" /\ UNCHANGED tries
    /\ UNCHANGED <<opp, trade, leg, results, managed, trades, orders, history>>

\* On to the leg that sells, and then to the end.
LeaveSide == IF side = "buy" THEN pc' = "partial" /\ side' = "sell"
             ELSE pc' = "record" /\ UNCHANGED side

Partial ==
    /\ pc = "partial"
    /\ IF results[side].status = "PARTIALLY_FILLED"
       THEN /\ pc' = "query" /\ tries' = [tries EXCEPT ![side] = 0]
            /\ UNCHANGED side
       ELSE LeaveSide /\ UNCHANGED tries
    /\ UNCHANGED <<opp, trade, leg, results, managed, trades, orders, history>>

IsFilled == orders[Known(side)].filled = Quantity

CancelNext == /\ pc' = "cancel" /\ tries' = [tries EXCEPT ![side] = 0]
              /\ UNCHANGED side

\* query_order(), two seconds later.  An answer that does not come or does not
\* parse is no FILLED; only Binance's adapter throws.
Query ==
    /\ pc = "query"
    /\ \/ /\ IF IsFilled THEN LeaveSide /\ UNCHANGED tries ELSE CancelNext
          /\ UNCHANGED <<leg, results, managed, trades, history>>
       \/ /\ Fault
          /\ \/ /\ (Retry(side) /\ UNCHANGED <<pc, side>>) \/ CancelNext
                /\ UNCHANGED <<leg, results, managed, trades, threw>>
             \/ MayThrow(side) /\ Throw
          /\ UNCHANGED <<unanswered, uncancelled>>
    /\ UNCHANGED <<opp, trade, orders>>

CancelKnown == orders' = [id \in DOMAIN orders |->
                   [orders[id] EXCEPT !.live = @ /\ id # Known(side)]]

IsLive(id) == id \in DOMAIN orders /\ orders[id].live

LeaveCancel == IF pc = "withdraw" THEN pc' = "partial" /\ side' = "buy"
               ELSE LeaveSide

\* cancel_order(), whose result is not looked at.
Cancel ==
    /\ pc \in {"withdraw", "cancel"}
    /\ \/ /\ CancelKnown /\ LeaveCancel
          /\ UNCHANGED <<leg, results, tries, managed, trades, history>>
       \/ /\ Fault
          /\ CancelKnown \/ UNCHANGED orders
          /\ \/ /\ Retry(side)
                /\ UNCHANGED <<pc, side, leg, results, managed, trades,
                               uncancelled, threw>>
             \/ /\ LeaveCancel
                /\ uncancelled' = uncancelled \cup
                       {id \in {Known(side)} : orders' = orders /\ IsLive(id)}
                /\ UNCHANGED <<leg, results, tries, managed, trades, threw>>
             \/ MayThrow(side) /\ Throw /\ UNCHANGED uncancelled
          /\ UNCHANGED unanswered
    /\ UNCHANGED <<opp, trade>>

\* The four calls of record_fill(), by the results of fire_orders(), and
\* log_trade(); only the amounts are kept.
Record ==
    /\ pc = "record" /\ Return
    /\ trades' = Append(trades,
           [trade |-> trade, results |-> results,
            matched |-> Lesser(results["buy"].filled, results["sell"].filled)])
    /\ UNCHANGED <<opp, trade, managed, orders, history>>

-----------------------------------------------------------------------------
\* An exchange matches a waiting order.
Fill(id) ==
    /\ orders[id].live
    /\ orders' = [orders EXCEPT ![id] = Taken(@.filled + 1)]
    /\ UNCHANGED <<pc, side, opp, trade, leg, results, tries, managed, trades,
                   history>>

Engine == Gather \/ OneSided \/ Partial \/ Query \/ Cancel \/ Record

Next == \/ Execute \/ Engine
        \/ \E s \in Sides : Place(s)
        \/ \E id \in DOMAIN orders : Fill(id)

\* The threads that are not waiting go on: perform() has a timeout.
Spec == /\ Init /\ [][Next]_vars
        /\ WF_vars(Engine) /\ \A s \in Sides : WF_vars(Place(s))

-----------------------------------------------------------------------------
(* Properties *)

Legs == (1 .. trade) \X Sides
Results == [status : Statuses, filled : 0 .. Quantity, order : Tries \cup {None}]

\* The types of the engine's state, of the order manager, of the logged trades and
\* of the exchanges' orders; perform() makes no attempt after its last.
TypeOK ==
    /\ pc \in {"idle", "fire", "oneSided", "withdraw", "partial", "query",
               "cancel", "record"}
    /\ side \in Sides /\ opp \in Opportunities /\ trade \in 0 .. MaxTrades
    /\ leg \in [Sides -> {"none", "placing", "placed", "threw"}]
    /\ results \in [Sides -> Results] /\ tries \in [Sides -> Tries]
    /\ managed \in [Legs -> Results]
    /\ trades \in Seq([trade : 1 .. trade, results : [Sides -> Results],
                       matched : 0 .. Quantity])
    /\ DOMAIN orders \subseteq (1 .. trade) \X Sides \X Tries
    /\ \A id \in DOMAIN orders :
           orders[id] \in [live : BOOLEAN, filled : 0 .. Quantity]

\* No order is at an exchange unknown to the order manager, although the attempts
\* to place it are repeated and the two legs are placed in parallel: but for
\* those whose answer was lost, those of the trade that is being placed, and
\* those of a trade that threw.
NoOrphan ==
    \A id \in DOMAIN orders \ unanswered :
        \/ managed[<<id[1], id[2]>>].order = id[3]
        \/ id[1] = trade /\ pc = "fire"
        \/ id[1] \in threw

\* The leg of a logged trade that handle_partial_fill() should have withdrawn.
Unmatched(t, s) ==
    \/ t.results[s].status = "PARTIALLY_FILLED"
    \/ /\ t.results[Other(s)].status = "REJECTED"
       /\ t.results[s].status # "REJECTED"

\* When a trade is logged, a leg that was filled in part or whose other leg was
\* rejected is no longer open, unless it could not be cancelled.
UnmatchedIsWithdrawn ==
    \A i \in DOMAIN trades : \A s \in Sides :
        LET id == <<trades[i].trade, s, trades[i].results[s].order>>
        IN  Unmatched(trades[i], s) /\ IsLive(id) => id \in uncancelled

BothFilled(t) == \A s \in Sides : t.results[s].status = "FILLED"

\* A trade logged as FILLED on both sides leaves no position, but for orders
\* whose answers were lost: what its orders bought is what they sold.
FilledIsFlat ==
    \A i \in DOMAIN trades : BothFilled(trades[i]) =>
        \A s \in Sides, n \in Tries :
            LET id == <<trades[i].trade, s, n>>
            IN  id \in DOMAIN orders \ unanswered => orders[id].filled = Quantity

\* Every call of execute() returns, and the next trade gets the lock, whatever
\* goes wrong at the exchanges.
ExecuteReturns == pc # "idle" ~> pc = "idle"

-----------------------------------------------------------------------------
(* Their inductive strengthening, which the proofs use *)

\* What waits at an exchange is not filled to the end.
OrdersInv == \A id \in DOMAIN orders : orders[id].live => orders[id].filled < Quantity

\* Of an order whose placement was answered the leg has the number, and it is
\* the leg's last attempt; one that the answer called filled is.
PlacedInv == pc = "fire" => \A s \in Sides :
    /\ leg[s] \in {"placing", "placed", "threw"}
    /\ \A n \in Tries : <<trade, s, n>> \in DOMAIN orders =>
           /\ leg[s] = "placing" => n < tries[s]
           /\ <<trade, s, n>> \notin unanswered =>
                  /\ leg[s] = "placed" /\ results[s].order = n
                  /\ results[s].status = "FILLED" =>
                         orders[<<trade, s, n>>].filled = Quantity

\* The same of the two legs when they are being seen to.
FlatInv == pc \notin {"idle", "fire"} => \A s \in Sides, n \in Tries :
    /\ <<trade, s, n>> \in DOMAIN orders \ unanswered
    /\ results[s].status = "FILLED"
    => orders[<<trade, s, n>>].filled = Quantity

\* The leg's order is closed, or could not be.
Closed(s) == IsLive(Known(s)) => Known(s) \in uncancelled

\* The leg that is left alone is withdrawn first, then what is filled in part
\* of the leg that buys, then of the leg that sells.
ClosedInv ==
    /\ pc \in {"partial", "query", "cancel", "record"} =>
           \A s \in LeftAlone : Closed(s)
    /\ (pc \in {"partial", "query", "cancel"} /\ side = "sell") \/ pc = "record" =>
           (results["buy"].status = "PARTIALLY_FILLED" => Closed("buy"))
    /\ pc = "record" /\ results["sell"].status = "PARTIALLY_FILLED" => Closed("sell")
    /\ pc = "withdraw" => LeftAlone = {side}

\* A logged trade is over.
LoggedInv ==
    pc # "idle" =>
        trade # 0 /\ \A i \in DOMAIN trades : trades[i].trade # trade

LiveInv == /\ TypeOK /\ OrdersInv /\ PlacedInv /\ FlatInv /\ ClosedInv /\ LoggedInv
           /\ NoOrphan /\ UnmatchedIsWithdrawn /\ FilledIsFlat
=============================================================================
