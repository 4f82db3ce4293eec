--------------------------- MODULE PaperExecutor ---------------------------
(***************************************************************************)
(* The paper trading of execution/paper_executor.{h,cpp}: execute() runs   *)
(* in the io threads of the exchanges, from the callback of the spread     *)
(* detector, and rebalance() in the main loop.  mutex_ is taken for one    *)
(* balance at a time, so the two checks, the four updates, the update of   *)
(* the profit and the call of the trade log are separate steps, and the  *)
(* steps of several trades interleave.                                     *)
(*                                                                         *)
(* Numbers.  A pair of one base and one quote asset stands for all; an     *)
(* amount of quote is counted in 1/FeeScale of the price's unit, so that   *)
(* fees are whole numbers, and quantities are multiples of the number of   *)
(* exchanges, so that rebalance() divides evenly.  What the fills are is   *)
(* decided by the books: any of Fills that the quantity allows.            *)
(***************************************************************************)
EXTENDS Integers, Sequences, FiniteSets, FiniteSetsExt, Functions

CONSTANTS Threads, Exchanges,
          Deposits,      \* initial_balances / n, per asset
          Opportunities, \* what execute() may be called with
          Fills,         \* [quantity, price] that simulate_fill may return
          TakerFee,      \* per exchange, in 1/FeeScale
          FeeScale,
          MaxTrades      \* bound on the calls of execute()

Assets == {"base", "quote"}
Amounts == Nat \ {0}

ASSUME ExecutorConstants ==
    /\ IsFiniteSet(Exchanges) /\ Exchanges # {} /\ IsFiniteSet(Threads)
    /\ Deposits \in [Assets -> Nat]
    /\ Opportunities \subseteq [buy : Exchanges, sell : Exchanges,
                                quantity : Amounts, price : Amounts]
    /\ IsFiniteSet(Opportunities) /\ Opportunities # {}
    /\ Fills \subseteq [quantity : Nat, price : Nat]
    /\ \A f \in Fills : f.quantity % Cardinality(Exchanges) = 0
    /\ TakerFee \in [Exchanges -> Nat] /\ FeeScale \in Amounts
    /\ MaxTrades \in Nat

VARIABLES virtual_balances, total_pnl,
          pc, opp, bought, sold,   \* one execute() per thread
          calls

locals == <<opp, bought, sold>>
vars == <<virtual_balances, total_pnl, pc, locals, calls>>

-----------------------------------------------------------------------------
Lesser(a, b) == IF a < b THEN a ELSE b

Cost(price, quantity) == FeeScale * price * quantity

\* The fee is charged on what the exchange filled, matched or not.
Fee(exchange, fill) == fill.quantity * fill.price * TakerFee[exchange]

Matched(t) == Lesser(bought[t].quantity, sold[t].quantity)

BuyCost(t) == Cost(bought[t].price, Matched(t)) + Fee(opp[t].buy, bought[t])
SellProceeds(t) == Cost(sold[t].price, Matched(t)) - Fee(opp[t].sell, sold[t])

\* Mutant: the profit leaves the fees out.
RealizedPnlGross(t) ==
    Cost(sold[t].price, Matched(t)) - Cost(bought[t].price, Matched(t))
RealizedPnl(t) == SellProceeds(t) - BuyCost(t)

Total(asset) == SumFunction([e \in Exchanges |-> virtual_balances[e][asset]])

NoFill == [quantity |-> 0, price |-> 0]

Init ==
    /\ virtual_balances = [e \in Exchanges |-> Deposits]
    /\ total_pnl = 0
    /\ pc = [t \in Threads |-> "idle"]
    /\ opp = [t \in Threads |-> CHOOSE o \in Opportunities : TRUE]
    /\ bought = [t \in Threads |-> NoFill] /\ sold = [t \in Threads |-> NoFill]
    /\ calls = 0

-----------------------------------------------------------------------------
(* execute(opp) *)

At(t, from, to) == pc[t] = from /\ pc' = [pc EXCEPT ![t] = to]

\* The detector's cooldown (strategy/spread_detector.h) lets one opportunity of
\* a pair and direction through in a second, which outlasts its execution.
Execute(t) ==
    /\ calls < MaxTrades
    /\ At(t, "idle", "checkQuote")
    /\ calls' = calls + 1
    /\ \E o \in Opportunities \ {opp[u] : u \in {v \in Threads : pc[v] # "idle"}} :
           opp' = [opp EXCEPT ![t] = o]
    /\ UNCHANGED <<virtual_balances, total_pnl, bought, sold>>

\* A trade that a balance does not cover ends there, and is not logged.
Check(t, exchange, asset, amount, from, to) ==
    /\ At(t, from, IF virtual_balances[exchange][asset] >= amount THEN to
                   ELSE "idle")
    /\ UNCHANGED <<virtual_balances, total_pnl, locals, calls>>

CheckQuote(t) == Check(t, opp[t].buy, "quote",
                       Cost(opp[t].price, opp[t].quantity), "checkQuote", "checkBase")

\* Mutant: the check of the exchange that sells is made on the one that buys.
CheckBaseOfBuyer(t) ==
    Check(t, opp[t].buy, "base", opp[t].quantity, "checkBase", "fill")
CheckBase(t) ==
    Check(t, opp[t].sell, "base", opp[t].quantity, "checkBase", "fill")

\* snapshot() of the two books (the detector found the opportunity in them, so
\* they exist), get_fee() of the two exchanges, and simulate_fill() twice.
SimulateFills(t) ==
    /\ At(t, "fill", "buyBase")
    /\ \E b, s \in {f \in Fills : f.quantity <= opp[t].quantity} :
           /\ bought' = [bought EXCEPT ![t] = b]
           /\ sold' = [sold EXCEPT ![t] = s]
    /\ UNCHANGED <<virtual_balances, total_pnl, opp, calls>>

\* update_virtual_balance
UpdateVirtualBalance(t, exchange, asset, change, from, to) ==
    /\ At(t, from, to)
    /\ virtual_balances' = [virtual_balances EXCEPT ![exchange][asset] = @ + change]
    /\ UNCHANGED <<total_pnl, locals, calls>>

BuyBase(t) == UpdateVirtualBalance(t, opp[t].buy, "base", Matched(t),
                                   "buyBase", "buyQuote")
BuyQuote(t) == UpdateVirtualBalance(t, opp[t].buy, "quote", -BuyCost(t),
                                    "buyQuote", "sellBase")

\* Mutant: the seller gives what it filled and not what was matched.
SellBaseFilled(t) == UpdateVirtualBalance(t, opp[t].sell, "base", -sold[t].quantity,
                                          "sellBase", "sellQuote")
SellBase(t) == UpdateVirtualBalance(t, opp[t].sell, "base", -Matched(t),
                                    "sellBase", "sellQuote")
SellQuote(t) == UpdateVirtualBalance(t, opp[t].sell, "quote", SellProceeds(t),
                                     "sellQuote", "pnl")

AddPnl(t) ==
    /\ At(t, "pnl", "log")
    /\ total_pnl' = total_pnl + RealizedPnl(t)
    /\ UNCHANGED <<virtual_balances, locals, calls>>

\* log_trade(), which may write nothing and does not say so: the log is
\* TradeLogger's, and nothing here reads it.  The record goes out of scope.
LogTrade(t) ==
    /\ At(t, "log", "idle")
    /\ bought' = [bought EXCEPT ![t] = NoFill]
    /\ sold' = [sold EXCEPT ![t] = NoFill]
    /\ UNCHANGED <<virtual_balances, total_pnl, opp, calls>>

-----------------------------------------------------------------------------
(* rebalance() *)

Rebalance ==
    /\ virtual_balances' = [e \in Exchanges |->
           [a \in Assets |-> Total(a) \div Cardinality(Exchanges)]]
    /\ UNCHANGED <<total_pnl, pc, locals, calls>>

-----------------------------------------------------------------------------
Trade(t) == Execute(t) \/ CheckQuote(t) \/ CheckBase(t) \/ SimulateFills(t)
            \/ BuyBase(t) \/ BuyQuote(t) \/ SellBase(t) \/ SellQuote(t)
            \/ AddPnl(t) \/ LogTrade(t)

Next == (\E t \in Threads : Trade(t)) \/ Rebalance

Spec == Init /\ [][Next]_vars

-----------------------------------------------------------------------------
(* Properties *)

\* The types of the balances, the profit and the calls in progress; no
\* side is filled with more than was ordered.
TypeOK ==
    /\ virtual_balances \in [Exchanges -> [Assets -> Int]]
    /\ total_pnl \in Int /\ calls \in 0 .. MaxTrades
    /\ pc \in [Threads -> {"idle", "checkQuote", "checkBase", "fill", "buyBase",
                           "buyQuote", "sellBase", "sellQuote", "pnl", "log"}]
    /\ opp \in [Threads -> Opportunities]
    /\ bought \in [Threads -> Fills \cup {NoFill}]
    /\ sold \in [Threads -> Fills \cup {NoFill}]
    /\ \A t \in Threads : {bought[t].quantity, sold[t].quantity}
                               \subseteq 0 .. opp[t].quantity

\* What a trade has bought and not yet taken from the seller; and what the four
\* updates have done to the quote asset, or its profit, that is not added yet.
BaseUnderway == [t \in Threads |->
    IF pc[t] \in {"buyQuote", "sellBase"} THEN Matched(t) ELSE 0]
QuoteUnderway == [t \in Threads |->
    CASE pc[t] \in {"sellBase", "sellQuote"} -> -BuyCost(t)
      [] pc[t] = "pnl" -> RealizedPnl(t)
      [] OTHER -> 0]

\* No base asset is created or lost, however the updates of several trades and
\* the rebalancing interleave: the exchanges hold what was deposited, and what
\* trades have added to the buyer and not yet taken from the seller.
BaseAccounted ==
    Total("base") = Cardinality(Exchanges) * Deposits["base"]
                    + SumFunction(BaseUnderway)

\* The profit reported is the profit made: the quote asset held is what was
\* deposited and the total profit, but for the trades halfway.
QuoteAccounted ==
    Total("quote") = Cardinality(Exchanges) * Deposits["quote"] + total_pnl
                     + SumFunction(QuoteUnderway)

\* The checks are not atomic with the updates, so a balance of base can be
\* overdrawn; but by no more than the trades that were past their checks at
\* once: one largest quantity for each thread.
OverdraftIsBounded ==
    \A e \in Exchanges :
        virtual_balances[e]["base"] >=
            -Cardinality(Threads) * Max({o.quantity : o \in Opportunities})
=============================================================================
