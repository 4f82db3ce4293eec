--------------------------- MODULE SimulationProof ---------------------------
(***************************************************************************)
(* What the paper trading of PaperExecutor keeps accounted for, for every  *)
(* number of threads, exchanges and trades, and all fees and fills; and    *)
(* what the backtest reports, for all data.                                *)
(*                                                                         *)
(* A step of execute() changes one exchange's balance of one asset, or one *)
(* of the sums, and what is underway of its own thread: the two changes    *)
(* cancel out.  rebalance() keeps a total because the total is a multiple  *)
(* of the number of exchanges, which is what AccountsInv says of the       *)
(* profit.  The bound of the overdrafts counts, for an exchange, the       *)
(* threads that have checked it and have not sold there yet.               *)
(*                                                                         *)
(* In the backtest the engine compares the row that an order is filled     *)
(* from, filtered and sorted, or the row has become empty (BooksInv).      *)
(* The walk of an order stops at the limit.  Over levels in order it is a  *)
(* walk of the first levels that were compared: it costs no more than the  *)
(* engine expected, and as much if it is filled.  Over any others it       *)
(* costs no more than the limit does, which is why an overdraft is no      *)
(* more than a fee (WalkWithin).                                           *)
(***************************************************************************)
EXTENDS PaperExecutor, Backtest, DepthTheorems, SequenceTheorems

-----------------------------------------------------------------------------
(* Paper trading *)
Places == Cardinality(Exchanges)

\* What rebalance() can divide evenly.
Divisible(x) == \E k \in Int : x = Places * k

\* The threads that may still take the base asset of an exchange they checked.
Selling(e) == {t \in Threads : /\ opp[t].sell = e
                               /\ pc[t] \in {"fill", "buyBase", "buyQuote", "sellBase"}}

Largest == Max({o.quantity : o \in Opportunities})

\* Before the fills are simulated there are none.
FreshInv == \A t \in Threads :
    pc[t] \in {"idle", "checkQuote", "checkBase", "fill"} =>
        bought[t] = NoFill /\ sold[t] = NoFill

AccountsInv == BaseAccounted /\ QuoteAccounted /\ Divisible(total_pnl)

\* The checks that passed and the threads that have not made them leave room
\* for a largest trade each.
OverdraftInv == \A e \in Exchanges :
    virtual_balances[e]["base"] >=
        Largest * (Cardinality(Selling(e)) - Cardinality(Threads))

ExecutorInv == TypeOK /\ FreshInv /\ AccountsInv /\ OverdraftInv

-----------------------------------------------------------------------------
(* Numbers *)

LEMMA PlacesType == Places \in Nat /\ Places > 0
  BY ExecutorConstants, FS_CardinalityType, FS_EmptySet DEF Places

LEMMA DivisibleZero == Divisible(0)
  BY PlacesType DEF Divisible

LEMMA DivisibleSum ==
    ASSUME NEW x \in Int, NEW y \in Int, Divisible(x), Divisible(y),
           NEW z, z = x + y \/ z = x - y
    PROVE  Divisible(z)
  <1>1. PICK i \in Int : x = Places * i
    BY DEF Divisible
  <1>2. PICK j \in Int : y = Places * j
    BY DEF Divisible
  <1>3. /\ Places * i + Places * j = Places * (i + j)
        /\ Places * i - Places * j = Places * (i - j)
    BY PlacesType
  <1> QED BY <1>1, <1>2, <1>3 DEF Divisible

LEMMA DivisibleProduct ==
    ASSUME NEW c \in Int, NEW x \in Int, Divisible(x), NEW z, z = c * x
    PROVE  Divisible(z)
  <1>1. PICK i \in Int : x = Places * i
    BY DEF Divisible
  <1>2. c * (Places * i) = Places * (c * i)
    BY PlacesType
  <1> QED BY <1>1, <1>2 DEF Divisible

\* An even share times the number of shares is the whole.
LEMMA SharesOf ==
    ASSUME NEW x \in Int, Divisible(x)
    PROVE  Places * (x \div Places) = x /\ x \div Places \in Int
  <1>1. PICK k \in Int : x = Places * k
    BY DEF Divisible
  <1>2. (Places * k) \div Places = k
    BY PlacesType
  <1> QED BY <1>1, <1>2

LEMMA FillsAreDivisible ==
    ASSUME NEW f \in Fills \cup {NoFill}
    PROVE  f.quantity \in Nat /\ f.price \in Nat /\ Divisible(f.quantity)
  <1>1. CASE f \in Fills
    <2>1. f.quantity \in Nat /\ f.price \in Nat /\ f.quantity % Places = 0
      BY <1>1, ExecutorConstants DEF Places
    <2>2. f.quantity = Places * (f.quantity \div Places) /\ f.quantity \div Places \in Int
      BY <2>1, PlacesType
    <2> QED BY <2>1, <2>2 DEF Divisible
  <1>2. CASE f = NoFill
    BY <1>2, DivisibleZero DEF NoFill
  <1> QED BY <1>1, <1>2

\* What a trade moves is whole, can be divided, and no more than was ordered.
LEMMA AmountsOf ==
    ASSUME TypeOK, NEW t \in Threads
    PROVE  /\ Matched(t) \in Nat /\ Matched(t) <= opp[t].quantity
           /\ BuyCost(t) \in Int /\ SellProceeds(t) \in Int
           /\ RealizedPnl(t) \in Int
           /\ Divisible(Matched(t)) /\ Divisible(BuyCost(t))
           /\ Divisible(SellProceeds(t)) /\ Divisible(RealizedPnl(t))
  <1> DEFINE b == bought[t]
             s == sold[t]
  <1>1. /\ b.quantity \in Nat /\ b.price \in Nat /\ Divisible(b.quantity)
        /\ s.quantity \in Nat /\ s.price \in Nat /\ Divisible(s.quantity)
    BY FillsAreDivisible DEF TypeOK
  <1>2. b.quantity <= opp[t].quantity /\ s.quantity <= opp[t].quantity
    <2>1. b.quantity \in 0 .. opp[t].quantity /\ s.quantity \in 0 .. opp[t].quantity
      BY DEF TypeOK
    <2>2. opp[t].quantity \in Nat
      BY ExecutorConstants DEF TypeOK, Amounts
    <2> QED BY <2>1, <2>2
  <1>3. /\ opp[t].buy \in Exchanges /\ opp[t].sell \in Exchanges /\ FeeScale \in Nat
        /\ TakerFee[opp[t].buy] \in Nat /\ TakerFee[opp[t].sell] \in Nat
    BY ExecutorConstants DEF TypeOK, Amounts
  <1>4. /\ Matched(t) \in Nat /\ Matched(t) <= opp[t].quantity
        /\ Divisible(Matched(t))
    BY <1>1, <1>2 DEF Matched, Lesser
  <1>5. ASSUME NEW p \in Nat
        PROVE  Cost(p, Matched(t)) \in Int /\ Divisible(Cost(p, Matched(t)))
    <2> DEFINE c == FeeScale * p
               m == Matched(t)
    <2>1. c \in Int /\ m \in Int /\ Divisible(m) /\ Cost(p, m) = c * m
      BY <1>3, <1>4 DEF Cost
    <2> HIDE DEF c, m
    <2>2. Cost(p, m) \in Int
      BY <2>1
    <2>3. Divisible(Cost(p, m))
      BY <2>1, DivisibleProduct
    <2> QED BY <2>2, <2>3 DEF m
  <1>6. ASSUME NEW e \in Exchanges, NEW f \in Fills \cup {NoFill}
        PROVE  Fee(e, f) \in Int /\ Divisible(Fee(e, f))
    <2> DEFINE c == f.price * TakerFee[e]
               q == f.quantity
    <2>1. q \in Nat /\ f.price \in Nat /\ Divisible(q) /\ TakerFee[e] \in Nat
      BY ExecutorConstants, FillsAreDivisible
    <2>2. c \in Int /\ Fee(e, f) = c * q
      BY <2>1 DEF Fee
    <2> HIDE DEF c, q
    <2>3. Fee(e, f) \in Int
      BY <2>1, <2>2
    <2>4. Divisible(Fee(e, f))
      BY <2>1, <2>2, DivisibleProduct
    <2> QED BY <2>3, <2>4
  <1>7. b \in Fills \cup {NoFill} /\ s \in Fills \cup {NoFill}
    BY DEF TypeOK
  <1>8. BuyCost(t) \in Int /\ Divisible(BuyCost(t))
    <2>1. BuyCost(t) = Cost(b.price, Matched(t)) + Fee(opp[t].buy, b)
      BY DEF BuyCost
    <2> QED BY <1>1, <1>3, <1>5, <1>6, <1>7, <2>1, DivisibleSum
  <1>9. SellProceeds(t) \in Int /\ Divisible(SellProceeds(t))
    <2>1. SellProceeds(t) = Cost(s.price, Matched(t)) - Fee(opp[t].sell, s)
      BY DEF SellProceeds
    <2> QED BY <1>1, <1>3, <1>5, <1>6, <1>7, <2>1, DivisibleSum
  <1>10. RealizedPnl(t) \in Int /\ Divisible(RealizedPnl(t))
    <2>1. RealizedPnl(t) = SellProceeds(t) - BuyCost(t)
      BY DEF RealizedPnl
    <2> QED BY <1>8, <1>9, <2>1, DivisibleSum
  <1> QED BY <1>4, <1>8, <1>9, <1>10

\* The largest quantity is one of an opportunity, and none is larger.
LEMMA LargestOf ==
    /\ Largest \in Nat
    /\ \A o \in Opportunities : o.quantity \in Nat /\ o.quantity <= Largest
  <1> DEFINE Q == {o.quantity : o \in Opportunities}
  <1>1. Q \in SUBSET Nat /\ Q # {}
    BY ExecutorConstants DEF Amounts
  <1>2. IsFiniteSet(Q)
    <2> DEFINE g == [o \in Opportunities |-> o.quantity]
    <2>1. g \in Surjection(Opportunities, Q)
      BY DEF Surjection
    <2> QED BY <2>1, ExecutorConstants, FS_Surjection
  <1>3. Q \in SUBSET Int
    BY <1>1
  <1>4. \E x \in Q : \A y \in Q : x >= y
    <2> HIDE DEF Q
    <2> QED BY <1>1, <1>2, <1>3, GreatestExists
  <1>5. Largest \in Q /\ \A y \in Q : Largest >= y
    BY <1>4 DEF Largest, Max
  <1> QED BY <1>1, <1>5

-----------------------------------------------------------------------------
(* Types *)

LEMMA TypeInit == Init => TypeOK /\ FreshInv
  <1> SUFFICES ASSUME Init PROVE TypeOK /\ FreshInv
    OBVIOUS
  <1> USE DEF Init
  <1>1. virtual_balances \in [Exchanges -> [Assets -> Int]]
    BY ExecutorConstants
  <1>2. total_pnl \in Int /\ calls \in 0 .. MaxTrades
    BY ExecutorConstants
  <1>3. opp \in [Threads -> Opportunities]
    BY ExecutorConstants
  <1>4. \A t \in Threads : {bought[t].quantity, sold[t].quantity} \subseteq 0 .. opp[t].quantity
    BY <1>3, LargestOf DEF NoFill
  <1> QED BY <1>1, <1>2, <1>3, <1>4 DEF TypeOK, FreshInv

LEMMA TotalType == TypeOK => \A a \in Assets : Total(a) \in Int
  <1> SUFFICES ASSUME TypeOK, NEW a \in Assets PROVE Total(a) \in Int
    OBVIOUS
  <1>1. [e \in Exchanges |-> virtual_balances[e][a]] \in [Exchanges -> Int]
    BY DEF TypeOK
  <1> QED BY <1>1, ExecutorConstants, SumFunctionType DEF Total

\* An update changes one balance and no other.
LEMMA UpdateOf ==
    ASSUME TypeOK, NEW t \in Threads, NEW e \in Exchanges, NEW asset \in Assets,
           NEW change \in Int, NEW from, NEW to,
           UpdateVirtualBalance(t, e, asset, change, from, to)
    PROVE  /\ virtual_balances' \in [Exchanges -> [Assets -> Int]]
           /\ virtual_balances'[e][asset] = virtual_balances[e][asset] + change
           /\ \A f \in Exchanges, a \in Assets : f # e \/ a # asset =>
                  virtual_balances'[f][a] = virtual_balances[f][a]
           /\ pc[t] = from /\ pc' = [pc EXCEPT ![t] = to]
           /\ UNCHANGED <<total_pnl, opp, bought, sold, calls>>
           /\ Total(asset)' = Total(asset) + change
           /\ \A a \in Assets : a # asset => Total(a)' = Total(a)
  <1>1. /\ virtual_balances' \in [Exchanges -> [Assets -> Int]]
        /\ virtual_balances'[e][asset] = virtual_balances[e][asset] + change
        /\ \A f \in Exchanges, a \in Assets : f # e \/ a # asset =>
               virtual_balances'[f][a] = virtual_balances[f][a]
        /\ pc[t] = from /\ pc' = [pc EXCEPT ![t] = to]
        /\ UNCHANGED <<total_pnl, opp, bought, sold, calls>>
    BY DEF UpdateVirtualBalance, At, TypeOK, locals
  <1> DEFINE Old(a) == [f \in Exchanges |-> virtual_balances[f][a]]
             New(a) == [f \in Exchanges |-> virtual_balances'[f][a]]
  <1>2. \A a \in Assets : Old(a) \in [Exchanges -> Int] /\ New(a) \in [Exchanges -> Int]
    BY <1>1 DEF TypeOK
  <1>3. Total(asset)' = Total(asset) + change
    <2> DEFINE f == Old(asset)
               g == New(asset)
    <2>1. /\ f \in [Exchanges -> Int] /\ g \in [Exchanges -> Int]
          /\ \A x \in Exchanges \ {e} : g[x] = f[x]
          /\ g[e] = f[e] + change /\ f[e] \in Int
      BY <1>1, <1>2
    <2>2. Total(asset) = SumFunction(f) /\ Total(asset)' = SumFunction(g)
      BY DEF Total
    <2> HIDE DEF f, g
    <2>3. SumFunction(g) = SumFunction(f) + (g[e] - f[e])
      BY <2>1, ExecutorConstants, SumOfChangedFunction
    <2>4. SumFunction(f) \in Int
      BY <2>1, ExecutorConstants, SumFunctionType
    <2> QED BY <2>1, <2>2, <2>3, <2>4
  <1>4. ASSUME NEW a \in Assets, a # asset PROVE Total(a)' = Total(a)
    <2>1. New(a) = Old(a)
      BY <1>1, <1>4
    <2> QED BY <2>1 DEF Total
  <1> QED BY <1>1, <1>3, <1>4

\* The four updates of a trade.
LEMMA UpdatesOf ==
    ASSUME TypeOK, NEW t \in Threads,
           BuyBase(t) \/ BuyQuote(t) \/ SellBase(t) \/ SellQuote(t)
    PROVE  /\ virtual_balances' \in [Exchanges -> [Assets -> Int]]
           /\ \E to \in {"buyQuote", "sellBase", "sellQuote", "pnl"} :
                  pc' = [pc EXCEPT ![t] = to]
           /\ UNCHANGED <<total_pnl, opp, bought, sold, calls>>
  <1>1. opp[t].buy \in Exchanges /\ opp[t].sell \in Exchanges
    BY ExecutorConstants DEF TypeOK
  <1>2. Matched(t) \in Int /\ -Matched(t) \in Int /\ -BuyCost(t) \in Int
        /\ SellProceeds(t) \in Int
    BY AmountsOf
  <1>3. "base" \in Assets /\ "quote" \in Assets
    BY DEF Assets
  <1>4. CASE BuyBase(t)
    BY <1>1, <1>2, <1>3, <1>4, UpdateOf DEF BuyBase
  <1>5. CASE BuyQuote(t)
    BY <1>1, <1>2, <1>3, <1>5, UpdateOf DEF BuyQuote
  <1>6. CASE SellBase(t)
    BY <1>1, <1>2, <1>3, <1>6, UpdateOf DEF SellBase
  <1>7. CASE SellQuote(t)
    BY <1>1, <1>2, <1>3, <1>7, UpdateOf DEF SellQuote
  <1> QED BY <1>4, <1>5, <1>6, <1>7

LEMMA TypeStep == TypeOK /\ FreshInv /\ [Next]_vars => TypeOK' /\ FreshInv'
  <1> SUFFICES ASSUME TypeOK, FreshInv, [Next]_vars PROVE TypeOK' /\ FreshInv'
    OBVIOUS
  <1> USE DEF TypeOK, FreshInv
  <1>1. ASSUME NEW t \in Threads, Execute(t) PROVE TypeOK' /\ FreshInv'
    <2>1. PICK o \in Opportunities : opp' = [opp EXCEPT ![t] = o]
      BY <1>1 DEF Execute
    <2>2. bought[t] = NoFill /\ sold[t] = NoFill
      BY <1>1 DEF Execute, At
    <2>3. calls' \in 0 .. MaxTrades
      BY <1>1, ExecutorConstants DEF Execute
    <2>4. {bought[t].quantity, sold[t].quantity} \subseteq 0 .. o.quantity
      BY <2>2, LargestOf DEF NoFill
    <2>5. pc' = [pc EXCEPT ![t] = "checkQuote"]
          /\ UNCHANGED <<virtual_balances, total_pnl, bought, sold>>
      BY <1>1 DEF Execute, At
    <2> QED BY <2>1, <2>2, <2>3, <2>4, <2>5
  <1>2. ASSUME NEW t \in Threads, CheckQuote(t) \/ CheckBase(t) PROVE TypeOK' /\ FreshInv'
    <2>1. PICK to \in {"checkBase", "fill", "idle"} : pc' = [pc EXCEPT ![t] = to]
      BY <1>2 DEF CheckQuote, CheckBase, Check, At
    <2>2. pc[t] \in {"checkQuote", "checkBase"}
          /\ UNCHANGED <<virtual_balances, total_pnl, opp, bought, sold, calls>>
      BY <1>2 DEF CheckQuote, CheckBase, Check, At, locals
    <2> QED BY <2>1, <2>2
  <1>3. ASSUME NEW t \in Threads, SimulateFills(t) PROVE TypeOK' /\ FreshInv'
    <2>1. PICK b \in Fills, s \in Fills :
              /\ b.quantity <= opp[t].quantity /\ s.quantity <= opp[t].quantity
              /\ bought' = [bought EXCEPT ![t] = b] /\ sold' = [sold EXCEPT ![t] = s]
      BY <1>3 DEF SimulateFills
    <2>2. {b.quantity, s.quantity} \subseteq 0 .. opp[t].quantity
      BY <2>1, FillsAreDivisible, LargestOf
    <2>3. pc' = [pc EXCEPT ![t] = "buyBase"]
          /\ UNCHANGED <<virtual_balances, total_pnl, opp, calls>>
      BY <1>3 DEF SimulateFills, At
    <2> QED BY <2>1, <2>2, <2>3
  <1>4. ASSUME NEW t \in Threads, BuyBase(t) \/ BuyQuote(t) \/ SellBase(t) \/ SellQuote(t)
        PROVE  TypeOK' /\ FreshInv'
    <2>1. /\ virtual_balances' \in [Exchanges -> [Assets -> Int]]
          /\ \E to \in {"buyQuote", "sellBase", "sellQuote", "pnl"} :
                 pc' = [pc EXCEPT ![t] = to]
          /\ UNCHANGED <<total_pnl, opp, bought, sold, calls>>
      BY <1>4, UpdatesOf
    <2> QED BY <2>1
  <1>6. ASSUME NEW t \in Threads, AddPnl(t) PROVE TypeOK' /\ FreshInv'
    BY <1>6, AmountsOf DEF AddPnl, At, locals
  <1>7. ASSUME NEW t \in Threads, LogTrade(t) PROVE TypeOK' /\ FreshInv'
    <2>2. pc' = [pc EXCEPT ![t] = "idle"] /\ bought' = [bought EXCEPT ![t] = NoFill]
          /\ sold' = [sold EXCEPT ![t] = NoFill]
          /\ UNCHANGED <<virtual_balances, total_pnl, opp, calls>>
      BY <1>7 DEF LogTrade, At
    <2>3. {NoFill.quantity} \subseteq 0 .. opp[t].quantity
      BY LargestOf DEF NoFill
    <2> QED BY <2>2, <2>3
  <1>8. ASSUME Rebalance PROVE TypeOK' /\ FreshInv'
    <2>1. ASSUME NEW a \in Assets PROVE Total(a) \div Places \in Int
      BY TotalType, PlacesType
    <2> QED BY <1>8, <2>1 DEF Rebalance, locals, Places
  <1>9. CASE UNCHANGED vars
    BY <1>9 DEF vars, locals
  <1> QED BY <1>1, <1>2, <1>3, <1>4, <1>6, <1>7, <1>8, <1>9 DEF Next, Trade

-----------------------------------------------------------------------------
(* Accounts *)

LEMMA UnderwayType ==
    ASSUME TypeOK
    PROVE  /\ BaseUnderway \in [Threads -> Int] /\ QuoteUnderway \in [Threads -> Int]
           /\ \A t \in Threads : /\ BaseUnderway[t] \in Nat
                                 /\ Divisible(BaseUnderway[t])
                                 /\ Divisible(QuoteUnderway[t])
  <1>1. ASSUME NEW t \in Threads
        PROVE  BaseUnderway[t] \in Nat /\ Divisible(BaseUnderway[t])
    BY AmountsOf, DivisibleZero DEF BaseUnderway
  <1>2. ASSUME NEW t \in Threads
        PROVE  QuoteUnderway[t] \in Int /\ Divisible(QuoteUnderway[t])
    <2>1. CASE pc[t] \in {"sellBase", "sellQuote"}
      <3>1. QuoteUnderway[t] = -BuyCost(t) /\ BuyCost(t) \in Int /\ Divisible(BuyCost(t))
        BY <2>1, AmountsOf DEF QuoteUnderway
      <3>2. QuoteUnderway[t] = 0 - BuyCost(t) /\ QuoteUnderway[t] \in Int
        BY <3>1
      <3> QED BY <3>1, <3>2, DivisibleZero, DivisibleSum
    <2>2. CASE pc[t] = "pnl"
      BY <2>2, AmountsOf DEF QuoteUnderway
    <2>3. CASE pc[t] \notin {"sellBase", "sellQuote", "pnl"}
      BY <2>3, DivisibleZero DEF QuoteUnderway
    <2> QED BY <2>1, <2>2, <2>3
  <1>4. BaseUnderway = [t \in Threads |-> BaseUnderway[t]]
    BY DEF BaseUnderway
  <1>5. QuoteUnderway = [t \in Threads |-> QuoteUnderway[t]]
    BY DEF QuoteUnderway
  <1> QED BY <1>1, <1>2, <1>4, <1>5

LEMMA SumsType ==
    ASSUME TypeOK
    PROVE  /\ SumFunction(BaseUnderway) \in Nat /\ SumFunction(QuoteUnderway) \in Int
           /\ Divisible(SumFunction(BaseUnderway)) /\ Divisible(SumFunction(QuoteUnderway))
  <1>1. IsFiniteSet(Threads)
    BY ExecutorConstants
  <1>2. SumFunction(QuoteUnderway) \in Int
    BY <1>1, UnderwayType, SumFunctionType
  <1>4. SumFunction(BaseUnderway) \in Nat
    <2>1. DOMAIN BaseUnderway = Threads /\ \A t \in Threads : BaseUnderway[t] \in Nat
      BY UnderwayType
    <2> QED BY <1>1, <2>1, SumIsOnDomain, SumOfNaturals
  <1>5. Divisible(SumFunction(BaseUnderway))
    <2>1. DOMAIN BaseUnderway = Threads
          /\ \A t \in Threads : \E k \in Int : BaseUnderway[t] = Places * k
      BY UnderwayType DEF Divisible
    <2>2. \E k \in Int : SumFunctionOnSet(BaseUnderway, Threads) = Places * k
      <3>1. Places \in Int
        BY PlacesType
      <3> HIDE DEF Places
      <3> QED BY <1>1, <2>1, <3>1, SumOfMultiples
    <2>3. SumFunction(BaseUnderway) = SumFunctionOnSet(BaseUnderway, Threads)
      BY <2>1, SumIsOnDomain
    <2> QED BY <2>2, <2>3 DEF Divisible
  <1>6. Divisible(SumFunction(QuoteUnderway))
    <2>1. DOMAIN QuoteUnderway = Threads
          /\ \A t \in Threads : \E k \in Int : QuoteUnderway[t] = Places * k
      BY UnderwayType DEF Divisible
    <2>2. \E k \in Int : SumFunctionOnSet(QuoteUnderway, Threads) = Places * k
      <3>1. Places \in Int
        BY PlacesType
      <3> HIDE DEF Places
      <3> QED BY <1>1, <2>1, <3>1, SumOfMultiples
    <2>3. SumFunction(QuoteUnderway) = SumFunctionOnSet(QuoteUnderway, Threads)
      BY <2>1, SumIsOnDomain
    <2> QED BY <2>2, <2>3 DEF Divisible
  <1> QED BY <1>2, <1>4, <1>5, <1>6

\* A step of one thread that moves as much as it takes from what is underway of
\* that thread keeps the accounts.
LEMMA AccountsKept ==
    ASSUME TypeOK, AccountsInv, NEW t \in Threads,
           \A u \in Threads \ {t} :
               /\ pc'[u] = pc[u] /\ opp'[u] = opp[u]
               /\ bought'[u] = bought[u] /\ sold'[u] = sold[u],
           BaseUnderway[t]' \in Int, QuoteUnderway[t]' \in Int,
           Total("base")' \in Int, Total("quote")' \in Int,
           total_pnl' \in Int, Divisible(total_pnl'),
           Total("base")' - BaseUnderway[t]' = Total("base") - BaseUnderway[t],
           Total("quote")' - total_pnl' - QuoteUnderway[t]' =
               Total("quote") - total_pnl - QuoteUnderway[t]
    PROVE  AccountsInv'
  <1>1. IsFiniteSet(Threads)
    BY ExecutorConstants
  <1>2. BaseUnderway \in [Threads -> Int] /\ QuoteUnderway \in [Threads -> Int]
    BY UnderwayType
  <1>3. ASSUME NEW u \in Threads \ {t}
        PROVE  /\ BaseUnderway[u]' = BaseUnderway[u] /\ QuoteUnderway[u]' = QuoteUnderway[u]
    BY <1>3 DEF BaseUnderway, QuoteUnderway, Matched, BuyCost,
                SellProceeds, RealizedPnl, Cost, Fee
  <1>4. SumFunction(BaseUnderway)' =
            SumFunction(BaseUnderway) + (BaseUnderway[t]' - BaseUnderway[t])
    <2>1. BaseUnderway' = [u \in Threads |-> BaseUnderway[u]']
      BY DEF BaseUnderway
    <2>2. BaseUnderway' \in [Threads -> Int]
      BY <1>2, <1>3, <2>1
    <2> QED BY <1>1, <1>2, <1>3, <2>2, SumOfChangedFunction
  <1>5. SumFunction(QuoteUnderway)' =
            SumFunction(QuoteUnderway) + (QuoteUnderway[t]' - QuoteUnderway[t])
    <2>1. QuoteUnderway' = [u \in Threads |-> QuoteUnderway[u]']
      BY DEF QuoteUnderway
    <2>2. QuoteUnderway' \in [Threads -> Int]
      BY <1>2, <1>3, <2>1
    <2> QED BY <1>1, <1>2, <1>3, <2>2, SumOfChangedFunction
  <1>7. /\ BaseUnderway[t] \in Int /\ QuoteUnderway[t] \in Int
        /\ SumFunction(BaseUnderway) \in Int /\ SumFunction(QuoteUnderway) \in Int
        /\ Total("base") \in Int /\ Total("quote") \in Int /\ total_pnl \in Int
    <2>1. SumFunction(BaseUnderway) \in Int /\ SumFunction(QuoteUnderway) \in Int
      BY SumsType
    <2>2. Total("base") \in Int /\ Total("quote") \in Int
      BY TotalType DEF Assets
    <2>3. total_pnl \in Int
      BY DEF TypeOK
    <2> QED BY <1>2, <2>1, <2>2, <2>3
  <1>8. Places * Deposits["base"] \in Int /\ Places * Deposits["quote"] \in Int
    BY PlacesType, ExecutorConstants DEF Assets
  <1>9. BaseAccounted'
    <2>1. Total("base") = Places * Deposits["base"] + SumFunction(BaseUnderway)
      BY DEF AccountsInv, BaseAccounted, Places
    <2>2. Total("base")' = Places * Deposits["base"] + SumFunction(BaseUnderway)'
      <3>1. Total("base")' = Total("base") + (BaseUnderway[t]' - BaseUnderway[t])
        BY <1>7
      <3> QED BY <1>4, <1>7, <1>8, <2>1, <3>1
    <2> QED BY <2>2 DEF BaseAccounted, Places
  <1>10. QuoteAccounted'
    <2>1. Total("quote") = Places * Deposits["quote"] + total_pnl
                           + SumFunction(QuoteUnderway)
      BY DEF AccountsInv, QuoteAccounted, Places
    <2>2. Total("quote")' = Places * Deposits["quote"] + total_pnl'
                            + SumFunction(QuoteUnderway)'
      <3>1. Total("quote")' - total_pnl' =
                Total("quote") - total_pnl + (QuoteUnderway[t]' - QuoteUnderway[t])
        BY <1>7
      <3>2. Total("quote") - total_pnl = Places * Deposits["quote"] + SumFunction(QuoteUnderway)
        BY <1>7, <1>8, <2>1
      <3>3. Total("quote")' - total_pnl' = Places * Deposits["quote"] + SumFunction(QuoteUnderway)'
        BY <1>5, <1>7, <1>8, <3>1, <3>2
      <3>4. SumFunction(QuoteUnderway)' \in Int
        BY <1>5, <1>7
      <3> QED BY <1>8, <3>3, <3>4
    <2> QED BY <2>2 DEF QuoteAccounted, Places
  <1> QED BY <1>9, <1>10 DEF AccountsInv, Divisible, Places

LEMMA AccountsInit == Init => AccountsInv
  <1> SUFFICES ASSUME Init PROVE AccountsInv
    OBVIOUS
  <1>1. IsFiniteSet(Exchanges) /\ IsFiniteSet(Threads)
    BY ExecutorConstants
  <1>2. ASSUME NEW a \in Assets PROVE Total(a) = Places * Deposits[a]
    <2> DEFINE f == [e \in Exchanges |-> virtual_balances[e][a]]
    <2>1. DOMAIN f = Exchanges /\ \A e \in Exchanges : f[e] = Deposits[a]
      BY DEF Init
    <2>2. Deposits[a] \in Int
      BY ExecutorConstants
    <2>3. Total(a) = SumFunction(f)
      BY DEF Total
    <2> HIDE DEF f
    <2>4. SumFunctionOnSet(f, Exchanges) = Cardinality(Exchanges) * Deposits[a]
      BY <1>1, <2>1, <2>2, SumOfConstant
    <2> QED BY <2>1, <2>3, <2>4, SumIsOnDomain DEF Places
  <1>3. ASSUME NEW f, DOMAIN f = Threads, \A t \in Threads : f[t] = 0
        PROVE  SumFunction(f) = 0
    <2>1. SumFunctionOnSet(f, Threads) = Cardinality(Threads) * 0
      BY <1>1, <1>3, SumOfConstant
    <2>2. Cardinality(Threads) * 0 = 0
      BY <1>1, FS_CardinalityType
    <2> QED BY <1>3, <2>1, <2>2, SumIsOnDomain
  <1>4. SumFunction(BaseUnderway) = 0 /\ SumFunction(QuoteUnderway) = 0
    <2>1. /\ DOMAIN BaseUnderway = Threads /\ \A t \in Threads : BaseUnderway[t] = 0
          /\ DOMAIN QuoteUnderway = Threads /\ \A t \in Threads : QuoteUnderway[t] = 0
      BY DEF Init, BaseUnderway, QuoteUnderway
    <2> QED BY <1>3, <2>1
  <1>6. total_pnl = 0
    BY DEF Init
  <1>7. /\ Places * Deposits["base"] \in Int /\ Places * Deposits["quote"] \in Int
        /\ Total("base") = Places * Deposits["base"]
        /\ Total("quote") = Places * Deposits["quote"]
    BY <1>2, PlacesType, ExecutorConstants DEF Assets
  <1>8. BaseAccounted
    BY <1>4, <1>7 DEF BaseAccounted, Places
  <1>9. QuoteAccounted
    BY <1>4, <1>6, <1>7 DEF QuoteAccounted, Places
  <1>11. Divisible(total_pnl)
    BY <1>6, DivisibleZero
  <1> QED BY <1>8, <1>9, <1>11 DEF AccountsInv

\* The totals can be divided evenly.
LEMMA TotalDivisible ==
    ASSUME TypeOK, AccountsInv, NEW a \in Assets
    PROVE  Divisible(Total(a))
  <1>1. ASSUME NEW x \in Int PROVE Divisible(Places * x) /\ Places * x \in Int
    BY PlacesType DEF Divisible
  <1>2. Deposits[a] \in Int
    BY ExecutorConstants
  <1>3. Places * Deposits[a] \in Int /\ Divisible(Places * Deposits[a])
    BY <1>1, <1>2
  <1>4. CASE a = "base"
    <2>1. Total(a) = Places * Deposits[a] + SumFunction(BaseUnderway)
      BY <1>4 DEF AccountsInv, BaseAccounted, Places
    <2>2. SumFunction(BaseUnderway) \in Int /\ Divisible(SumFunction(BaseUnderway))
      BY SumsType
    <2> QED BY <1>3, <2>1, <2>2, DivisibleSum
  <1>5. CASE a = "quote"
    <2> DEFINE x == Places * Deposits[a] + total_pnl
    <2>1. Total(a) = x + SumFunction(QuoteUnderway)
      BY <1>5 DEF AccountsInv, QuoteAccounted, Places
    <2>2. SumFunction(QuoteUnderway) \in Int /\ Divisible(SumFunction(QuoteUnderway))
      BY SumsType
    <2>3. total_pnl \in Int /\ Divisible(total_pnl)
      BY DEF TypeOK, AccountsInv
    <2>4. x \in Int /\ Divisible(x)
      BY <1>3, <2>3, DivisibleSum
    <2> HIDE DEF x
    <2> QED BY <2>1, <2>2, <2>4, DivisibleSum
  <1> QED BY <1>4, <1>5 DEF Assets

LEMMA RebalanceKeepsTotals ==
    ASSUME TypeOK, AccountsInv, Rebalance, NEW a \in Assets
    PROVE  Total(a)' = Total(a)
  <1> DEFINE share == Total(a) \div Places
             f == [e \in Exchanges |-> virtual_balances'[e][a]]
  <1>1. Places * share = Total(a) /\ share \in Int
    BY TotalType, TotalDivisible, SharesOf
  <1>2. DOMAIN f = Exchanges /\ \A e \in Exchanges : f[e] = share
    BY DEF Rebalance, Places
  <1>3. Total(a)' = SumFunction(f)
    BY DEF Total
  <1> HIDE DEF share, f
  <1>4. SumFunctionOnSet(f, Exchanges) = Cardinality(Exchanges) * share
    BY <1>1, <1>2, ExecutorConstants, SumOfConstant
  <1> QED BY <1>1, <1>2, <1>3, <1>4, SumIsOnDomain DEF Places

LEMMA AccountsStep ==
    TypeOK /\ FreshInv /\ AccountsInv /\ [Next]_vars => AccountsInv'
  <1> SUFFICES ASSUME TypeOK, FreshInv, AccountsInv, [Next]_vars PROVE AccountsInv'
    OBVIOUS
  <1>1. /\ Total("base") \in Int /\ Total("quote") \in Int /\ total_pnl \in Int
        /\ Divisible(total_pnl)
    <2>1. Total("base") \in Int /\ Total("quote") \in Int
      BY TotalType DEF Assets
    <2> QED BY <2>1 DEF TypeOK, AccountsInv
  <1>2. \A t \in Threads :
            /\ Matched(t) \in Int /\ BuyCost(t) \in Int /\ SellProceeds(t) \in Int
            /\ RealizedPnl(t) \in Int /\ Divisible(RealizedPnl(t))
            /\ RealizedPnl(t) = SellProceeds(t) - BuyCost(t)
    <2>1. \A t \in Threads : RealizedPnl(t) = SellProceeds(t) - BuyCost(t)
      BY DEF RealizedPnl
    <2> QED BY <2>1, AmountsOf
  <1>3. pc = [u \in Threads |-> pc[u]]
    BY DEF TypeOK
  <1>4. ASSUME NEW t \in Threads, Execute(t) \/ CheckQuote(t) \/ CheckBase(t) \/ SimulateFills(t)
        PROVE  AccountsInv'
    <2>1. UNCHANGED <<virtual_balances, total_pnl>>
      BY <1>4 DEF Execute, CheckQuote, CheckBase, Check, SimulateFills, locals
    <2>2. pc[t] \in {"idle", "checkQuote", "checkBase", "fill"}
          /\ pc'[t] \in {"idle", "checkQuote", "checkBase", "fill", "buyBase"}
      BY <1>3, <1>4 DEF Execute, CheckQuote, CheckBase, Check, SimulateFills, At
    <2>3. \A u \in Threads \ {t} :
              /\ pc'[u] = pc[u] /\ opp'[u] = opp[u]
              /\ bought'[u] = bought[u] /\ sold'[u] = sold[u]
      BY <1>4 DEF Execute, CheckQuote, CheckBase, Check, SimulateFills, At, locals, TypeOK
    <2>4. /\ BaseUnderway[t] = 0 /\ QuoteUnderway[t] = 0
          /\ BaseUnderway[t]' = 0 /\ QuoteUnderway[t]' = 0
      BY <2>2 DEF BaseUnderway, QuoteUnderway
    <2>5. Total("base")' = Total("base") /\ Total("quote")' = Total("quote")
      BY <2>1 DEF Total
    <2> QED BY <1>1, <2>1, <2>3, <2>4, <2>5, AccountsKept
  \* The steps that leave the fills as they are.
  <1>5. ASSUME NEW t \in Threads, UNCHANGED <<opp, bought, sold>>
        PROVE  /\ Matched(t)' = Matched(t) /\ BuyCost(t)' = BuyCost(t)
               /\ RealizedPnl(t)' = RealizedPnl(t)
    BY <1>5 DEF Matched, BuyCost, SellProceeds, RealizedPnl, Cost, Fee
  <1>6. ASSUME NEW t \in Threads, NEW to, pc' = [pc EXCEPT ![t] = to],
               UNCHANGED <<opp, bought, sold>>
        PROVE  \A u \in Threads \ {t} :
                   /\ pc'[u] = pc[u] /\ opp'[u] = opp[u]
                   /\ bought'[u] = bought[u] /\ sold'[u] = sold[u]
    BY <1>3, <1>6
  <1>7. "base" \in Assets /\ "quote" \in Assets /\ "base" # "quote"
    BY DEF Assets
  <1>8. ASSUME NEW t \in Threads
        PROVE  /\ opp[t].buy \in Exchanges /\ opp[t].sell \in Exchanges
               /\ -Matched(t) \in Int /\ -BuyCost(t) \in Int
    BY <1>2, ExecutorConstants DEF TypeOK
  <1>9. ASSUME NEW t \in Threads, BuyBase(t) PROVE AccountsInv'
    <2>1. /\ pc[t] = "buyBase" /\ pc' = [pc EXCEPT ![t] = "buyQuote"]
          /\ UNCHANGED <<total_pnl, opp, bought, sold, calls>>
          /\ Total("base")' = Total("base") + Matched(t) /\ Total("quote")' = Total("quote")
      BY <1>2, <1>7, <1>8, <1>9, UpdateOf DEF BuyBase
    <2>2. /\ BaseUnderway[t] = 0 /\ QuoteUnderway[t] = 0
          /\ BaseUnderway[t]' = Matched(t) /\ QuoteUnderway[t]' = 0
      BY <1>3, <1>5, <2>1 DEF BaseUnderway, QuoteUnderway
    <2> QED BY <1>1, <1>2, <1>6, <2>1, <2>2, AccountsKept
  <1>10. ASSUME NEW t \in Threads, BuyQuote(t) PROVE AccountsInv'
    <2>1. /\ pc[t] = "buyQuote" /\ pc' = [pc EXCEPT ![t] = "sellBase"]
          /\ UNCHANGED <<total_pnl, opp, bought, sold, calls>>
          /\ Total("base")' = Total("base")
          /\ Total("quote")' = Total("quote") + (-BuyCost(t))
      BY <1>2, <1>7, <1>8, <1>10, UpdateOf DEF BuyQuote
    <2>2. /\ BaseUnderway[t] = Matched(t) /\ QuoteUnderway[t] = 0
          /\ BaseUnderway[t]' = Matched(t) /\ QuoteUnderway[t]' = -BuyCost(t)
         
      BY <1>3, <1>5, <2>1 DEF BaseUnderway, QuoteUnderway
    <2> QED BY <1>1, <1>2, <1>6, <2>1, <2>2, AccountsKept
  <1>11. ASSUME NEW t \in Threads, SellBase(t) PROVE AccountsInv'
    <2>1. /\ pc[t] = "sellBase" /\ pc' = [pc EXCEPT ![t] = "sellQuote"]
          /\ UNCHANGED <<total_pnl, opp, bought, sold, calls>>
          /\ Total("base")' = Total("base") + (-Matched(t))
          /\ Total("quote")' = Total("quote")
      BY <1>2, <1>7, <1>8, <1>11, UpdateOf DEF SellBase
    <2>2. /\ BaseUnderway[t] = Matched(t) /\ QuoteUnderway[t] = -BuyCost(t)
          /\ BaseUnderway[t]' = 0
          /\ QuoteUnderway[t]' = -BuyCost(t)
      BY <1>3, <1>5, <2>1 DEF BaseUnderway, QuoteUnderway
    <2> QED BY <1>1, <1>2, <1>6, <2>1, <2>2, AccountsKept
  <1>12. ASSUME NEW t \in Threads, SellQuote(t) PROVE AccountsInv'
    <2>1. /\ pc[t] = "sellQuote" /\ pc' = [pc EXCEPT ![t] = "pnl"]
          /\ UNCHANGED <<total_pnl, opp, bought, sold, calls>>
          /\ Total("base")' = Total("base")
          /\ Total("quote")' = Total("quote") + SellProceeds(t)
      BY <1>2, <1>7, <1>8, <1>12, UpdateOf DEF SellQuote
    <2>2. /\ BaseUnderway[t] = 0 /\ QuoteUnderway[t] = -BuyCost(t)
          /\ BaseUnderway[t]' = 0 /\ QuoteUnderway[t]' = RealizedPnl(t)
         
      BY <1>3, <1>5, <2>1 DEF BaseUnderway, QuoteUnderway
    <2> QED BY <1>1, <1>2, <1>6, <2>1, <2>2, AccountsKept
  <1>13. ASSUME NEW t \in Threads, AddPnl(t) PROVE AccountsInv'
    <2>1. /\ pc[t] = "pnl" /\ pc' = [pc EXCEPT ![t] = "log"]
          /\ total_pnl' = total_pnl + RealizedPnl(t)
          /\ UNCHANGED <<virtual_balances, opp, bought, sold>>
      BY <1>13 DEF AddPnl, At, locals
    <2>2. /\ BaseUnderway[t] = 0 /\ QuoteUnderway[t] = RealizedPnl(t)
          /\ BaseUnderway[t]' = 0 /\ QuoteUnderway[t]' = 0
      BY <1>3, <1>5, <2>1 DEF BaseUnderway, QuoteUnderway
    <2>3. Divisible(total_pnl') /\ total_pnl' \in Int
      BY <1>1, <1>2, <2>1, DivisibleSum
    <2>4. Total("base")' = Total("base") /\ Total("quote")' = Total("quote")
      BY <2>1 DEF Total
    <2> QED BY <1>1, <1>2, <1>6, <2>1, <2>2, <2>3, <2>4, AccountsKept
  <1>14. ASSUME NEW t \in Threads, LogTrade(t) PROVE AccountsInv'
    <2>1. /\ pc[t] = "log" /\ pc'[t] = "idle"
          /\ UNCHANGED <<virtual_balances, total_pnl>>
          /\ \A u \in Threads \ {t} :
                 /\ pc'[u] = pc[u] /\ opp'[u] = opp[u]
                 /\ bought'[u] = bought[u] /\ sold'[u] = sold[u]
      BY <1>3, <1>14 DEF LogTrade, At, TypeOK
    <2>2. /\ BaseUnderway[t] = 0 /\ QuoteUnderway[t] = 0
          /\ BaseUnderway[t]' = 0 /\ QuoteUnderway[t]' = 0
      BY <2>1 DEF BaseUnderway, QuoteUnderway
    <2>3. Total("base")' = Total("base") /\ Total("quote")' = Total("quote")
      BY <2>1 DEF Total
    <2> QED BY <1>1, <2>1, <2>2, <2>3, AccountsKept
  <1>15. ASSUME UNCHANGED <<total_pnl, pc, opp, bought, sold>>,
                Total("base")' = Total("base"), Total("quote")' = Total("quote")
         PROVE  AccountsInv'
    <2>1. /\ BaseUnderway' = BaseUnderway /\ QuoteUnderway' = QuoteUnderway
      BY <1>15 DEF BaseUnderway, QuoteUnderway, Matched, BuyCost,
                   SellProceeds, RealizedPnl, Cost, Fee
    <2> QED BY <1>15, <2>1 DEF AccountsInv, BaseAccounted, QuoteAccounted,
                               Divisible, Places
  <1>16. CASE Rebalance
    BY <1>7, <1>15, <1>16, RebalanceKeepsTotals DEF Rebalance, locals
  <1>17. CASE UNCHANGED vars
    <2>1. Total("base")' = Total("base") /\ Total("quote")' = Total("quote")
      BY <1>17 DEF vars, Total
    <2> QED BY <1>15, <1>17, <2>1 DEF vars, locals
  <1> QED BY <1>4, <1>9, <1>10, <1>11, <1>12, <1>13, <1>14, <1>16, <1>17 DEF Next, Trade

-----------------------------------------------------------------------------
(* Overdrafts *)

LEMMA ThreadsOf ==
    ASSUME NEW S \in SUBSET Threads
    PROVE  /\ IsFiniteSet(S) /\ Cardinality(S) \in Nat /\ Cardinality(Threads) \in Nat
           /\ Cardinality(S) <= Cardinality(Threads)
           /\ \A T \in SUBSET S : Cardinality(T) \in Nat /\ Cardinality(T) <= Cardinality(S)
           /\ \A t \in S : Cardinality(S \ {t}) = Cardinality(S) - 1
  <1>1. IsFiniteSet(S)
    BY ExecutorConstants, FS_Subset
  <1> QED BY <1>1, ExecutorConstants, FS_Subset, FS_CardinalityType, FS_RemoveElement

\* The room that m of n threads leave, for an amount of k each: it shrinks with
\* every thread, is none when all are through, and is never more than n of them.
LEMMA RoomOf ==
    ASSUME NEW k \in Nat, NEW n \in Nat, NEW m \in Nat, m <= n
    PROVE  /\ k * (m - n) \in Int /\ k * (m - n) <= 0 /\ -n * k <= k * (m - n)
           /\ k * (m - n) = k * ((m - 1) - n) + k
           /\ \A j \in Nat : j <= m => k * (j - n) <= k * (m - n) /\ k * (j - n) \in Int
  <1>1. k * (n - m) >= 0 /\ k * m >= 0
    OBVIOUS
  <1>2. k * (m - n) = -(k * (n - m)) /\ k * (m - n) = k * m - k * n
        /\ k * ((m - 1) - n) = k * m - k - k * n /\ -n * k = -(k * n)
    OBVIOUS
  <1>3. ASSUME NEW j \in Nat, j <= m PROVE k * (j - n) <= k * (m - n) /\ k * (j - n) \in Int
    <2>1. k * (m - j) >= 0
      BY <1>3
    <2>2. k * (m - j) = k * (m - n) - k * (j - n)
      OBVIOUS
    <2>3. k * (m - n) \in Int /\ k * (j - n) \in Int
      OBVIOUS
    <2> QED BY <2>1, <2>2, <2>3
  <1> QED BY <1>1, <1>2, <1>3

LEMMA OverdraftInit == Init => OverdraftInv
  <1> SUFFICES ASSUME Init, NEW e \in Exchanges
               PROVE  virtual_balances[e]["base"] >=
                          Largest * (Cardinality(Selling(e)) - Cardinality(Threads))
    BY DEF OverdraftInv
  <1>1. virtual_balances[e]["base"] \in Nat
    BY ExecutorConstants DEF Init, Assets
  <1>2. /\ Largest * (Cardinality(Selling(e)) - Cardinality(Threads)) <= 0
        /\ Largest * (Cardinality(Selling(e)) - Cardinality(Threads)) \in Int
    BY ThreadsOf, LargestOf, RoomOf DEF Selling
  <1> QED BY <1>1, <1>2

LEMMA OverdraftStep ==
    TypeOK /\ AccountsInv /\ OverdraftInv /\ [Next]_vars => OverdraftInv'
  <1> DEFINE N == Cardinality(Threads)
             Room(S) == Largest * (Cardinality(S) - N)
  <1> SUFFICES ASSUME TypeOK, AccountsInv, OverdraftInv, [Next]_vars, NEW e \in Exchanges
               PROVE  virtual_balances'[e]["base"] >= Room(Selling(e)')
    BY DEF OverdraftInv
  <1>1. /\ virtual_balances[e]["base"] \in Int
        /\ virtual_balances[e]["base"] >= Room(Selling(e))
    BY DEF OverdraftInv, TypeOK, Assets
  <1>2. Selling(e) \in SUBSET Threads /\ Selling(e)' \in SUBSET Threads
    BY DEF Selling
  <1>3. Room(Selling(e)) \in Int /\ Room(Selling(e)') \in Int /\ Room(Selling(e)') <= 0
    BY <1>2, ThreadsOf, LargestOf, RoomOf
  \* A step that takes no base asset from e, and adds no thread that may.
  <1>4. ASSUME Selling(e)' \subseteq Selling(e), virtual_balances'[e]["base"] \in Int,
               virtual_balances'[e]["base"] >= virtual_balances[e]["base"]
        PROVE  virtual_balances'[e]["base"] >= Room(Selling(e)')
    <2>1. Cardinality(Selling(e)') \in Nat /\ Cardinality(Selling(e)) \in Nat /\ N \in Nat
          /\ Cardinality(Selling(e)') <= Cardinality(Selling(e))
          /\ Cardinality(Selling(e)) <= N
      BY <1>2, <1>4, ThreadsOf
    <2>2. Room(Selling(e)') <= Room(Selling(e))
      <3> DEFINE m == Cardinality(Selling(e))
                 j == Cardinality(Selling(e)')
      <3> HIDE DEF m, j, N
      <3>1. Largest * (j - N) <= Largest * (m - N)
        BY <2>1, LargestOf, RoomOf DEF m, j
      <3> QED BY <3>1 DEF m, j
    <2> HIDE DEF Room
    <2> QED BY <1>1, <1>3, <1>4, <2>2
  <1>5. ASSUME NEW t \in Threads, Execute(t) \/ CheckQuote(t) \/ SimulateFills(t)
                                  \/ AddPnl(t) \/ LogTrade(t)
        PROVE  virtual_balances'[e]["base"] >= Room(Selling(e)')
    <2>1. virtual_balances' = virtual_balances
      BY <1>5 DEF Execute, CheckQuote, Check, SimulateFills, AddPnl, LogTrade
    <2>2. /\ \A u \in Threads \ {t} : pc'[u] = pc[u] /\ opp'[u] = opp[u]
          /\ \/ pc'[t] \notin {"fill", "buyBase", "buyQuote", "sellBase"}
             \/ pc[t] = "fill" /\ opp' = opp
      BY <1>5 DEF Execute, CheckQuote, Check, SimulateFills, AddPnl, LogTrade, At, TypeOK,
                  locals
    <2>3. Selling(e)' \subseteq Selling(e)
      BY <2>2 DEF Selling
    <2> QED BY <1>1, <1>4, <2>1, <2>3
  <1>6. ASSUME NEW t \in Threads, CheckBase(t)
        PROVE  virtual_balances'[e]["base"] >= Room(Selling(e)')
    <2>1. UNCHANGED <<virtual_balances, opp>>
      BY <1>6 DEF CheckBase, Check, locals
    <2>2. \A u \in Threads \ {t} : pc'[u] = pc[u]
      BY <1>6 DEF CheckBase, Check, At, TypeOK
    <2>3. CASE opp[t].sell = e /\ virtual_balances[e]["base"] >= opp[t].quantity
      <3>1. opp[t].quantity \in Nat
        BY LargestOf DEF TypeOK
      <3> HIDE DEF Room
      <3> QED BY <1>1, <1>3, <2>1, <2>3, <3>1
    <2>4. CASE opp[t].sell # e
      <3>1. Selling(e)' \subseteq Selling(e)
        BY <2>1, <2>2, <2>4 DEF Selling
      <3> QED BY <1>1, <1>4, <2>1, <3>1
    <2>5. CASE opp[t].sell = e /\ ~(virtual_balances[e]["base"] >= opp[t].quantity)
      <3>1. pc'[t] = "idle"
        BY <1>6, <2>5 DEF CheckBase, Check, At, TypeOK
      <3>2. Selling(e)' \subseteq Selling(e)
        BY <2>1, <2>2, <3>1 DEF Selling
      <3> QED BY <1>1, <1>4, <2>1, <3>2
    <2> QED BY <2>3, <2>4, <2>5
  <1>7. ASSUME NEW t \in Threads
        PROVE  /\ opp[t].buy \in Exchanges /\ opp[t].sell \in Exchanges
               /\ Matched(t) \in Nat /\ -Matched(t) \in Int /\ -BuyCost(t) \in Int
               /\ SellProceeds(t) \in Int /\ Matched(t) <= opp[t].quantity
               /\ opp[t].quantity <= Largest /\ Matched(t) <= Largest
    <2>1. opp[t].quantity \in Nat /\ opp[t].quantity <= Largest /\ Largest \in Nat
      BY LargestOf DEF TypeOK
    <2>2. opp[t].buy \in Exchanges /\ opp[t].sell \in Exchanges
      BY ExecutorConstants DEF TypeOK
    <2>3. /\ Matched(t) \in Nat /\ Matched(t) <= opp[t].quantity
          /\ BuyCost(t) \in Int /\ SellProceeds(t) \in Int
      BY AmountsOf
    <2> QED BY <2>1, <2>2, <2>3
  <1>8. "base" \in Assets /\ "quote" \in Assets /\ "base" # "quote"
    BY DEF Assets
  \* An update that gives e base asset, or none: its thread was selling before.
  <1>9. ASSUME NEW t \in Threads, NEW to, pc' = [pc EXCEPT ![t] = to],
               \/ pc[t] \in {"buyBase", "buyQuote"}
               \/ to \notin {"fill", "buyBase", "buyQuote", "sellBase"},
               opp' = opp
        PROVE  Selling(e)' \subseteq Selling(e)
    BY <1>9 DEF Selling, TypeOK
  <1>10. ASSUME NEW t \in Threads, BuyBase(t)
         PROVE  virtual_balances'[e]["base"] >= Room(Selling(e)')
    <2>1. /\ pc[t] = "buyBase" /\ pc' = [pc EXCEPT ![t] = "buyQuote"] /\ opp' = opp
          /\ \/ virtual_balances'[e]["base"] = virtual_balances[e]["base"] + Matched(t)
             \/ virtual_balances'[e]["base"] = virtual_balances[e]["base"]
      BY <1>7, <1>8, <1>10, UpdateOf DEF BuyBase
    <2>2. Selling(e)' \subseteq Selling(e)
      BY <1>9, <2>1
    <2>3. virtual_balances'[e]["base"] \in Int
          /\ virtual_balances'[e]["base"] >= virtual_balances[e]["base"]
      BY <1>1, <1>7, <2>1
    <2> QED BY <1>4, <2>2, <2>3
  <1>11. ASSUME NEW t \in Threads, BuyQuote(t) \/ SellQuote(t)
         PROVE  virtual_balances'[e]["base"] >= Room(Selling(e)')
    <2>1. /\ \/ pc[t] = "buyQuote" /\ pc' = [pc EXCEPT ![t] = "sellBase"]
             \/ pc' = [pc EXCEPT ![t] = "pnl"]
          /\ opp' = opp
          /\ virtual_balances'[e]["base"] = virtual_balances[e]["base"]
      <3>1. CASE BuyQuote(t)
        BY <1>7, <1>8, <3>1, UpdateOf DEF BuyQuote
      <3>2. CASE SellQuote(t)
        BY <1>7, <1>8, <3>2, UpdateOf DEF SellQuote
      <3> QED BY <1>11, <3>1, <3>2
    <2>2. Selling(e)' \subseteq Selling(e)
      BY <1>9, <2>1
    <2> QED BY <1>1, <1>4, <2>1, <2>2
  <1>12. ASSUME NEW t \in Threads, SellBase(t)
         PROVE  virtual_balances'[e]["base"] >= Room(Selling(e)')
    <2>1. /\ pc[t] = "sellBase" /\ pc' = [pc EXCEPT ![t] = "sellQuote"] /\ opp' = opp
          /\ virtual_balances'[opp[t].sell]["base"] =
                 virtual_balances[opp[t].sell]["base"] + (-Matched(t))
          /\ opp[t].sell # e => virtual_balances'[e]["base"] = virtual_balances[e]["base"]
      BY <1>7, <1>8, <1>12, UpdateOf DEF SellBase
    <2>2. CASE opp[t].sell # e
      <3>1. Selling(e)' \subseteq Selling(e)
        BY <1>9, <2>1
      <3> QED BY <1>1, <1>4, <2>1, <2>2, <3>1
    <2>3. CASE opp[t].sell = e
      <3>1. t \in Selling(e) /\ Selling(e)' = Selling(e) \ {t}
        BY <2>1, <2>3 DEF Selling, TypeOK
      <3> DEFINE m == Cardinality(Selling(e))
      <3>2. /\ m \in Nat /\ N \in Nat /\ m <= N /\ Cardinality(Selling(e)') = m - 1
        BY <1>2, <3>1, ThreadsOf
      <3>3. Room(Selling(e)') = Largest * ((m - 1) - N) /\ Room(Selling(e)) = Largest * (m - N)
        BY <3>2
      <3>4. Room(Selling(e)) = Room(Selling(e)') + Largest
        <4> HIDE DEF m, N, Room
        <4>1. Largest * (m - N) = Largest * ((m - 1) - N) + Largest
          BY <3>2, LargestOf, RoomOf
        <4> QED BY <3>3, <4>1
      <3> HIDE DEF Room
      <3>5. virtual_balances'[e]["base"] = virtual_balances[e]["base"] + (-Matched(t))
        BY <2>1, <2>3
      <3>6. Matched(t) \in Nat /\ Matched(t) <= Largest /\ Largest \in Nat
        BY <1>7, LargestOf
      <3> QED BY <1>1, <1>3, <3>4, <3>5, <3>6
    <2> QED BY <2>2, <2>3
  <1>13. CASE Rebalance
    <2>1. Total("base") \in Nat
      <3>1. Total("base") = Places * Deposits["base"] + SumFunction(BaseUnderway)
        BY DEF AccountsInv, BaseAccounted, Places
      <3>2. SumFunction(BaseUnderway) \in Nat /\ Deposits["base"] \in Nat
        BY <1>8, SumsType, ExecutorConstants
      <3>3. Places * Deposits["base"] \in Nat
        BY <3>2, PlacesType
      <3> QED BY <3>1, <3>2, <3>3
    <2>2. virtual_balances'[e]["base"] = Total("base") \div Places
      BY <1>8, <1>13 DEF Rebalance, Places
    <2>3. virtual_balances'[e]["base"] \in Nat
      BY <2>1, <2>2, PlacesType
    <2> HIDE DEF Room
    <2> QED BY <1>3, <2>3
  <1>14. CASE UNCHANGED vars
    <2>1. Selling(e)' \subseteq Selling(e) /\ virtual_balances' = virtual_balances
      BY <1>14 DEF vars, locals, Selling
    <2> QED BY <1>1, <1>4, <2>1
  <1> HIDE DEF Room
  <1> QED BY <1>5, <1>6, <1>10, <1>11, <1>12, <1>13, <1>14 DEF Next, Trade

-----------------------------------------------------------------------------
(* The theorems of the paper executor *)

\* The types of the balances, the profit and the calls in progress, and
\* that no side of a trade is filled with more than was ordered.
THEOREM TypeCorrect == Spec => []TypeOK
  <1>1. Init => TypeOK /\ FreshInv
    BY TypeInit
  <1>2. TypeOK /\ FreshInv /\ [Next]_vars => TypeOK' /\ FreshInv'
    BY TypeStep
  <1> QED BY <1>1, <1>2, PTL DEF Spec

\* The inductive invariant: the types, the accounts with what is underway of each
\* trade, and the room that the checks leave for the sales.
THEOREM ExecutorInvHolds == Spec => []ExecutorInv
  <1>1. Init => ExecutorInv
    BY TypeInit, AccountsInit, OverdraftInit DEF ExecutorInv
  <1>2. ExecutorInv /\ [Next]_vars => ExecutorInv'
    BY TypeStep, AccountsStep, OverdraftStep DEF ExecutorInv
  <1> QED BY <1>1, <1>2, PTL DEF Spec

\* However the updates of any number of trades and the rebalancing interleave, no
\* base asset is created or lost.
THEOREM BaseAccountedHolds == Spec => []BaseAccounted
  <1>1. ExecutorInv => BaseAccounted
    BY DEF ExecutorInv, AccountsInv
  <1> QED BY <1>1, ExecutorInvHolds, PTL

\* The quote asset held is what was deposited and the profit reported, but for
\* the trades halfway.
THEOREM QuoteAccountedHolds == Spec => []QuoteAccounted
  <1>1. ExecutorInv => QuoteAccounted
    BY DEF ExecutorInv, AccountsInv
  <1> QED BY <1>1, ExecutorInvHolds, PTL

\* A balance of base is overdrawn by no more than a largest trade per thread.
THEOREM OverdraftIsBoundedHolds == Spec => []OverdraftIsBounded
  <1>1. ASSUME TypeOK, OverdraftInv, NEW e \in Exchanges
        PROVE  virtual_balances[e]["base"] >=
                   -Cardinality(Threads) * Max({o.quantity : o \in Opportunities})
    <2> DEFINE m == Cardinality(Selling(e))
               n == Cardinality(Threads)
    <2>1. /\ virtual_balances[e]["base"] \in Int
          /\ virtual_balances[e]["base"] >= Largest * (m - n)
      BY <1>1 DEF TypeOK, OverdraftInv, Assets
    <2>2. m \in Nat /\ n \in Nat /\ m <= n
      BY ThreadsOf DEF Selling
    <2> HIDE DEF m, n
    <2>3. -n * Largest <= Largest * (m - n) /\ Largest * (m - n) \in Int /\ -n * Largest \in Int
      BY <2>2, LargestOf, RoomOf
    <2>4. virtual_balances[e]["base"] >= -n * Largest
      BY <2>1, <2>3
    <2> QED BY <2>4 DEF n, Largest
  <1>2. ExecutorInv => OverdraftIsBounded
    BY <1>1 DEF ExecutorInv, OverdraftIsBounded
  <1> QED BY <1>2, ExecutorInvHolds, PTL

-----------------------------------------------------------------------------
(* The first and the last of a set of numbers *)

\* A set of numbers has a smallest one.
LEMMA FirstOf ==
    ASSUME NEW S \in SUBSET Nat, S # {}
    PROVE  \E n \in S : \A m \in S : n <= m
  <1> DEFINE P == {k \in Nat : \A m \in S : k <= m}
  <1>1. SUFFICES ASSUME ~ \E n \in S : \A m \in S : n <= m
                 PROVE  FALSE
    OBVIOUS
  <1>2. 0 \in P
    OBVIOUS
  <1>3. \A k \in P : k + 1 \in P
    <2>1. TAKE k \in P
    <2>2. k \in Nat /\ \A m \in S : k <= m
      OBVIOUS
    <2>3. k \notin S
      BY <1>1, <2>2
    <2>4. \A m \in S : k + 1 <= m
      <3>1. TAKE m \in S
      <3>2. m \in Nat /\ k <= m /\ k # m
        BY <2>2, <2>3, <3>1
      <3> QED BY <2>2, <3>2
    <2> QED BY <2>2, <2>4
  <1>4. P = Nat
    <2>1. P \in SUBSET Nat
      OBVIOUS
    <2> HIDE DEF P
    <2> QED BY <1>2, <1>3, <2>1, NumberInduction
  <1>5. PICK x : x \in S
    OBVIOUS
  <1>6. x \in Nat /\ x + 1 \in P
    BY <1>4, <1>5
  <1> QED BY <1>5, <1>6

\* A set of positions has a last one.
LEMMA LastOf ==
    ASSUME NEW n \in Nat, NEW S \in SUBSET (1 .. n), S # {}
    PROVE  \E i \in S : \A j \in S : j <= i
  <1> DEFINE T == {n - i : i \in S}
  <1>1. T \in SUBSET Nat /\ T # {}
    <2>1. \A i \in S : i \in Int /\ 1 <= i /\ i <= n
      OBVIOUS
    <2>2. \A i \in S : n - i \in Nat
      BY <2>1
    <2> QED BY <2>2
  <1>2. PICK t \in T : \A u \in T : t <= u
    <2> HIDE DEF T
    <2> QED BY <1>1, FirstOf
  <1>3. PICK i \in S : t = n - i
    BY <1>2
  <1>4. \A j \in S : j <= i
    <2>1. TAKE j \in S
    <2>2. n - j \in T /\ j \in Nat /\ i \in Nat
      BY <2>1
    <2>3. n - i <= n - j
      BY <1>2, <1>3, <2>2
    <2> QED BY <2>2, <2>3
  <1> QED BY <1>4

-----------------------------------------------------------------------------
(* Reading a file *)

\* What is before the first element of some is as much of the sequence as has
\* none of them.
LEMMA BeforeOf ==
    ASSUME NEW S, NEW s \in Seq(S), NEW I \in SUBSET (1 .. Len(s))
    PROVE  LET stop == IF I # {} THEN Min(I) ELSE 0
           IN  \E n \in 0 .. Len(s) :
                   /\ Before(s, stop) \in Seq(S) /\ Len(Before(s, stop)) = n
                   /\ \A i \in 1 .. n : Before(s, stop)[i] = s[i] /\ i \notin I
                   /\ n < Len(s) => n + 1 \in I
  <1>1. Len(s) \in Nat /\ \A i \in 1 .. Len(s) : s[i] \in S
    BY ElementOfSeq, LenProperties
  <1>2. CASE I = {}
    <2>1. Before(s, 0) = s
      BY DEF Before
    <2> QED BY <1>1, <1>2, <2>1
  <1>3. CASE I # {}
    <2> DEFINE m == Min(I)
    <2>1. I \in SUBSET Nat
      BY <1>1
    <2>2. m \in I /\ \A i \in I : m <= i
      <3>1. \E x \in I : \A y \in I : x <= y
        BY <1>3, <2>1, FirstOf
      <3> QED BY <3>1 DEF Min
    <2> HIDE DEF m
    <2>3. m \in 1 .. Len(s) /\ m # 0
      BY <1>1, <2>2
    <2>4. Before(s, m) = SubSeq(s, 1, m - 1)
      BY <2>3 DEF Before
    <2> DEFINE t == SubSeq(s, 1, m - 1)
    <2>5. /\ t \in Seq(S) /\ Len(t) = m - 1
          /\ \A i \in 1 .. m - 1 : t[i] = s[i]
      <3>1. 1 \in Int /\ m - 1 \in Int /\ \A i \in 1 .. m - 1 : s[i] \in S
        BY <1>1, <2>3
      <3>2. /\ t \in Seq(S) /\ Len(t) = IF 1 <= m - 1 THEN m - 1 - 1 + 1 ELSE 0
            /\ \A i \in 1 .. m - 1 - 1 + 1 : t[i] = s[1 + i - 1]
        BY ONLY <3>1, SubSeqProperties, <1>1
      <3> QED BY <2>3, <3>2
    <2>6. \A i \in 1 .. m - 1 : i \notin I
      BY <2>2, <2>3
    <2> HIDE DEF t
    <2>7. m - 1 \in 0 .. Len(s) /\ (m - 1 < Len(s) => m - 1 + 1 \in I)
      BY <1>1, <2>2, <2>3
    <2>8. Before(s, IF I # {} THEN Min(I) ELSE 0) = t
      BY <1>3, <2>4 DEF m, t
    <2> QED BY <2>5, <2>6, <2>7, <2>8
  <1> QED BY <1>2, <1>3

\* A cell of a row is a level with a price, or empty.
PricedOrNone == Priced \cup {None}

\* A sequence of elements of a set is one over the set.
LEMMA SequenceOf ==
    ASSUME NEW S, NEW T, NEW s \in Seq(S), \A i \in 1 .. Len(s) : s[i] \in T
    PROVE  s \in Seq(T)
  <1>1. s \in [1 .. Len(s) -> S] /\ Len(s) \in Nat
    BY LenProperties
  <1>2. s \in [1 .. Len(s) -> T]
    BY <1>1
  <1> QED BY <1>1, <1>2, SeqDef

LEMMA CellsOf ==
    ASSUME NEW levels \in Seq(Priced)
    PROVE  Cells(levels) \in Seq(PricedOrNone)
  <1>1. Len(levels) \in Nat /\ \A i \in 1 .. Len(levels) : levels[i] \in Priced
    BY ElementOfSeq, LenProperties
  <1>2. Cells(levels) \in [1 .. Width -> PricedOrNone]
    <2>1. \A i \in 1 .. Width : (IF i <= Len(levels) THEN levels[i] ELSE None) \in PricedOrNone
      BY <1>1 DEF PricedOrNone
    <2> QED BY <2>1 DEF Cells
  <1> QED BY <1>2, SeqDef, BacktestConstants

\* Whatever is in the cells, what is read of a side is levels with a price.
LEMMA ReadLevelsOf ==
    ASSUME NEW cells \in Seq(PricedOrNone)
    PROVE  ReadLevels(cells) \in Seq(Priced)
  <1> DEFINE n == Least(Width, Len(cells))
             side == SubSeq(cells, 1, n)
             I == {i \in 1 .. Len(side) : side[i] = None}
             read == Before(side, IF I # {} THEN Min(I) ELSE 0)
  <1>1. Len(cells) \in Nat /\ \A i \in 1 .. Len(cells) : cells[i] \in PricedOrNone
    BY ElementOfSeq, LenProperties
  <1>2. n \in Nat /\ n <= Len(cells)
    BY <1>1, BacktestConstants DEF Least
  <1>3. side \in Seq(PricedOrNone)
    <2> HIDE DEF n
    <2>1. 1 \in Int /\ n \in Int /\ \A i \in 1 .. n : cells[i] \in PricedOrNone
      BY <1>1, <1>2
    <2> QED BY ONLY <2>1, SubSeqProperties
  <1>4. ReadLevels(cells) = read
    BY DEF ReadLevels, SelectInSeq
  <1> HIDE DEF n, side
  <1>5. I \in SUBSET (1 .. Len(side))
    OBVIOUS
  <1>6. PICK k \in 0 .. Len(side) :
            /\ read \in Seq(PricedOrNone) /\ Len(read) = k
            /\ \A i \in 1 .. k : read[i] = side[i] /\ i \notin I
    <2> HIDE DEF I
    <2> QED BY <1>3, <1>5, BeforeOf
  <1>7. \A i \in 1 .. Len(read) : read[i] \in Priced
    <2>1. TAKE i \in 1 .. Len(read)
    <2>2. i \in 1 .. Len(side) /\ read[i] = side[i] /\ side[i] # None
      <3>1. Len(side) \in Nat
        BY <1>3, LenProperties
      <3> HIDE DEF I, read
      <3>2. i \in 1 .. Len(side) /\ read[i] = side[i] /\ i \notin I
        BY <1>6, <2>1, <3>1
      <3> QED BY <3>2 DEF I
    <2>3. read[i] \in PricedOrNone /\ read[i] # None
      BY <1>3, <2>2, ElementOfSeq
    <2> QED BY <2>3 DEF PricedOrNone
  <1> HIDE DEF read
  <1> QED BY <1>4, <1>6, <1>7, SequenceOf

LEMMA ReadRowOf ==
    ASSUME NEW cells \in Seq(PricedOrNone)
    PROVE  ReadRow(cells).bids \in Seq(Priced) /\ ReadRow(cells).asks \in Seq(Priced)
  <1> DEFINE bids == ReadLevels(cells)
             m == Len(bids) + (IF Len(bids) < Width THEN 2 ELSE 1)
             rest == SubSeq(cells, m, Len(cells))
  <1>1. bids \in Seq(Priced) /\ Len(bids) \in Nat
    BY ReadLevelsOf, LenProperties
  <1>2. rest \in Seq(PricedOrNone)
    <2>1. m \in Int /\ m >= 1
      BY <1>1, BacktestConstants
    <2> HIDE DEF m
    <2>2. Len(cells) \in Int /\ \A i \in m .. Len(cells) : cells[i] \in PricedOrNone
      BY <2>1, ElementOfSeq, LenProperties
    <2> QED BY ONLY <2>1, <2>2, SubSeqProperties
  <1>3. ReadRow(cells) = [bids |-> bids, asks |-> ReadLevels(rest)]
    BY DEF ReadRow
  <1> HIDE DEF bids, rest
  <1> QED BY <1>1, <1>2, <1>3, ReadLevelsOf

\* The rows that load_csv makes.
LEMMA RowOf ==
    ASSUME NEW row \in Rows
    PROVE  row.time \in 1 .. Times /\ row.bids \in Seq(Priced) /\ row.asks \in Seq(Priced)
  <1>1. PICK t \in 1 .. Times, sides \in Sides : row = Snapshot(t, sides)
    BY DEF Rows
  <1>2. sides.bids \in Seq(Priced) /\ sides.asks \in Seq(Priced)
    BY SidesConstants
  <1> DEFINE cells == Cells(sides.bids) \o Cells(sides.asks)
  <1>3. cells \in Seq(PricedOrNone)
    BY <1>2, CellsOf, ConcatProperties
  <1>4. row = [time |-> t, bids |-> ReadRow(cells).bids, asks |-> ReadRow(cells).asks]
    BY <1>1 DEF Snapshot
  <1> HIDE DEF cells
  <1> QED BY <1>3, <1>4, ReadRowOf

-----------------------------------------------------------------------------
(* The books of the engine *)

\* A level is put somewhere among the others.
LEMMA InsertedOf ==
    ASSUME NEW side \in Seq(Priced), NEW level \in Priced, NEW descending
    PROVE  Inserted(side, level, descending) \in Seq(Priced)
  <1> DEFINE no_worse == {i \in DOMAIN side : IF descending THEN side[i].price >= level.price
                                              ELSE side[i].price <= level.price}
             n == Cardinality(no_worse) + 1
             first == SubSeq(side, 1, n - 1)
             rest == SubSeq(side, n, Len(side))
  <1>1. /\ Len(side) \in Nat /\ DOMAIN side = 1 .. Len(side)
        /\ \A i \in 1 .. Len(side) : side[i] \in Priced
    BY ElementOfSeq, LenProperties
  <1>2. n \in Nat /\ 1 <= n /\ n - 1 <= Len(side)
    <2>1. 1 \in Int /\ Len(side) \in Int
      BY <1>1
    <2>2. IsFiniteSet(1 .. Len(side)) /\ Cardinality(1 .. Len(side)) <= Len(side)
      <3>1. /\ IsFiniteSet(1 .. Len(side))
            /\ Cardinality(1 .. Len(side)) = IF 1 > Len(side) THEN 0 ELSE Len(side) - 1 + 1
        BY ONLY <2>1, FS_Interval
      <3> QED BY <1>1, <3>1
    <2>3. no_worse \in SUBSET (1 .. Len(side))
      BY <1>1
    <2> HIDE DEF no_worse
    <2>4. IsFiniteSet(no_worse) /\ Cardinality(no_worse) <= Cardinality(1 .. Len(side))
      BY <2>2, <2>3, FS_Subset
    <2>5. Cardinality(no_worse) \in Nat /\ Cardinality(1 .. Len(side)) \in Nat
      BY <2>2, <2>4, FS_CardinalityType
    <2> QED BY <1>1, <2>2, <2>4, <2>5
  <1>3. Inserted(side, level, descending) = first \o <<level>> \o rest
    BY DEF Inserted, InsertAt
  <1> HIDE DEF n
  <1>4. first \in Seq(Priced) /\ rest \in Seq(Priced)
    <2>1. /\ 1 \in Int /\ n - 1 \in Int /\ n \in Int /\ Len(side) \in Int
          /\ \A i \in 1 .. n - 1 : side[i] \in Priced
          /\ \A i \in n .. Len(side) : side[i] \in Priced
      BY <1>1, <1>2
    <2> QED BY ONLY <2>1, SubSeqProperties
  <1>5. <<level>> \in Seq(Priced)
    OBVIOUS
  <1> HIDE DEF first, rest
  <1>6. first \o <<level>> \in Seq(Priced)
    BY <1>4, <1>5, ConcatProperties
  <1> QED BY <1>3, <1>4, <1>6, ConcatProperties

\* What apply_snapshot makes of a side are levels with a price.
LEMMA AppliedOf ==
    ASSUME NEW levels \in Seq(Priced), NEW descending
    PROVE  Applied(levels, descending) \in Seq(Priced)
  <1> DEFINE n == Len(levels)
             With(x, level) == IF level.quantity > 0 THEN Inserted(x, level, descending) ELSE x
             step == [k \in Nat |-> [x \in Seq(Priced) |->
                          IF k + 1 \in 1 .. n THEN With(x, levels[k + 1]) ELSE x]]
             Applies(f) == f = [i \in 0 .. n |-> IF i = 0 THEN <<>>
                                                 ELSE With(f[i - 1], levels[i])]
             side == CHOOSE f : Applies(f)
  <1>1. n \in Nat /\ \A i \in 1 .. n : levels[i] \in Priced
    BY ElementOfSeq, LenProperties
  <1>2. \A x \in Seq(Priced) : \A i \in 1 .. n : With(x, levels[i]) \in Seq(Priced)
    BY <1>1, InsertedOf
  <1>3. Applied(levels, descending) = side[n]
    BY DEF Applied
  <1> HIDE DEF n, With
  <1>4. step \in [Nat -> [Seq(Priced) -> Seq(Priced)]]
    BY <1>2
  <1>5. <<>> \in Seq(Priced)
    BY EmptySeq
  <1>6. PICK f \in [Nat -> Seq(Priced)] : Follows(f, <<>>, step)
    <2> HIDE DEF step
    <2> QED BY <1>4, <1>5, NumberRecursion
  <1> DEFINE g == [i \in 0 .. n |-> f[i]]
  <1>7. \A i \in 1 .. n : f[i] = With(f[i - 1], levels[i])
    <2> TAKE i \in 1 .. n
    <2>1. i - 1 \in Nat /\ (i - 1) + 1 = i /\ f[i - 1] \in Seq(Priced)
      BY <1>1
    <2>2. f[i] = step[i - 1][f[i - 1]]
      BY <1>6, <2>1 DEF Follows
    <2> QED BY <2>1, <2>2
  <1>8. Applies(g)
    <2>1. \A i \in 0 .. n : f[i] = IF i = 0 THEN <<>> ELSE With(g[i - 1], levels[i])
      <3> TAKE i \in 0 .. n
      <3>1. CASE i = 0
        BY <1>6, <3>1 DEF Follows
      <3>2. CASE i # 0
        <4>1. i \in 1 .. n /\ i - 1 \in 0 .. n
          BY <1>1, <3>2
        <4>2. g[i - 1] = f[i - 1]
          BY <4>1
        <4> HIDE DEF g
        <4> QED BY <1>7, <3>2, <4>1, <4>2
      <3> QED BY <3>1, <3>2
    <2> HIDE DEF step
    <2> QED BY <2>1
  <1>9. Applies(side)
    <2> HIDE DEF Applies, g
    <2> QED BY <1>8
  <1> HIDE DEF side, step
  <1>10. side[0] = <<>> /\ \A i \in 1 .. n : side[i] = With(side[i - 1], levels[i])
    <2>1. \A i \in 0 .. n : side[i] = IF i = 0 THEN <<>> ELSE With(side[i - 1], levels[i])
      BY <1>9, Zenon
    <2>2. 0 \in 0 .. n /\ \A i \in 1 .. n : i \in 0 .. n /\ i # 0
      BY <1>1
    <2> QED BY <2>1, <2>2, Zenon
  <1> DEFINE P == {k \in Nat : k <= n => side[k] \in Seq(Priced)}
  <1>11. P \in SUBSET Nat /\ 0 \in P
    BY <1>5, <1>10
  <1>12. \A k \in P : k + 1 \in P
    <2> TAKE k \in P
    <2> SUFFICES ASSUME k + 1 <= n PROVE side[k + 1] \in Seq(Priced)
      OBVIOUS
    <2>1. k \in Nat /\ k <= n /\ k + 1 \in 1 .. n /\ (k + 1) - 1 = k
      BY <1>1
    <2>2. side[k] \in Seq(Priced)
      BY <2>1
    <2>3. side[k + 1] = With(side[k], levels[k + 1])
      BY <1>10, <2>1
    <2> QED BY <1>2, <2>1, <2>2, <2>3
  <1>13. P = Nat
    <2> HIDE DEF P
    <2> QED BY <1>11, <1>12, NumberInduction
  <1>14. n \in Nat /\ n <= n
    BY <1>1
  <1>15. side[n] \in Seq(Priced)
    BY <1>13, <1>14, Zenon
  <1> QED BY <1>3, <1>15

LEMMA BookOfRow ==
    ASSUME NEW row, row.bids \in Seq(Priced), row.asks \in Seq(Priced)
    PROVE  /\ BookOf(row) \in [bids : Seq(Priced), asks : Seq(Priced)]
           /\ AsksInOrder(row) => BookOf(row).asks = row.asks
           /\ BidsInOrder(row) => BookOf(row).bids = row.bids
  BY AppliedOf DEF BookOf, AsksInOrder, BidsInOrder

-----------------------------------------------------------------------------
(* The walk of an order *)

\* The remaining quantity and the cost after some levels: nothing is free, and
\* what is filled stays filled.
LEMMA StepOf ==
    ASSUME NEW w \in Walked, NEW level \in Levels
    PROVE  /\ Taken(w, level) \in Walked
           /\ Taken(w, level).remaining <= w.remaining /\ Taken(w, level).cost >= w.cost
           /\ w.remaining = 0 => Taken(w, level) = w
           /\ level.price > 0 /\ Taken(w, level).remaining < w.remaining =>
                  Taken(w, level).cost > 0
  <1> DEFINE fill == Least(w.remaining, level.quantity)
             next == Taken(w, level)
  <1>1. /\ next \in Walked /\ fill \in 0 .. w.remaining
        /\ next.remaining = w.remaining - fill
        /\ next.cost = w.cost + fill * level.price
    BY TakenType
  <1>2. w.remaining \in Nat /\ w.cost \in Nat /\ level.price \in Nat
    BY DEF Walked, Levels
  <1> HIDE DEF fill, next
  <1>3. fill \in Nat /\ fill * level.price \in Nat
    BY <1>1, <1>2, Products
  <1>4. next.remaining <= w.remaining /\ next.cost >= w.cost
    BY <1>1, <1>2, <1>3
  <1>5. ASSUME w.remaining = 0
        PROVE  next = w
    <2>1. fill = 0
      BY <1>1, <1>5
    <2>2. fill * level.price = 0
      BY <1>2, <2>1
    <2>3. next.remaining = w.remaining /\ next.cost = w.cost
      BY <1>1, <1>2, <2>1, <2>2
    <2>4. next = [remaining |-> next.remaining, cost |-> next.cost]
          /\ w = [remaining |-> w.remaining, cost |-> w.cost]
      BY <1>1 DEF Walked
    <2> QED BY <2>3, <2>4
  <1>6. ASSUME level.price > 0, next.remaining < w.remaining
        PROVE  next.cost > 0
    <2>1. fill >= 1 /\ level.price >= 1
      BY <1>1, <1>2, <1>3, <1>6
    <2>2. fill * level.price >= 1 * level.price
      BY <1>2, <1>3, <2>1, Scaled
    <2> QED BY <1>1, <1>2, <1>3, <2>1, <2>2
  <1> QED BY <1>1, <1>4, <1>5, <1>6 DEF next

\* The walk over the first levels of a side is a part of the walk over them all:
\* it costs no more, and as much if it is enough.
StartsWith(levels, some) ==
    /\ Len(some) <= Len(levels)
    /\ \A i \in 1 .. Len(some) : some[i] = levels[i]

LEMMA WalkOfSome ==
    ASSUME NEW levels \in Seq(Levels), NEW some \in Seq(Levels), StartsWith(levels, some),
           NEW quantity \in Nat
    PROVE  LET all == Walk(levels, quantity)
               part == Walk(some, quantity)
           IN  /\ all \in Walked /\ part \in Walked
               /\ part.cost <= all.cost
               /\ part.remaining = 0 => part.cost = all.cost
  <1> DEFINE n == Len(some)
             m == Len(levels)
  <1>1. n \in Nat /\ m \in Nat /\ n <= m /\ DOMAIN levels = 1 .. m /\ DOMAIN some = 1 .. n
    BY LenProperties DEF StartsWith
  <1>2. \A i \in 1 .. m : levels[i] \in Levels
    BY ElementOfSeq
  <1>3. PICK w \in [0 .. m -> Walked] :
            /\ w[0] = [remaining |-> quantity, cost |-> 0]
            /\ \A i \in DOMAIN levels : w[i] = Taken(w[i - 1], levels[i])
            /\ Walk(levels, quantity) = w[m]
    BY WalkRecurs
  <1>4. PICK v \in [0 .. n -> Walked] :
            /\ v[0] = [remaining |-> quantity, cost |-> 0]
            /\ \A i \in DOMAIN some : v[i] = Taken(v[i - 1], some[i])
            /\ Walk(some, quantity) = v[n]
    BY WalkRecurs
  <1> HIDE DEF n, m
  <1>5. v[n] = w[n]
    <2> DEFINE P == {k \in Nat : k <= n => v[k] = w[k]}
    <2>1. P \in SUBSET Nat /\ 0 \in P
      BY <1>3, <1>4
    <2>2. \A k \in P : k + 1 \in P
      <3>1. TAKE k \in P
      <3>2. SUFFICES ASSUME k + 1 <= n
                     PROVE  v[k + 1] = w[k + 1]
        OBVIOUS
      <3>3. k \in Nat /\ k + 1 \in 1 .. n /\ k + 1 \in 1 .. m /\ (k + 1) - 1 = k
        BY <1>1, <3>1, <3>2
      <3>4. v[k] = w[k] /\ some[k + 1] = levels[k + 1]
        BY <1>1, <3>1, <3>2, <3>3 DEF StartsWith, n
      <3>5. v[k + 1] = Taken(v[k], some[k + 1]) /\ w[k + 1] = Taken(w[k], levels[k + 1])
        BY <1>1, <1>3, <1>4, <3>3
      <3> QED BY <3>4, <3>5
    <2> HIDE DEF P
    <2>3. P = Nat
      BY <2>1, <2>2, NumberInduction
    <2> QED BY <1>1, <2>3 DEF P
  <1>6. /\ w[n] \in Walked /\ w[m] \in Walked
        /\ w[n].cost <= w[m].cost /\ (w[n].remaining = 0 => w[m] = w[n])
    <2> DEFINE Later(k) == n + k <= m =>
                   w[n].cost <= w[n + k].cost /\ (w[n].remaining = 0 => w[n + k] = w[n])
               P == {k \in Nat : Later(k)}
    <2>1. P \in SUBSET Nat
      OBVIOUS
    <2>2. \A k \in 0 .. m : w[k] \in Walked /\ w[k].cost \in Nat /\ w[k].remaining \in Nat
      BY <1>3 DEF Walked
    <2>3. 0 \in P
      <3>1. w[n].cost \in Nat /\ n + 0 = n
        BY <1>1, <2>2
      <3> QED BY <3>1
    <2>4. \A k \in P : k + 1 \in P
      <3>1. TAKE k \in P
      <3>2. SUFFICES ASSUME n + (k + 1) <= m
                     PROVE  /\ w[n].cost <= w[n + (k + 1)].cost
                            /\ w[n].remaining = 0 => w[n + (k + 1)] = w[n]
        OBVIOUS
      <3> DEFINE i == n + (k + 1)
      <3>3. k \in Nat /\ i \in 1 .. m /\ i - 1 = n + k /\ n + k \in 0 .. m /\ n + k <= m
        BY <1>1, <3>1, <3>2
      <3>4. Later(k)
        OBVIOUS
      <3>5. w[i] = Taken(w[n + k], levels[i])
        BY <1>1, <1>3, <3>3
      <3> HIDE DEF i
      <3>6. w[i].cost >= w[n + k].cost /\ (w[n + k].remaining = 0 => w[i] = w[n + k])
        BY <1>2, <2>2, <3>3, <3>5, StepOf
      <3>7. w[n].cost \in Nat /\ w[n + k].cost \in Nat /\ w[i].cost \in Nat
        BY <1>1, <2>2, <3>3
      <3>8. w[n].cost <= w[i].cost /\ (w[n].remaining = 0 => w[i] = w[n])
        BY <3>3, <3>4, <3>6, <3>7
      <3> QED BY <3>8 DEF i
    <2>5. P = Nat
      <3> HIDE DEF P
      <3> QED BY <2>1, <2>3, <2>4, NumberInduction
    <2>6. m - n \in Nat /\ n + (m - n) = m
      BY <1>1
    <2>7. Later(m - n)
      BY <2>5, <2>6
    <2> QED BY <1>1, <2>2, <2>6, <2>7
  <1> QED BY <1>3, <1>4, <1>5, <1>6

\* A quantity is filled for no less than nothing, and never more of it than was
\* ordered.
LEMMA WalkIsPaid ==
    ASSUME NEW levels \in Seq(Priced), NEW quantity \in Nat
    PROVE  LET walk == Walk(levels, quantity)
           IN  /\ walk \in Walked /\ walk.remaining <= quantity
               /\ walk.remaining < quantity => walk.cost > 0
  <1> DEFINE m == Len(levels)
  <1>1. levels \in Seq(Levels)
    BY SeqMonotonic DEF Priced
  <1>2. m \in Nat /\ DOMAIN levels = 1 .. m
        /\ \A i \in 1 .. m : levels[i] \in Levels /\ levels[i].price > 0
    BY ElementOfSeq, LenProperties DEF Priced
  <1>3. PICK w \in [0 .. m -> Walked] :
            /\ w[0] = [remaining |-> quantity, cost |-> 0]
            /\ \A i \in DOMAIN levels : w[i] = Taken(w[i - 1], levels[i])
            /\ Walk(levels, quantity) = w[m]
    BY <1>1, WalkRecurs
  <1> HIDE DEF m
  <1> DEFINE Paid(k) == k <= m =>
                 w[k].remaining <= quantity /\ (w[k].remaining < quantity => w[k].cost > 0)
             P == {k \in Nat : Paid(k)}
  <1>4. P \in SUBSET Nat /\ 0 \in P
    BY <1>3
  <1>5. \A k \in P : k + 1 \in P
    <2>1. TAKE k \in P
    <2>2. SUFFICES ASSUME k + 1 <= m
                   PROVE  /\ w[k + 1].remaining <= quantity
                          /\ w[k + 1].remaining < quantity => w[k + 1].cost > 0
      OBVIOUS
    <2>3. k \in Nat /\ k + 1 \in 1 .. m /\ (k + 1) - 1 = k /\ k \in 0 .. m /\ k <= m
      BY <1>2, <2>1, <2>2
    <2>4. Paid(k)
      OBVIOUS
    <2> DEFINE x == w[k]
               y == w[k + 1]
               level == levels[k + 1]
    <2>5. y = Taken(x, level) /\ x \in Walked /\ level \in Levels /\ level.price > 0
      BY <1>2, <1>3, <2>3
    <2>6. x.remaining <= quantity /\ (x.remaining < quantity => x.cost > 0)
      BY <2>3, <2>4
    <2> HIDE DEF x, y, level
    <2>7. /\ y \in Walked /\ y.remaining <= x.remaining /\ y.cost >= x.cost
          /\ y.remaining < x.remaining => y.cost > 0
      BY <2>5, StepOf
    <2>8. x.remaining \in Nat /\ y.remaining \in Nat /\ x.cost \in Nat /\ y.cost \in Nat
      BY <2>5, <2>7 DEF Walked
    <2>9. y.remaining <= quantity /\ (y.remaining < quantity => y.cost > 0)
      BY <2>6, <2>7, <2>8
    <2> QED BY <2>9 DEF y
  <1>6. P = Nat
    <2> HIDE DEF P
    <2> QED BY <1>4, <1>5, NumberInduction
  <1>7. Paid(m)
    BY <1>2, <1>6
  <1> QED BY <1>2, <1>3, <1>7

\* Levels of which none is beyond a limit are not beyond it together.
LEMMA WalkWithin ==
    ASSUME NEW levels \in Seq(Priced), NEW quantity \in Nat, NEW limit \in Nat,
           \A i \in 1 .. Len(levels) : levels[i].price * quantity * Unit <= limit
    PROVE  Walk(levels, quantity).cost * Unit <= limit
  <1> DEFINE m == Len(levels)
  <1>1. levels \in Seq(Levels)
    BY SeqMonotonic DEF Priced
  <1>2. /\ m \in Nat /\ DOMAIN levels = 1 .. m
        /\ \A i \in 1 .. m : levels[i] \in Levels /\ levels[i].price \in Nat
    BY ElementOfSeq, LenProperties DEF Priced, Levels
  <1>3. PICK w \in [0 .. m -> Walked] :
            /\ w[0] = [remaining |-> quantity, cost |-> 0]
            /\ \A i \in DOMAIN levels : w[i] = Taken(w[i - 1], levels[i])
            /\ Walk(levels, quantity) = w[m]
    BY <1>1, WalkRecurs
  <1>4. \A i \in 1 .. m : levels[i].price * quantity * Unit <= limit
    OBVIOUS
  <1> HIDE DEF m
  <1> DEFINE NotBeyond(x) == /\ x.remaining <= quantity
                             /\ x.cost * quantity * Unit <= (quantity - x.remaining) * limit
                             /\ quantity = 0 => x.cost = 0
             P == {k \in Nat : k <= m => NotBeyond(w[k])}
  <1>5. P \in SUBSET Nat /\ 0 \in P
    <2>1. NotBeyond([remaining |-> quantity, cost |-> 0])
      <3>1. 0 * quantity * Unit = 0 /\ (quantity - quantity) * limit = 0
        BY DepthConstants
      <3> QED BY <3>1
    <2> QED BY <1>3, <2>1
  <1>6. \A k \in P : k + 1 \in P
    <2>1. TAKE k \in P
    <2>2. SUFFICES ASSUME k + 1 <= m
                   PROVE  NotBeyond(w[k + 1])
      OBVIOUS
    <2>3. k \in Nat /\ k + 1 \in 1 .. m /\ (k + 1) - 1 = k /\ k \in 0 .. m /\ k <= m
      BY <1>2, <2>1, <2>2
    <2>4. NotBeyond(w[k])
      BY <2>1, <2>3
    <2> DEFINE x == w[k]
               y == w[k + 1]
               price == levels[k + 1].price
               fill == Least(x.remaining, levels[k + 1].quantity)
    <2>5. /\ x \in Walked /\ levels[k + 1] \in Levels /\ price \in Nat
          /\ y = Taken(x, levels[k + 1]) /\ price * quantity * Unit <= limit
      BY <1>2, <1>3, <1>4, <2>3
    <2>6. /\ y \in Walked /\ fill \in 0 .. x.remaining
          /\ y.remaining = x.remaining - fill /\ y.cost = x.cost + fill * price
      <3> HIDE DEF x, y
      <3> QED BY <2>5, TakenType
    <2>7. /\ x.remaining <= quantity
          /\ x.cost * quantity * Unit <= (quantity - x.remaining) * limit
          /\ quantity = 0 => x.cost = 0
      BY <2>4
    <2>8. /\ x.remaining \in Nat /\ x.cost \in Nat /\ y.remaining \in Nat /\ y.cost \in Nat
          /\ fill \in Nat /\ Unit \in Nat
      BY <2>5, <2>6, DepthConstants DEF Walked
    <2> HIDE DEF x, y, price, fill
    <2> DEFINE r == x.remaining
               c == x.cost
               z == price * quantity * Unit
    <2>9. z \in Nat /\ fill * z <= fill * limit /\ fill * z \in Nat /\ fill * limit \in Nat
      <3>1. price * quantity \in Nat
        BY <2>5, Products
      <3>2. z \in Nat
        BY <2>8, <3>1, Products
      <3> HIDE DEF z
      <3>3. limit * fill >= z * fill
        BY <2>5, <2>8, <3>2, Scaled DEF z
      <3>4. limit * fill \in Nat /\ z * fill \in Nat
        BY <2>8, <3>2, Products
      <3>5. fill * z = z * fill /\ fill * limit = limit * fill
        BY <2>8, <3>2
      <3> QED BY <3>2, <3>3, <3>4, <3>5
    <2>10. y.cost * quantity * Unit <= (quantity - y.remaining) * limit
      <3>1. y.cost * quantity * Unit = c * quantity * Unit + fill * z
        <4>1. (c + fill * price) * quantity * Unit
                  = c * quantity * Unit + (fill * price) * quantity * Unit
          BY <2>5, <2>8
        <4>2. (fill * price) * quantity * Unit = fill * (price * quantity * Unit)
          BY <2>5, <2>8
        <4> QED BY <2>6, <4>1, <4>2
      <3>2. (quantity - y.remaining) * limit = (quantity - r) * limit + fill * limit
        <4>1. quantity - y.remaining = (quantity - r) + fill
          BY <2>6, <2>8
        <4>2. ((quantity - r) + fill) * limit = (quantity - r) * limit + fill * limit
          BY <2>8
        <4> QED BY <4>1, <4>2
      <3>3. c * quantity * Unit \in Nat /\ (quantity - r) * limit \in Nat
        <4>1. quantity - r \in Nat /\ c \in Nat /\ quantity \in Nat
          BY <2>7, <2>8
        <4>2. c * quantity \in Nat
          BY ONLY <4>1, Products
        <4> QED BY <2>8, <4>1, <4>2, Products
      <3>4. c * quantity * Unit <= (quantity - r) * limit
        BY <2>7
      <3> HIDE DEF c, r, z
      <3> QED BY <2>9, <3>1, <3>2, <3>3, <3>4
    <2>11. y.remaining <= quantity
      BY <2>6, <2>7, <2>8
    <2>12. quantity = 0 => y.cost = 0
      <3>1. SUFFICES ASSUME quantity = 0
                     PROVE  y.cost = 0
        OBVIOUS
      <3>2. fill = 0 /\ x.cost = 0
        BY <2>6, <2>7, <2>8, <3>1
      <3>3. 0 * price = 0
        BY <2>5
      <3> QED BY <2>6, <3>2, <3>3
    <2> QED BY <2>10, <2>11, <2>12 DEF y
  <1>7. P = Nat
    <2> HIDE DEF P
    <2> QED BY <1>5, <1>6, NumberInduction
  <1>8. NotBeyond(w[m])
    BY <1>2, <1>7
  <1> DEFINE c == w[m].cost
             r == w[m].remaining
  <1>9. /\ c \in Nat /\ r \in Nat /\ r <= quantity /\ (quantity = 0 => c = 0) /\ Unit \in Nat
        /\ c * quantity * Unit <= (quantity - r) * limit
    BY <1>2, <1>3, <1>8, DepthConstants DEF Walked
  <1> HIDE DEF c, r
  <1>10. c * Unit <= limit
    <2>1. CASE quantity = 0
      <3>1. 0 * Unit = 0
        BY <1>9
      <3> QED BY <1>9, <2>1, <3>1
    <2>2. CASE quantity > 0
      <3>1. quantity >= quantity - r /\ quantity - r \in Nat
        BY <1>9
      <3>2. quantity * limit >= (quantity - r) * limit
        BY <3>1, Scaled
      <3>3. c * quantity * Unit = (c * Unit) * quantity /\ quantity * limit = limit * quantity
        BY <1>9
      <3>4. c * Unit \in Nat /\ (c * Unit) * quantity \in Nat /\ limit * quantity \in Nat
            /\ (quantity - r) * limit \in Nat
        BY <1>9, <3>1, Products
      <3>5. limit * quantity >= (c * Unit) * quantity
        BY <1>9, <3>2, <3>3, <3>4
      <3> QED BY <2>2, <3>4, <3>5, Unscaled
    <2> QED BY <2>1, <2>2
  <1> QED BY <1>3, <1>10 DEF c

-----------------------------------------------------------------------------
(* An order at a simulated exchange *)

\* A walk that ends at the first level beyond the limit is a walk over the levels
\* before it: of a purchase, they cost no more than the limit.
LEMMA FilledWithinOf ==
    ASSUME NEW levels \in Seq(Priced), NEW order, order.quantity \in Nat
    PROVE  LET walk == FilledWithin(order, levels)
               all == Walk(levels, order.quantity)
           IN  /\ walk \in Walked /\ walk.remaining <= order.quantity
               /\ walk.cost <= all.cost
               /\ walk.remaining = 0 => walk.cost = all.cost
               /\ walk.remaining < order.quantity => walk.cost > 0
               /\ order.side = "buy" /\ order.limit \in Nat => walk.cost * Unit <= order.limit
  <1> DEFINE I == {i \in 1 .. Len(levels) : BeyondLimit(order, levels[i])}
             some == Before(levels, IF I # {} THEN Min(I) ELSE 0)
  <1>1. FilledWithin(order, levels) = Walk(some, order.quantity)
    BY DEF FilledWithin, SelectInSeq
  <1>2. I \in SUBSET (1 .. Len(levels))
    OBVIOUS
  <1> HIDE DEF I
  <1>3. PICK n \in 0 .. Len(levels) :
            /\ some \in Seq(Priced) /\ Len(some) = n
            /\ \A i \in 1 .. n : some[i] = levels[i] /\ i \notin I
    <2>1. levels \in Seq(Priced)
      OBVIOUS
    <2> QED BY ONLY <1>2, <2>1, BeforeOf
  <1> HIDE DEF some
  <1>4. StartsWith(levels, some)
    <2>1. Len(levels) \in Nat
      BY LenProperties
    <2> QED BY <1>3, <2>1 DEF StartsWith
  <1>5. levels \in Seq(Levels) /\ some \in Seq(Levels)
    BY <1>3, SeqMonotonic DEF Priced
  <1>6. ASSUME order.side = "buy", order.limit \in Nat
        PROVE  Walk(some, order.quantity).cost * Unit <= order.limit
    <2>1. ASSUME NEW i \in 1 .. Len(some)
          PROVE  some[i].price * order.quantity * Unit <= order.limit
      <3>1. i \in 1 .. Len(levels) /\ some[i] = levels[i] /\ i \notin I
        <4>1. Len(levels) \in Nat
          BY LenProperties
        <4> QED BY <1>3, <2>1, <4>1
      <3>2. ~(some[i].price * order.quantity * Unit > order.limit)
        BY <1>6, <3>1 DEF I, BeyondLimit
      <3>3. some[i].price \in Nat /\ Unit \in Nat
        BY <1>3, ElementOfSeq, DepthConstants DEF Priced, Levels
      <3>4. some[i].price * order.quantity \in Nat
        BY <3>3, Products
      <3>5. some[i].price * order.quantity * Unit \in Nat
        BY <3>3, <3>4, Products
      <3> QED BY <1>6, <3>2, <3>5
    <2> QED BY <1>3, <1>6, <2>1, WalkWithin
  <1> QED BY <1>1, <1>3, <1>4, <1>5, <1>6, WalkOfSome, WalkIsPaid

\* What an order is filled from.
FillsFrom(e, side) == IF side = "buy" THEN current_book(e).asks ELSE current_book(e).bids

\* A result of an order: what was filled was there, was paid for, and had been
\* covered by the balance at the limit; a purchase costs no more than that.
Placed(e, order, result) ==
    /\ result.quantity \in 0 .. order.quantity /\ result.cost \in Nat
    /\ result.fee = result.cost * SimFee[e]
    /\ result.cost <= Walk(FillsFrom(e, order.side), order.quantity).cost
    /\ result.status = "FILLED" =>
           /\ result.quantity = order.quantity /\ result.cost > 0
           /\ result.cost = Walk(FillsFrom(e, order.side), order.quantity).cost
    /\ order.side = "buy" /\ order.limit \in Nat => result.cost * Unit <= order.limit
    /\ \/ result.quantity = 0 /\ result.cost = 0
       \/ FillsFrom(e, order.side) # <<>> /\ ~Insufficient(e, order)

\* What place_limit_order answers.
LEMMA PlacedOf ==
    ASSUME NEW e \in SimExchanges, NEW order, order.quantity \in Nat,
           FillsFrom(e, order.side) \in Seq(Priced)
    PROVE  Placed(e, order, place_limit_order(e, order))
  <1> DEFINE levels == FillsFrom(e, order.side)
             walk == FilledWithin(order, levels)
             all == Walk(levels, order.quantity)
             filled == order.quantity - walk.remaining
             result == place_limit_order(e, order)
  <1>1. /\ walk \in Walked /\ walk.remaining <= order.quantity /\ walk.cost <= all.cost
        /\ walk.remaining = 0 => walk.cost = all.cost
        /\ walk.remaining < order.quantity => walk.cost > 0
        /\ order.side = "buy" /\ order.limit \in Nat => walk.cost * Unit <= order.limit
    BY FilledWithinOf
  <1>2. all \in Walked
    BY WalkIsPaid
  <1>3. SimFee[e] \in Nat
    BY BacktestConstants DEF SimExchanges
  <1>4. result = IF levels = <<>> \/ Insufficient(e, order)
                 THEN [status |-> "REJECTED", quantity |-> 0, cost |-> 0, fee |-> 0]
                 ELSE [status |-> IF filled = 0 THEN "OPEN"
                                  ELSE IF walk.remaining = 0 THEN "FILLED"
                                       ELSE "PARTIALLY_FILLED",
                       quantity |-> filled, cost |-> walk.cost,
                       fee |-> walk.cost * SimFee[e]]
    BY DEF place_limit_order, FillsFrom
  <1> HIDE DEF walk, all, result
  <1>5. /\ walk.remaining \in Nat /\ walk.cost \in Nat /\ filled \in 0 .. order.quantity
        /\ all.cost \in Nat
    BY <1>1, <1>2 DEF Walked
  <1>6. CASE levels = <<>> \/ Insufficient(e, order)
    <2>1. /\ result.quantity = 0 /\ result.cost = 0 /\ result.fee = 0
          /\ result.status # "FILLED"
      BY <1>4, <1>6
    <2>2. 0 * SimFee[e] = 0 /\ 0 * Unit = 0
      BY <1>3, DepthConstants
    <2> QED BY <1>5, <2>1, <2>2 DEF Placed, all, result
  <1>7. CASE ~(levels = <<>> \/ Insufficient(e, order))
    <2>1. /\ result.quantity = filled /\ result.cost = walk.cost
          /\ result.fee = walk.cost * SimFee[e]
          /\ result.status = "FILLED" => filled # 0 /\ walk.remaining = 0
      BY <1>4, <1>7
    <2>2. ASSUME result.status = "FILLED"
          PROVE  filled = order.quantity /\ walk.cost > 0 /\ walk.cost = all.cost
      BY <1>1, <1>5, <2>1, <2>2
    <2> QED BY <1>1, <1>5, <1>7, <2>1, <2>2 DEF Placed, all, result
  <1> QED BY <1>6, <1>7 DEF result

-----------------------------------------------------------------------------
(* The data and the books *)

\* An exchange's data.
LEMMA HistoryOf ==
    ASSUME NEW h \in Histories
    PROVE  /\ h \in Seq(Rows) /\ Len(h) \in Nat /\ DOMAIN h = 1 .. Len(h)
           /\ \A i \in DOMAIN h : h[i] \in Rows /\ h[i].time \in 1 .. Times
           /\ \A i, j \in DOMAIN h : i < j => h[i].time < h[j].time
  <1>1. PICK n \in 0 .. Times : h \in [1 .. n -> Rows]
    BY DEF Histories
  <1>2. h \in Seq(Rows)
    BY <1>1, SeqDef, BacktestConstants
  <1>3. Len(h) \in Nat /\ DOMAIN h = 1 .. Len(h) /\ h \in [1 .. Len(h) -> Rows]
    BY <1>2, LenProperties
  <1>4. \A i \in DOMAIN h : h[i] \in Rows /\ h[i].time \in 1 .. Times
    BY <1>3, RowOf
  <1> QED BY <1>2, <1>3, <1>4 DEF Histories

\* What an exchange shows has levels with a price, if any.
LEMMA CurrentBookOf ==
    ASSUME BacktestTypeOK, IndexInv, NEW e \in SimExchanges
    PROVE  /\ current_book(e).bids \in Seq(Priced) /\ current_book(e).asks \in Seq(Priced)
           /\ ~(current_book(e).bids = <<>> /\ current_book(e).asks = <<>>) =>
                  current_book(e) \in Rows
  <1>1. snapshots[e] \in Histories
    BY DEF BacktestTypeOK
  <1>2. CASE snapshots[e] = <<>>
    <2>1. current_book(e).bids = <<>> /\ current_book(e).asks = <<>>
      BY <1>2 DEF current_book
    <2> QED BY <2>1, EmptySeq
  <1>3. CASE snapshots[e] # <<>>
    <2>1. current_book(e) \in Rows
      BY <1>1, <1>3, HistoryOf DEF IndexInv, current_book
    <2> QED BY <2>1, RowOf
  <1> QED BY <1>2, <1>3

\* The sides of the aggregator's books, and of what an order is filled from.
LEMMA SidesOf ==
    ASSUME BacktestTypeOK, IndexInv, NEW e \in SimExchanges
    PROVE  /\ \A side : FillsFrom(e, side) \in Seq(Priced)
           /\ books[e] # None => /\ books[e].bids \in Seq(Priced)
                                 /\ books[e].asks \in Seq(Priced)
  <1>1. \A side : FillsFrom(e, side) \in Seq(Priced)
    BY CurrentBookOf DEF FillsFrom
  <1>2. books[e] \in [bids : Seq(Priced), asks : Seq(Priced)] \cup {None}
    BY DEF BacktestTypeOK
  <1> QED BY <1>1, <1>2

LEMMA SimExchangesFinite ==
    /\ IsFiniteSet(SimExchanges) /\ Cardinality(SimExchanges) = NExchanges
  BY FS_Interval, BacktestConstants DEF SimExchanges
-----------------------------------------------------------------------------
(* The report *)

\* The metrics after so many of them.
Winning(pnls, i) ==
    LET made == SumFunctionOnSet(pnls, 1 .. i)
    IN  [total |-> i, winning |-> i, cumulative |-> made, peak |-> made, drawdown |-> 0]

\* One more of them.
LEMMA AfterWin ==
    ASSUME NEW pnls \in Seq(Int), NEW i \in 1 .. Len(pnls), pnls[i] > 0
    PROVE  AfterTrade(Winning(pnls, i - 1), pnls[i]) = Winning(pnls, i)
  <1> DEFINE made == SumFunctionOnSet(pnls, 1 .. i - 1)
  <1>1. Len(pnls) \in Nat /\ \A j \in 1 .. Len(pnls) : pnls[j] \in Int
    BY ElementOfSeq, LenProperties
  <1>2. i \in Nat /\ 1 .. i = (1 .. i - 1) \cup {i} /\ i \notin 1 .. i - 1 /\ pnls[i] \in Int
    BY <1>1
  <1>3. IsFiniteSet(1 .. i - 1) /\ \A j \in 1 .. i : pnls[j] \in Int
    <2>1. 1 \in Int /\ i - 1 \in Int
      BY <1>2
    <2>2. IsFiniteSet(1 .. i - 1)
      BY <2>1, FS_Interval
    <2>3. \A j \in 1 .. i : j \in 1 .. Len(pnls)
      BY <1>1, <1>2
    <2> QED BY <1>1, <2>2, <2>3
  <1>4. SumFunctionOnSet(pnls, 1 .. i) = pnls[i] + made
    BY <1>2, <1>3, SumWith
  <1>5. made \in Int
    BY <1>2, <1>3, SumType
  <1> HIDE DEF made
  <1> DEFINE m == Winning(pnls, i - 1)
  <1>6. m = [total |-> i - 1, winning |-> i - 1, cumulative |-> made, peak |-> made,
             drawdown |-> 0]
    BY DEF Winning, made
  <1> HIDE DEF m
  <1> DEFINE p == pnls[i]
             c == p + made
  <1>7. p \in Int /\ p > 0 /\ c \in Int /\ made + p = c /\ c > made
    BY <1>2, <1>5
  <1> HIDE DEF p, c
  <1>8. /\ m.total + 1 = i /\ m.winning + (IF p > 0 THEN 1 ELSE 0) = i
        /\ m.cumulative + p = c /\ (IF c > m.peak THEN c ELSE m.peak) = c
        /\ (IF c - c > m.drawdown THEN c - c ELSE m.drawdown) = 0
    BY <1>2, <1>5, <1>6, <1>7
  <1>9. AfterTrade(m, p) = [total |-> i, winning |-> i, cumulative |-> c, peak |-> c,
                            drawdown |-> 0]
    BY <1>8 DEF AfterTrade
  <1> QED BY <1>4, <1>9 DEF Winning, m, p, c

\* compute_metrics takes one step for each trade.
LEMMA MetricsRecur ==
    ASSUME NEW pnls \in Seq(Int)
    PROVE  \E f : /\ f[0] = NoMetrics /\ compute_metrics(pnls) = f[Len(pnls)]
                  /\ \A i \in 1 .. Len(pnls) : f[i] = AfterTrade(f[i - 1], pnls[i])
  <1> DEFINE n == Len(pnls)
             M == [total : Int, winning : Int, cumulative : Int, peak : Int, drawdown : Int]
             step == [k \in Nat |-> [x \in M |->
                          IF k + 1 \in 1 .. n THEN AfterTrade(x, pnls[k + 1]) ELSE x]]
             Reports(f) == f = [i \in 0 .. n |-> IF i = 0 THEN NoMetrics
                                                 ELSE AfterTrade(f[i - 1], pnls[i])]
             metrics == CHOOSE f : Reports(f)
  <1>1. n \in Nat /\ \A i \in 1 .. n : pnls[i] \in Int
    BY ElementOfSeq, LenProperties
  <1>2. \A x \in M : \A p \in Int : AfterTrade(x, p) \in M
    BY DEF AfterTrade
  <1>3. NoMetrics \in M
    BY DEF NoMetrics
  <1>4. compute_metrics(pnls) = metrics[n]
    BY DEF compute_metrics
  <1> HIDE DEF n, M
  <1>5. step \in [Nat -> [M -> M]]
    BY <1>1, <1>2
  <1>6. PICK f \in [Nat -> M] : Follows(f, NoMetrics, step)
    <2> HIDE DEF step
    <2> QED BY <1>3, <1>5, NumberRecursion
  <1> DEFINE g == [i \in 0 .. n |-> f[i]]
  <1>7. \A i \in 1 .. n : f[i] = AfterTrade(f[i - 1], pnls[i])
    <2> TAKE i \in 1 .. n
    <2>1. i - 1 \in Nat /\ (i - 1) + 1 = i /\ f[i - 1] \in M
      BY <1>1
    <2>2. f[i] = step[i - 1][f[i - 1]]
      BY <1>6, <2>1 DEF Follows
    <2> QED BY <2>1, <2>2
  <1>8. Reports(g)
    <2>1. \A i \in 0 .. n : f[i] = IF i = 0 THEN NoMetrics ELSE AfterTrade(g[i - 1], pnls[i])
      <3> TAKE i \in 0 .. n
      <3>1. CASE i = 0
        BY <1>6, <3>1 DEF Follows
      <3>2. CASE i # 0
        <4>1. i \in 1 .. n /\ i - 1 \in 0 .. n
          BY <1>1, <3>2
        <4>2. g[i - 1] = f[i - 1]
          BY <4>1
        <4> HIDE DEF g
        <4> QED BY <1>7, <3>2, <4>1, <4>2
      <3> QED BY <3>1, <3>2
    <2> HIDE DEF step
    <2> QED BY <2>1
  <1>9. Reports(metrics)
    <2> HIDE DEF Reports, g
    <2> QED BY <1>8
  <1> HIDE DEF metrics
  <1>10. metrics[0] = NoMetrics
         /\ \A i \in 1 .. n : metrics[i] = AfterTrade(metrics[i - 1], pnls[i])
    <2>1. \A i \in 0 .. n : metrics[i] = IF i = 0 THEN NoMetrics
                                          ELSE AfterTrade(metrics[i - 1], pnls[i])
      BY <1>9, Zenon
    <2>2. 0 \in 0 .. n /\ \A i \in 1 .. n : i \in 0 .. n /\ i # 0
      BY <1>1
    <2> QED BY <2>1, <2>2, Zenon
  <1> QED BY <1>4, <1>10 DEF n

\* The report counts every trade and adds up their profits.
LEMMA MetricsOf ==
    ASSUME NEW pnls \in Seq(Int)
    PROVE  LET m == compute_metrics(pnls)
           IN  m.total = Len(pnls) /\ m.cumulative = SumFunction(pnls)
  <1> DEFINE n == Len(pnls)
             Made(k) == SumFunctionOnSet(pnls, 1 .. k)
  <1>1. n \in Nat /\ DOMAIN pnls = 1 .. n /\ \A i \in 1 .. n : pnls[i] \in Int
    BY ElementOfSeq, LenProperties
  <1>2. PICK f : /\ f[0] = NoMetrics /\ compute_metrics(pnls) = f[n]
                 /\ \A i \in 1 .. n : f[i] = AfterTrade(f[i - 1], pnls[i])
    BY MetricsRecur
  <1> HIDE DEF n
  <1> DEFINE P == {k \in Nat : k <= n => f[k].total = k /\ f[k].cumulative = Made(k)}
  <1>3. P \in SUBSET Nat /\ 0 \in P
    <2>1. 1 .. 0 = {}
      OBVIOUS
    <2>2. Made(0) = 0
      BY <2>1, SumOfNone
    <2> QED BY <1>2, <2>2 DEF NoMetrics
  <1>4. \A k \in P : k + 1 \in P
    <2>1. TAKE k \in P
    <2>2. SUFFICES ASSUME k + 1 <= n
                   PROVE  f[k + 1].total = k + 1 /\ f[k + 1].cumulative = Made(k + 1)
      OBVIOUS
    <2>3. /\ k \in Nat /\ k + 1 \in 1 .. n /\ (k + 1) - 1 = k /\ k <= n
          /\ 1 .. k + 1 = (1 .. k) \cup {k + 1} /\ k + 1 \notin 1 .. k
          /\ \A j \in 1 .. k + 1 : j \in 1 .. n
      BY <1>1, <2>1, <2>2
    <2>4. f[k].total = k /\ f[k].cumulative = Made(k)
      BY <2>3
    <2>5. f[k + 1] = AfterTrade(f[k], pnls[k + 1])
      BY <1>2, <2>3
    <2>6. IsFiniteSet(1 .. k) /\ \A j \in (1 .. k) \cup {k + 1} : pnls[j] \in Int
      <3>1. 1 \in Int /\ k \in Int
        BY <2>3
      <3>2. IsFiniteSet(1 .. k)
        BY <3>1, FS_Interval
      <3> QED BY <1>1, <2>3, <3>2
    <2>7. SumFunctionOnSet(pnls, (1 .. k) \cup {k + 1}) = pnls[k + 1] + Made(k)
      BY <2>3, <2>6, SumWith
    <2>8. Made(k) \in Int /\ pnls[k + 1] \in Int
      BY <2>6, SumType
    <2> HIDE DEF Made
    <2>9. f[k + 1].total = k + 1 /\ f[k + 1].cumulative = Made(k) + pnls[k + 1]
      BY <2>4, <2>5 DEF AfterTrade
    <2>10. Made(k + 1) = pnls[k + 1] + Made(k)
      BY <2>3, <2>7, Zenon DEF Made
    <2> QED BY <2>8, <2>9, <2>10
  <1>5. P = Nat
    <2> HIDE DEF P
    <2> QED BY <1>3, <1>4, NumberInduction
  <1>6. f[n].total = n /\ f[n].cumulative = Made(n)
    BY <1>1, <1>5
  <1>7. SumFunction(pnls) = SumFunctionOnSet(pnls, 1 .. n)
    BY <1>1, SumIsOnDomain
  <1> QED BY <1>2, <1>6, <1>7 DEF n

\* If they all made something, it counts them all as wins, and no drawdown.
LEMMA WinsOf ==
    ASSUME NEW pnls \in Seq(Int), \A i \in DOMAIN pnls : pnls[i] > 0
    PROVE  LET m == compute_metrics(pnls)
           IN  m.winning = m.total /\ m.drawdown = 0
  <1> DEFINE n == Len(pnls)
  <1>1. n \in Nat /\ DOMAIN pnls = 1 .. n
    BY LenProperties
  <1>2. Winning(pnls, 0) = NoMetrics
    <2>1. 1 .. 0 = {}
      OBVIOUS
    <2> QED BY <2>1, SumOfNone DEF Winning, NoMetrics
  <1>3. \A i \in 1 .. n : AfterTrade(Winning(pnls, i - 1), pnls[i]) = Winning(pnls, i)
    BY <1>1, AfterWin
  <1>4. PICK f : /\ f[0] = NoMetrics /\ compute_metrics(pnls) = f[n]
                 /\ \A i \in 1 .. n : f[i] = AfterTrade(f[i - 1], pnls[i])
    BY MetricsRecur
  <1> HIDE DEF n
  <1>5. f[n] = Winning(pnls, n)
    <2> DEFINE P == {k \in Nat : k <= n => f[k] = Winning(pnls, k)}
    <2>1. P \in SUBSET Nat /\ 0 \in P
      BY <1>2, <1>4
    <2>2. \A k \in P : k + 1 \in P
      <3>1. TAKE k \in P
      <3>2. SUFFICES ASSUME k + 1 <= n
                     PROVE  f[k + 1] = Winning(pnls, k + 1)
        OBVIOUS
      <3>3. k \in Nat /\ k + 1 \in 1 .. n /\ (k + 1) - 1 = k /\ f[k] = Winning(pnls, k)
        BY <1>1, <3>1, <3>2
      <3>4. f[k + 1] = AfterTrade(f[k], pnls[k + 1])
        BY <1>4, <3>3
      <3> QED BY <1>3, <3>3, <3>4
    <2> HIDE DEF P
    <2>3. P = Nat
      BY <2>1, <2>2, NumberInduction
    <2> QED BY <1>1, <2>3 DEF P
  <1> QED BY <1>4, <1>5 DEF Winning
-----------------------------------------------------------------------------
(* A trade *)

BuyOrder(d) ==
    LET quantity == Quantity(books[d[1]])
    IN  Order("buy", quantity, effective_buy_price(books[d[1]], quantity).cost)

SellOrder(d) ==
    LET quantity == Quantity(books[d[1]])
    IN  Order("sell", quantity, effective_sell_price(books[d[2]], quantity).cost)

Bought(d) == place_limit_order(d[1], BuyOrder(d))
Sold(d) == place_limit_order(d[2], SellOrder(d))

\* What the two books promised; what became of an order; and that it cost no more
\* or brought no more than promised, and no less if it was filled.
Promised(d, quantity, cost, proceeds) ==
    /\ quantity \in Nat /\ cost \in Nat /\ proceeds \in Nat
    /\ Clears(cost, proceeds, SimFee[d[1]] + SimFee[d[2]])

Outcome(e, result, quantity) ==
    /\ result.quantity \in 0 .. quantity /\ result.cost \in Nat
    /\ result.fee = result.cost * SimFee[e]
    /\ result.status = "FILLED" => result.quantity = quantity /\ result.cost > 0

AsPromised(result, total) ==
    result.cost <= total /\ (result.status = "FILLED" => result.cost = total)

DirectionOf(d) ==
    /\ d[1] \in SimExchanges /\ d[2] \in SimExchanges /\ d[1] # d[2]
    /\ SimFee[d[1]] \in Nat /\ SimFee[d[2]] \in Nat

\* A quantity is not negative.
LEMMA Quotient == \A x, y \in Nat : y > 0 => x \div y \in Nat
  OBVIOUS

\* The result of an order; if the exchange fills it from the levels that the engine
\* had walked over, or has none, it is as promised.
LEMMA OutcomeOf ==
    ASSUME NEW e \in SimExchanges, NEW order, NEW result, Placed(e, order, result),
           order.quantity \in Nat, NEW levels \in Seq(Priced)
    PROVE  /\ Outcome(e, result, order.quantity)
           /\ FillsFrom(e, order.side) = levels \/ FillsFrom(e, order.side) = <<>> =>
                  AsPromised(result, Walk(levels, order.quantity).cost)
           /\ result.quantity > 0 \/ result.cost > 0 => ~Insufficient(e, order)
  <1> DEFINE total == Walk(levels, order.quantity).cost
  <1>1. total \in Nat
    BY WalkIsPaid DEF Walked
  <1>2. Outcome(e, result, order.quantity)
    BY DEF Placed, Outcome
  <1>3. ASSUME FillsFrom(e, order.side) = levels
        PROVE  AsPromised(result, total)
    BY <1>3 DEF Placed, AsPromised
  <1>4. ASSUME FillsFrom(e, order.side) = <<>>
        PROVE  AsPromised(result, total)
    <2>1. result.quantity = 0 /\ result.cost = 0
      BY <1>4 DEF Placed
    <2>2. result.status # "FILLED"
      BY <2>1 DEF Placed
    <2> HIDE DEF total
    <2> QED BY <1>1, <2>1, <2>2 DEF AsPromised
  <1>5. result.quantity > 0 \/ result.cost > 0 => ~Insufficient(e, order)
    BY DEF Placed
  <1> QED BY <1>2, <1>3, <1>4, <1>5

LEMMA DirectionsOf ==
    ASSUME BacktestTypeOK, NEW d \in directions
    PROVE  d \in Directions /\ DirectionOf(d)
  <1>1. d \in Directions
    BY DEF BacktestTypeOK
  <1>2. d[1] \in SimExchanges /\ d[2] \in SimExchanges /\ d[1] # d[2]
    BY <1>1 DEF Directions
  <1>3. \A e \in SimExchanges : SimFee[e] \in Nat
    BY BacktestConstants DEF SimExchanges
  <1> QED BY <1>1, <1>2, <1>3 DEF DirectionOf

\* The two orders of a trade and their outcomes.
LEMMA TradeOf ==
    ASSUME BacktestTypeOK, IndexInv, BooksInv, place = "scan", NEW d \in directions,
           Opportunity(d)
    PROVE  \E quantity, cost, proceeds :
               /\ Promised(d, quantity, cost, proceeds)
               /\ BuyOrder(d).limit = cost * (Unit + Slack)
               /\ SellOrder(d).quantity = quantity
               /\ Outcome(d[1], Bought(d), quantity) /\ Outcome(d[2], Sold(d), quantity)
               /\ AsksInOrder(current_book(d[1])) => AsPromised(Bought(d), cost)
               /\ BidsInOrder(current_book(d[2])) => AsPromised(Sold(d), proceeds)
               /\ Bought(d).cost * Unit <= cost * (Unit + Slack)
               /\ Bought(d).cost > 0 => quote[d[1]] >= cost * (Unit + Slack)
               /\ Sold(d).quantity > 0 => base[d[2]] >= quantity
  <1> DEFINE asks == books[d[1]].asks
             bids == books[d[2]].bids
             quantity == Quantity(books[d[1]])
             cost == Walk(asks, quantity).cost
             proceeds == Walk(bids, quantity).cost
             buy == BuyOrder(d)
             sell == SellOrder(d)
  <1>1. DirectionOf(d) /\ books[d[1]] # None /\ books[d[2]] # None
    BY DirectionsOf DEF BooksInv
  <1>2. d[1] \in SimExchanges /\ d[2] \in SimExchanges
    BY <1>1 DEF DirectionOf
  <1>3. asks \in Seq(Priced) /\ bids \in Seq(Priced)
    BY <1>1, <1>2, SidesOf
  <1>4. asks # <<>> /\ Clears(cost, proceeds, SimFee[d[1]] + SimFee[d[2]])
    BY DEF Opportunity, effective_buy_price, effective_sell_price
  <1>5. quantity \in Nat
    <2>1. Head(asks) \in Priced
      BY <1>3, <1>4, HeadTailProperties
    <2>2. Head(asks).price \in Nat /\ Head(asks).price > 0
      BY <2>1 DEF Priced, Levels
    <2> QED BY <2>2, Quotient, BacktestConstants DEF Quantity
  <1> HIDE DEF quantity
  <1>6. cost \in Nat /\ proceeds \in Nat
    BY <1>3, <1>5, WalkIsPaid DEF Walked
  <1>7. /\ buy = [side |-> "buy", quantity |-> quantity, limit |-> cost * (Unit + Slack)]
        /\ sell = [side |-> "sell", quantity |-> quantity,
                   limit |-> proceeds * (Unit - Slack)]
    BY DEF BuyOrder, SellOrder, Order, quantity, effective_buy_price, effective_sell_price
  <1>8. /\ AsksInOrder(current_book(d[1])) =>
               FillsFrom(d[1], "buy") = asks \/ FillsFrom(d[1], "buy") = <<>>
        /\ BidsInOrder(current_book(d[2])) =>
               FillsFrom(d[2], "sell") = bids \/ FillsFrom(d[2], "sell") = <<>>
    <2>1. ASSUME NEW e \in SimExchanges, books[e] # None
          PROVE  \/ /\ AsksInOrder(current_book(e)) => books[e].asks = current_book(e).asks
                    /\ BidsInOrder(current_book(e)) => books[e].bids = current_book(e).bids
                 \/ current_book(e).bids = <<>> /\ current_book(e).asks = <<>>
      <3>1. current_book(e).bids \in Seq(Priced) /\ current_book(e).asks \in Seq(Priced)
        BY CurrentBookOf
      <3>2. \/ books[e] = BookOf(current_book(e))
            \/ current_book(e).bids = <<>> /\ current_book(e).asks = <<>>
        BY <2>1 DEF BooksInv
      <3> QED BY <3>1, <3>2, BookOfRow
    <2>2. FillsFrom(d[1], "buy") = current_book(d[1]).asks
          /\ FillsFrom(d[2], "sell") = current_book(d[2]).bids
      BY DEF FillsFrom
    <2> QED BY <1>1, <1>2, <2>1, <2>2
  <1> HIDE DEF cost, proceeds, buy, sell
  <1>9. buy.quantity = quantity /\ buy.side = "buy" /\ buy.limit = cost * (Unit + Slack)
        /\ sell.quantity = quantity /\ sell.side = "sell"
    BY <1>7
  <1>10. Placed(d[1], buy, Bought(d)) /\ Placed(d[2], sell, Sold(d))
    BY <1>2, <1>5, <1>9, SidesOf, PlacedOf DEF Bought, Sold, buy, sell
  <1> HIDE DEF asks, bids
  <1>11. /\ Outcome(d[1], Bought(d), quantity)
         /\ AsksInOrder(current_book(d[1])) => AsPromised(Bought(d), cost)
         /\ Bought(d).cost > 0 => ~Insufficient(d[1], buy)
    BY <1>2, <1>3, <1>5, <1>8, <1>9, <1>10, OutcomeOf DEF cost
  <1>12. /\ Outcome(d[2], Sold(d), quantity)
         /\ BidsInOrder(current_book(d[2])) => AsPromised(Sold(d), proceeds)
         /\ Sold(d).quantity > 0 => ~Insufficient(d[2], sell)
    BY <1>2, <1>3, <1>5, <1>8, <1>9, <1>10, OutcomeOf DEF proceeds
  <1>13. /\ ~Insufficient(d[1], buy) => quote[d[1]] >= cost * (Unit + Slack)
         /\ ~Insufficient(d[2], sell) => base[d[2]] >= quantity
    <2>1. quote[d[1]] \in Int /\ base[d[2]] \in Int
      BY <1>2 DEF BacktestTypeOK
    <2>2. cost * (Unit + Slack) \in Nat
      BY <1>6, Products, DepthConstants, BacktestConstants
    <2>3. Insufficient(d[1], buy) <=> quote[d[1]] < buy.limit
      BY <1>9 DEF Insufficient
    <2>4. Insufficient(d[2], sell) <=> base[d[2]] < sell.quantity
      BY <1>9 DEF Insufficient
    <2> QED BY <1>5, <1>9, <2>1, <2>2, <2>3, <2>4
  <1>14. Promised(d, quantity, cost, proceeds)
    BY <1>4, <1>5, <1>6 DEF Promised, cost, proceeds
  <1>15. Bought(d).cost * Unit <= cost * (Unit + Slack)
    <2>1. cost * (Unit + Slack) \in Nat
      BY <1>6, Products, DepthConstants, BacktestConstants
    <2> QED BY <1>9, <1>10, <2>1 DEF Placed
  <1> QED BY <1>9, <1>11, <1>12, <1>13, <1>14, <1>15 DEF buy, sell

\* A trade that clears the fees at the books' prices makes something, if the least
\* profit makes up for the fee of the sale.
LEMMA WinOf ==
    ASSUME NEW cost \in Nat, cost > 0, NEW proceeds \in Nat, NEW f \in Nat, NEW g \in Nat,
           Clears(cost, proceeds, f + g), MinNet * (Unit - g) > (f + g) * g
    PROVE  (proceeds - cost) * Unit - cost * f - proceeds * g > 0
  <1> DEFINE r == f + g
             u == Unit - g
             gain == proceeds - cost
  <1>1. Unit \in Nat /\ Unit > 0 /\ MinNet \in Nat /\ r \in Nat /\ u \in Int /\ gain \in Int
    BY DepthConstants
  <1>2. gain * Unit - r * cost >= MinNet * cost
    BY DEF Clears, NetOf
  <1>3. MinNet * u > r * g
    OBVIOUS
  <1>4. Unit = u + g /\ proceeds = cost + gain /\ r = f + g
    BY <1>1
  <1> HIDE DEF r, u, gain
  <1>5. r * g \in Nat /\ r * cost \in Nat /\ MinNet * cost \in Nat /\ r * Unit \in Nat
        /\ (r * Unit) * cost \in Nat /\ (r * cost) * Unit \in Nat
    BY <1>1, Products
  <1>6. u > 0
    <2>1. SUFFICES ASSUME u <= 0
                   PROVE  FALSE
      BY <1>1
    <2>2. MinNet * u <= 0
      BY <1>1, <2>1
    <2> QED BY <1>1, <1>3, <1>5, <2>2
  <1>7. gain >= 0
    <2>1. SUFFICES ASSUME gain <= -1
                   PROVE  FALSE
      BY <1>1
    <2>2. gain * Unit <= -1
      BY <1>1, <2>1
    <2> QED BY <1>1, <1>2, <1>5, <2>2
  <1>8. gain \in Nat /\ u \in Nat /\ gain * Unit \in Nat /\ gain * u \in Nat
    BY <1>1, <1>6, <1>7, Products
  <1> DEFINE k == r + MinNet
  <1>9. k \in Nat /\ k * cost \in Nat /\ k * u \in Nat /\ k * cost = r * cost + MinNet * cost
        /\ k * u = r * u + MinNet * u
    BY <1>1, <1>8, Products
  <1>10. gain * Unit >= k * cost
    BY <1>2, <1>5, <1>8, <1>9
  <1> HIDE DEF k
  <1>11. (gain * Unit) * u >= (k * cost) * u
    BY <1>8, <1>9, <1>10, Scaled
  <1>12. k * u > r * Unit
    <2>1. r * Unit = r * u + r * g /\ r * u \in Nat /\ MinNet * u \in Nat
      BY <1>1, <1>4, <1>8, Products
    <2> QED BY <1>3, <1>5, <1>9, <2>1
  <1>13. (k * u) * cost > (r * Unit) * cost
    <2>1. k * u >= r * Unit + 1 /\ r * Unit + 1 \in Nat
      BY <1>5, <1>9, <1>12
    <2>2. (k * u) * cost >= (r * Unit + 1) * cost
      BY <1>9, <2>1, Scaled
    <2>3. (r * Unit + 1) * cost = (r * Unit) * cost + cost
      BY <1>5
    <2>4. (k * u) * cost \in Nat
      BY <1>9, Products
    <2> QED BY <1>5, <2>2, <2>3, <2>4
  <1>14. (gain * u) * Unit > (r * cost) * Unit
    <2>1. (gain * Unit) * u = (gain * u) * Unit
      BY <1>1, <1>8
    <2>2. (k * cost) * u = (k * u) * cost /\ (r * Unit) * cost = (r * cost) * Unit
      BY <1>1, <1>8, <1>9
    <2>3. (gain * u) * Unit \in Nat /\ (k * u) * cost \in Nat
      BY <1>1, <1>8, <1>9, Products
    <2> QED BY <1>5, <1>11, <1>13, <2>1, <2>2, <2>3
  <1>15. gain * u > r * cost
    <2>1. SUFFICES ASSUME gain * u <= r * cost
                   PROVE  FALSE
      BY <1>5, <1>8
    <2>2. (r * cost) * Unit >= (gain * u) * Unit
      BY <1>1, <1>5, <1>8, <2>1, Scaled
    <2>3. (gain * u) * Unit \in Nat
      BY <1>1, <1>8, Products
    <2> QED BY <1>5, <1>14, <2>2, <2>3
  <1>16. (proceeds - cost) * Unit = gain * u + gain * g /\ r * cost = cost * f + cost * g
         /\ proceeds * g = cost * g + gain * g
    <2>1. proceeds - cost = gain
      BY <1>4, <1>8
    <2>2. gain * Unit = gain * u + gain * g
      BY <1>1, <1>4, <1>8
    <2>3. r * cost = cost * f + cost * g
      BY <1>4
    <2>4. proceeds * g = cost * g + gain * g
      BY <1>4, <1>8
    <2> QED BY <2>1, <2>2, <2>3, <2>4
  <1>17. gain * g \in Nat /\ cost * g \in Nat /\ cost * f \in Nat /\ proceeds * g \in Nat
    BY <1>8, Products
  <1> QED BY <1>5, <1>8, <1>15, <1>16, <1>17

\* What one exchange pays and the other gets changes the sum of both.
LEMMA SumOfBoth ==
    ASSUME NEW f \in [SimExchanges -> Int], NEW g \in [SimExchanges -> Int],
           NEW x \in SimExchanges, NEW y \in SimExchanges, x # y,
           \A e \in SimExchanges \ {x, y} : g[e] = f[e]
    PROVE  SumFunction(g) = SumFunction(f) + (g[x] - f[x]) + (g[y] - f[y])
  <1> DEFINE h == [f EXCEPT ![x] = g[x]]
  <1>1. /\ h \in [SimExchanges -> Int] /\ h[x] = g[x] /\ h[y] = f[y]
        /\ \A e \in SimExchanges \ {x} : h[e] = f[e]
        /\ \A e \in SimExchanges \ {y} : g[e] = h[e]
    OBVIOUS
  <1>2. f[x] \in Int /\ f[y] \in Int /\ g[x] \in Int /\ g[y] \in Int
    OBVIOUS
  <1> HIDE DEF h
  <1>3. SumFunction(h) = SumFunction(f) + (h[x] - f[x])
    BY <1>1, SimExchangesFinite, SumOfChangedFunction
  <1>4. SumFunction(g) = SumFunction(h) + (g[y] - h[y])
    BY <1>1, SimExchangesFinite, SumOfChangedFunction
  <1>5. SumFunction(f) \in Int
    BY SimExchangesFinite, SumFunctionType
  <1> QED BY <1>1, <1>2, <1>3, <1>4, <1>5

\* What the trade does to the balances and to the report.
Paid(d) == Bought(d).cost * Unit + Bought(d).fee
Got(d) == Sold(d).cost * Unit - Sold(d).fee

Moved(d) ==
    /\ base' \in [SimExchanges -> Int] /\ quote' \in [SimExchanges -> Int]
    /\ base'[d[1]] = base[d[1]] + Bought(d).quantity
    /\ base'[d[2]] = base[d[2]] - Sold(d).quantity
    /\ quote'[d[1]] = quote[d[1]] - Paid(d) /\ quote'[d[2]] = quote[d[2]] + Got(d)
    /\ \A e \in SimExchanges \ {d[1], d[2]} : base'[e] = base[e] /\ quote'[e] = quote[e]

InOrder(d) == AsksInOrder(current_book(d[1])) /\ BidsInOrder(current_book(d[2]))

Told(d) ==
    /\ owed' = [owed EXCEPT ![d[1]] = IF Bought(d).cost = 0 THEN @
                                      ELSE IF AsksInOrder(current_book(d[1])) THEN 0
                                           ELSE Bought(d).fee]
    /\ IF Recorded(Bought(d), Sold(d))
       THEN /\ PnlOfBoth(Bought(d), Sold(d)) = Got(d) - Paid(d)
            /\ Bought(d).quantity = Sold(d).quantity
            /\ trades_' = Append(trades_, Got(d) - Paid(d)) /\ stray' = stray
            /\ disordered' = IF InOrder(d) THEN disordered ELSE disordered \cup {Len(trades_) + 1}
       ELSE /\ trades_' = trades_ /\ disordered' = disordered
            /\ stray' = [base |-> stray.base + Bought(d).quantity - Sold(d).quantity,
                         quote |-> stray.quote + Got(d) - Paid(d)]

\* The amounts of a trade, and that its profit is what both exchanges hold more.
LEMMA BothAmounts ==
    ASSUME NEW d, DirectionOf(d), NEW quantity, NEW cost, NEW proceeds,
           Promised(d, quantity, cost, proceeds),
           Outcome(d[1], Bought(d), quantity), Outcome(d[2], Sold(d), quantity)
    PROVE  /\ Bought(d).quantity \in Nat /\ Sold(d).quantity \in Nat
           /\ Bought(d).cost \in Nat /\ Sold(d).cost \in Nat
           /\ Bought(d).fee \in Nat /\ Sold(d).fee \in Nat
           /\ Paid(d) \in Nat /\ Got(d) \in Int
           /\ Recorded(Bought(d), Sold(d)) =>
                  /\ PnlOfBoth(Bought(d), Sold(d)) = Got(d) - Paid(d)
                  /\ Bought(d).quantity = Sold(d).quantity
  <1> DEFINE b == Bought(d)
             s == Sold(d)
  <1>1. /\ b.quantity \in 0 .. quantity /\ b.cost \in Nat /\ b.fee = b.cost * SimFee[d[1]]
        /\ s.quantity \in 0 .. quantity /\ s.cost \in Nat /\ s.fee = s.cost * SimFee[d[2]]
        /\ b.status = "FILLED" => b.quantity = quantity
        /\ s.status = "FILLED" => s.quantity = quantity
    BY DEF Outcome
  <1>2. SimFee[d[1]] \in Nat /\ SimFee[d[2]] \in Nat /\ quantity \in Nat /\ Unit \in Nat
    BY DepthConstants DEF DirectionOf, Promised
  <1> HIDE DEF b, s
  <1>3. b.fee \in Nat /\ s.fee \in Nat /\ b.cost * Unit \in Nat /\ s.cost * Unit \in Nat
        /\ b.quantity \in Nat /\ s.quantity \in Nat
    BY <1>1, <1>2, Products
  <1>4. Paid(d) = b.cost * Unit + b.fee /\ Got(d) = s.cost * Unit - s.fee
    BY DEF Paid, Got, b, s
  <1>5. PnlOfBoth(b, s) = Got(d) - Paid(d)
    <2>1. (s.cost - b.cost) * Unit = s.cost * Unit - b.cost * Unit
      BY <1>1, <1>2
    <2>2. PnlOfBoth(b, s) = (s.cost - b.cost) * Unit - b.fee - s.fee
      BY DEF PnlOfBoth
    <2> QED BY <1>3, <1>4, <2>1, <2>2
  <1>6. Recorded(b, s) => b.quantity = s.quantity
    BY <1>1 DEF Recorded
  <1> QED BY <1>1, <1>3, <1>4, <1>5, <1>6 DEF b, s

\* What a trade of the scan does.
LEMMA MovedOf ==
    ASSUME BacktestTypeOK, IndexInv, BooksInv, place = "scan", NEW d \in directions,
           Opportunity(d), PlaceBoth(d)
    PROVE  Moved(d) /\ Told(d)
  <1>1. DirectionOf(d)
    BY DirectionsOf
  <1>2. PICK quantity, cost, proceeds :
            /\ Promised(d, quantity, cost, proceeds)
            /\ Outcome(d[1], Bought(d), quantity) /\ Outcome(d[2], Sold(d), quantity)
    BY TradeOf
  <1>3. /\ Bought(d).quantity \in Nat /\ Sold(d).quantity \in Nat
        /\ Paid(d) \in Nat /\ Got(d) \in Int
        /\ Recorded(Bought(d), Sold(d)) =>
               /\ PnlOfBoth(Bought(d), Sold(d)) = Got(d) - Paid(d)
               /\ Bought(d).quantity = Sold(d).quantity
    BY <1>1, <1>2, BothAmounts
  <1>4. /\ base' = [base EXCEPT ![d[1]] = @ + Bought(d).quantity,
                                ![d[2]] = @ - Sold(d).quantity]
        /\ quote' = [quote EXCEPT ![d[1]] = @ - Paid(d), ![d[2]] = @ + Got(d)]
        /\ owed' = [owed EXCEPT ![d[1]] = IF Bought(d).cost = 0 THEN @
                                          ELSE IF AsksInOrder(current_book(d[1])) THEN 0
                                               ELSE Bought(d).fee]
        /\ IF Recorded(Bought(d), Sold(d))
           THEN /\ trades_' = Append(trades_, PnlOfBoth(Bought(d), Sold(d))) /\ stray' = stray
                /\ disordered' = IF InOrder(d) THEN disordered
                                 ELSE disordered \cup {Len(trades_) + 1}
           ELSE /\ stray' = [base |-> stray.base + Bought(d).quantity - Sold(d).quantity,
                             quote |-> stray.quote + Got(d) - Paid(d)]
                /\ trades_' = trades_ /\ disordered' = disordered
    BY DEF PlaceBoth, Bought, Sold, BuyOrder, SellOrder, Paid, Got, InOrder
  <1>5. Moved(d)
    <2>1. base \in [SimExchanges -> Int] /\ quote \in [SimExchanges -> Int]
      BY DEF BacktestTypeOK
    <2>2. d[1] \in SimExchanges /\ d[2] \in SimExchanges /\ d[1] # d[2]
      BY <1>1 DEF DirectionOf
    <2> DEFINE x == d[1]
               y == d[2]
               b == Bought(d).quantity
               s == Sold(d).quantity
               paid == Paid(d)
               got == Got(d)
    <2>3. x \in SimExchanges /\ y \in SimExchanges /\ x # y
          /\ b \in Int /\ s \in Int /\ paid \in Int /\ got \in Int
      BY <1>3, <2>2
    <2>4. /\ base' = [base EXCEPT ![x] = @ + b, ![y] = @ - s]
          /\ quote' = [quote EXCEPT ![x] = @ - paid, ![y] = @ + got]
      BY <1>4
    <2> HIDE DEF x, y, b, s, paid, got
    <2>5. base[x] + b \in Int /\ base[y] - s \in Int
          /\ quote[x] - paid \in Int /\ quote[y] + got \in Int
      BY <2>1, <2>3
    <2>6. /\ base' \in [SimExchanges -> Int] /\ quote' \in [SimExchanges -> Int]
          /\ base'[x] = base[x] + b /\ base'[y] = base[y] - s
          /\ quote'[x] = quote[x] - paid /\ quote'[y] = quote[y] + got
          /\ \A e \in SimExchanges \ {x, y} : base'[e] = base[e] /\ quote'[e] = quote[e]
      BY <2>1, <2>3, <2>4, <2>5
    <2> QED BY <2>6 DEF Moved, x, y, b, s, paid, got
  <1>6. Told(d)
    BY <1>3, <1>4 DEF Told
  <1> QED BY <1>5, <1>6

LEMMA TradesSum ==
    ASSUME NEW pnls \in Seq(Int)
    PROVE  SumFunction(pnls) \in Int
  <1>1. Len(pnls) \in Nat /\ pnls \in [1 .. Len(pnls) -> Int]
    BY LenProperties
  <1>2. IsFiniteSet(1 .. Len(pnls))
    <2>1. 1 \in Int /\ Len(pnls) \in Int
      BY <1>1
    <2> QED BY <2>1, FS_Interval
  <1> QED BY <1>1, <1>2, SumFunctionType

\* A trade keeps the types and the account of the profit.
LEMMA TradeAccounted ==
    ASSUME BacktestTypeOK, IndexInv, BooksInv, PnlAccounted, place = "scan",
           NEW d \in directions, Opportunity(d), PlaceBoth(d)
    PROVE  /\ base' \in [SimExchanges -> Int] /\ quote' \in [SimExchanges -> Int]
           /\ trades_' \in Seq(Int) /\ stray' \in [base : Int, quote : Int]
           /\ owed' \in [SimExchanges -> Nat] /\ disordered' \subseteq DOMAIN trades_'
           /\ PnlAccounted'
  <1> DEFINE b == Bought(d).quantity
             s == Sold(d).quantity
             paid == Paid(d)
             got == Got(d)
  <1>1. DirectionOf(d) /\ Moved(d) /\ Told(d)
    BY DirectionsOf, MovedOf
  <1>2. /\ b \in Nat /\ s \in Nat /\ paid \in Nat /\ got \in Int
        /\ Recorded(Bought(d), Sold(d)) => b = s
    BY <1>1, TradeOf, BothAmounts
  <1>3. /\ base \in [SimExchanges -> Int] /\ quote \in [SimExchanges -> Int]
        /\ trades_ \in Seq(Int) /\ stray \in [base : Int, quote : Int]
    BY DEF BacktestTypeOK
  <1>4. d[1] \in SimExchanges /\ d[2] \in SimExchanges /\ d[1] # d[2]
    BY <1>1 DEF DirectionOf
  <1>5. owed' \in [SimExchanges -> Nat]
    <2>1. Bought(d).fee \in Nat
      BY <1>1, TradeOf, BothAmounts
    <2>2. owed \in [SimExchanges -> Nat]
      BY DEF BacktestTypeOK
    <2> QED BY <1>1, <1>4, <2>1, <2>2 DEF Told
  <1>6. disordered' \subseteq DOMAIN trades_'
    <2>1. disordered \subseteq DOMAIN trades_
      BY DEF BacktestTypeOK
    <2>2. CASE Recorded(Bought(d), Sold(d))
      <3>1. trades_' = Append(trades_, got - paid) /\ got - paid \in Int
            /\ disordered' \subseteq disordered \cup {Len(trades_) + 1}
        BY <1>1, <1>2, <2>2 DEF Told
      <3> HIDE DEF got, paid
      <3>2. DOMAIN trades_ = 1 .. Len(trades_) /\ Len(trades_) \in Nat
            /\ DOMAIN trades_' = 1 .. Len(trades_) + 1
        BY <1>3, <3>1, AppendProperties, LenProperties
      <3> QED BY <2>1, <3>1, <3>2
    <2>3. CASE ~Recorded(Bought(d), Sold(d))
      BY <1>1, <2>1, <2>3 DEF Told
    <2> QED BY <2>2, <2>3
  <1> HIDE DEF b, s, paid, got
  <1>7. /\ base' \in [SimExchanges -> Int] /\ quote' \in [SimExchanges -> Int]
        /\ base'[d[1]] = base[d[1]] + b /\ base'[d[2]] = base[d[2]] - s
        /\ quote'[d[1]] = quote[d[1]] - paid /\ quote'[d[2]] = quote[d[2]] + got
        /\ \A e \in SimExchanges \ {d[1], d[2]} : base'[e] = base[e] /\ quote'[e] = quote[e]
    BY <1>1 DEF Moved, b, s, paid, got
  <1>8. /\ SumFunction(base') = SumFunction(base) + b - s
        /\ SumFunction(quote') = SumFunction(quote) - paid + got
    <2>1. /\ SumFunction(base') = SumFunction(base) + (base'[d[1]] - base[d[1]])
                                      + (base'[d[2]] - base[d[2]])
          /\ SumFunction(quote') = SumFunction(quote) + (quote'[d[1]] - quote[d[1]])
                                       + (quote'[d[2]] - quote[d[2]])
      BY <1>3, <1>4, <1>7, SumOfBoth
    <2>2. SumFunction(base) \in Int /\ SumFunction(quote) \in Int
      BY <1>3, SimExchangesFinite, SumFunctionType
    <2>3. base[d[1]] \in Int /\ base[d[2]] \in Int /\ quote[d[1]] \in Int /\ quote[d[2]] \in Int
      BY <1>3, <1>4
    <2> QED BY <1>2, <1>7, <2>1, <2>2, <2>3
  <1>9. /\ SumFunction(quote) = NExchanges * InitialQuote * Unit + SumFunction(trades_)
                                    + stray.quote
        /\ SumFunction(base) = NExchanges * InitialBase + stray.base
    BY DEF PnlAccounted
  <1>10. /\ SumFunction(trades_) \in Int /\ stray.quote \in Int /\ stray.base \in Int
        /\ NExchanges * InitialQuote * Unit \in Int /\ NExchanges * InitialBase \in Int
    <2>1. NExchanges * InitialBase \in Nat /\ NExchanges * InitialQuote \in Nat
      BY Products, BacktestConstants
    <2>2. NExchanges * InitialQuote * Unit \in Nat
      BY <2>1, Products, DepthConstants
    <2> QED BY <1>3, <2>1, <2>2, TradesSum
  <1>11. CASE Recorded(Bought(d), Sold(d))
    <2>1. trades_' = Append(trades_, got - paid) /\ stray' = stray /\ b = s
      BY <1>1, <1>2, <1>11 DEF Told, got, paid
    <2>2. got - paid \in Int
      BY <1>2
    <2>3. SumFunction(trades_') = SumFunction(trades_) + (got - paid)
      BY <1>3, <2>1, <2>2, SumOfAppend
    <2>4. trades_' \in Seq(Int)
      BY <1>3, <2>1, <2>2
    <2>5. /\ SumFunction(quote') = NExchanges * InitialQuote * Unit + SumFunction(trades_')
                                       + stray'.quote
          /\ SumFunction(base') = NExchanges * InitialBase + stray'.base
      BY <1>2, <1>8, <1>9, <1>10, <2>1, <2>3
    <2> QED BY <1>3, <1>5, <1>6, <1>7, <2>1, <2>4, <2>5 DEF PnlAccounted
  <1>12. CASE ~Recorded(Bought(d), Sold(d))
    <2>1. /\ trades_' = trades_
          /\ stray' = [base |-> stray.base + b - s, quote |-> stray.quote + got - paid]
      BY <1>1, <1>12 DEF Told, b, s, got, paid
    <2>2. /\ stray'.base = stray.base + b - s /\ stray'.quote = stray.quote + got - paid
          /\ stray' \in [base : Int, quote : Int]
      BY <1>2, <1>10, <2>1
    <2>3. /\ SumFunction(quote') = NExchanges * InitialQuote * Unit + SumFunction(trades_')
                                       + stray'.quote
          /\ SumFunction(base') = NExchanges * InitialBase + stray'.base
      BY <1>2, <1>8, <1>9, <1>10, <2>1, <2>2
    <2> QED BY <1>3, <1>5, <1>6, <1>7, <2>1, <2>2, <2>3 DEF PnlAccounted
  <1> QED BY <1>11, <1>12
-----------------------------------------------------------------------------
(* The invariant *)

LEMMA InitAccounted ==
    ASSUME BacktestInit
    PROVE  PnlAccounted
  <1> DEFINE e0 == [e \in SimExchanges |-> InitialBase]
             q0 == [e \in SimExchanges |-> InitialQuote * Unit]
  <1>1. base = e0 /\ quote = q0 /\ trades_ = <<>> /\ stray = [base |-> 0, quote |-> 0]
    BY DEF BacktestInit
  <1>2. InitialBase \in Int /\ InitialQuote * Unit \in Int
    BY Products, BacktestConstants, DepthConstants
  <1>3. /\ SumFunction(e0) = NExchanges * InitialBase
        /\ SumFunction(q0) = NExchanges * (InitialQuote * Unit)
    <2>1. /\ \A e \in SimExchanges : e0[e] = InitialBase /\ q0[e] = InitialQuote * Unit
          /\ DOMAIN e0 = SimExchanges /\ DOMAIN q0 = SimExchanges
      OBVIOUS
    <2> HIDE DEF e0, q0
    <2>2. /\ SumFunctionOnSet(e0, SimExchanges) = NExchanges * InitialBase
          /\ SumFunctionOnSet(q0, SimExchanges) = NExchanges * (InitialQuote * Unit)
      BY <1>2, <2>1, SimExchangesFinite, SumOfConstant
    <2> QED BY <2>1, <2>2, SumIsOnDomain
  <1>4. SumFunction(<<>>) = 0
    <2>1. DOMAIN <<>> = {}
      OBVIOUS
    <2> QED BY <2>1, SumIsOnDomain, SumOfNone
  <1>5. NExchanges * (InitialQuote * Unit) = NExchanges * InitialQuote * Unit
    BY BacktestConstants, DepthConstants
  <1>6. NExchanges * InitialBase \in Nat /\ NExchanges * InitialQuote * Unit \in Nat
    <2>1. NExchanges * InitialBase \in Nat /\ NExchanges * InitialQuote \in Nat
      BY Products, BacktestConstants
    <2> QED BY <2>1, Products, DepthConstants
  <1> HIDE DEF e0, q0
  <1> QED BY <1>1, <1>3, <1>4, <1>5, <1>6 DEF PnlAccounted

LEMMA InitCorrect ==
    ASSUME BacktestInit
    PROVE  BacktestInv
  <1>1. BacktestTypeOK
    <2>1. InitialBase \in Int /\ InitialQuote * Unit \in Int
      BY Products, BacktestConstants, DepthConstants
    <2>2. <<>> \in Seq(Int) /\ owed \in [SimExchanges -> Nat] /\ disordered = {}
      BY EmptySeq DEF BacktestInit
    <2> QED BY <2>1, <2>2 DEF BacktestInit, BacktestTypeOK
  <1>2. IndexInv
    <2>1. ASSUME NEW e \in SimExchanges
          PROVE  /\ current_index[e] = 1
                 /\ snapshots[e] # <<>> => 1 \in DOMAIN snapshots[e]
      <3>1. snapshots[e] \in Histories /\ current_index[e] = 1
        BY DEF BacktestInit
      <3> QED BY <3>1, HistoryOf, EmptySeq
    <2> QED BY <2>1 DEF IndexInv
  <1>3. BooksInv /\ BookOfTheTime
    BY DEF BacktestInit, BooksInv, BookOfTheTime
  <1> QED BY <1>1, <1>2, <1>3, InitAccounted DEF BacktestInv

\* advance_to stops at the last row that is not of a later time, or stays.
LEMMA AdvanceToOf ==
    ASSUME BacktestTypeOK, IndexInv, NEW e \in SimExchanges, snapshots[e] # <<>>,
           NEW time \in Nat
    PROVE  LET i == current_index[e]
               m == advance_to(e, time)
           IN  /\ i \in DOMAIN snapshots[e] /\ m \in DOMAIN snapshots[e] /\ i <= m
               /\ m = i \/ snapshots[e][m].time <= time
               /\ \A j \in DOMAIN snapshots[e] :
                      i <= j /\ snapshots[e][j].time <= time => j <= m
  <1> DEFINE h == snapshots[e]
             i == current_index[e]
             later == {j \in DOMAIN h : j >= i /\ (j = i \/ h[j].time <= time)}
             m == advance_to(e, time)
  <1>1. /\ h \in Histories /\ Len(h) \in Nat /\ DOMAIN h = 1 .. Len(h) /\ i \in DOMAIN h
    BY HistoryOf DEF BacktestTypeOK, IndexInv
  <1>2. m = IF later = {} THEN i ELSE CHOOSE k \in later : \A j \in later : j <= k
    BY DEF advance_to
  <1> HIDE DEF h, i, m
  <1>3. i \in later /\ later \in SUBSET (1 .. Len(h))
    BY <1>1
  <1>4. m \in later /\ \A j \in later : j <= m
    <2> HIDE DEF later
    <2>1. \E k \in later : \A j \in later : j <= k
      BY <1>1, <1>3, LastOf
    <2> QED BY <1>2, <1>3, <2>1
  <1>5. m \in DOMAIN h /\ i <= m /\ (m = i \/ h[m].time <= time)
    BY <1>1, <1>4
  <1>6. \A j \in DOMAIN h : i <= j /\ h[j].time <= time => j <= m
    <2>1. TAKE j \in DOMAIN h
    <2>2. HAVE i <= j /\ h[j].time <= time
    <2>3. j \in later
      BY <1>1, <2>2
    <2> QED BY <1>4, <2>3
  <1> QED BY <1>1, <1>5, <1>6 DEF h, i, m

\* The next time is one of the data, and after the time before.
LEMMA NextTime ==
    ASSUME BacktestTypeOK, Advance
    PROVE  now' \in Nat /\ now' > now
  <1>1. now \in Nat /\ Times \in Nat
    BY BacktestConstants DEF BacktestTypeOK
  <1>2. TimesLeft \subseteq now + 1 .. Times
    BY DEF TimesLeft
  <1>3. TimesLeft \in SUBSET Nat /\ TimesLeft # {}
    BY <1>1, <1>2 DEF Advance
  <1>4. \E t \in TimesLeft : \A u \in TimesLeft : t <= u
    BY <1>3, FirstOf
  <1>5. now' \in TimesLeft
    BY <1>4 DEF Advance
  <1> QED BY <1>1, <1>2, <1>5

\* All exchanges go on to the next time.
LEMMA AdvanceCorrect ==
    ASSUME BacktestInv, Advance
    PROVE  BacktestInv'
  <1>1. BacktestTypeOK /\ IndexInv /\ PnlAccounted /\ BookOfTheTime
    BY DEF BacktestInv
  <1>2. now \in Nat /\ now' \in Nat /\ now' > now
    BY <1>1, NextTime DEF BacktestTypeOK
  <1>3. /\ current_index' = [e \in SimExchanges |-> advance_to(e, now')]
        /\ place' = "update" /\ snapshots' = snapshots
        /\ UNCHANGED <<books, directions, base, quote, trades_, stray, owed, disordered>>
    BY DEF Advance, history
  <1>4. ASSUME NEW e \in SimExchanges
        PROVE  /\ current_index'[e] \in Nat \ {0}
               /\ snapshots[e] # <<>> => current_index'[e] \in DOMAIN snapshots[e]
    <2>1. CASE snapshots[e] = <<>>
      <3>1. DOMAIN snapshots[e] = {}
        BY <2>1
      <3>2. advance_to(e, now') = current_index[e]
        BY <3>1 DEF advance_to
      <3> QED BY <1>1, <1>3, <2>1, <3>2 DEF BacktestTypeOK
    <2>2. CASE snapshots[e] # <<>>
      <3>1. advance_to(e, now') \in DOMAIN snapshots[e]
        BY <1>1, <1>2, <2>2, AdvanceToOf
      <3>2. DOMAIN snapshots[e] = 1 .. Len(snapshots[e]) /\ Len(snapshots[e]) \in Nat
        BY <1>1, HistoryOf DEF BacktestTypeOK
      <3> QED BY <1>3, <3>1, <3>2
    <2> QED BY <2>1, <2>2
  <1>5. BacktestTypeOK' /\ IndexInv'
    <2>1. current_index' \in [SimExchanges -> Nat \ {0}]
      BY <1>3, <1>4
    <2>2. BacktestTypeOK'
      BY <1>1, <1>2, <1>3, <2>1 DEF BacktestTypeOK
    <2>3. IndexInv'
      BY <1>2, <1>3, <1>4 DEF IndexInv
    <2> QED BY <2>2, <2>3
  <1>6. BookOfTheTime'
    <2>1. SUFFICES ASSUME NEW e \in SimExchanges, NEW i \in DOMAIN snapshots[e]
                   PROVE  LET current == snapshots[e][current_index'[e]]
                          IN  /\ snapshots[e][i].time <= now' =>
                                     /\ snapshots[e][i].time <= current.time
                                     /\ current.time <= now'
                              /\ current.time > now' => current_index'[e] = 1
      BY <1>3 DEF BookOfTheTime
    <2> DEFINE h == snapshots[e]
               k == current_index[e]
               m == current_index'[e]
    <2>2. snapshots[e] # <<>>
      BY <2>1
    <2>3. /\ k \in DOMAIN h /\ m \in DOMAIN h /\ k <= m
          /\ m = k \/ h[m].time <= now'
          /\ \A j \in DOMAIN h : k <= j /\ h[j].time <= now' => j <= m
      BY <1>1, <1>2, <1>3, <2>2, AdvanceToOf
    <2>4. /\ DOMAIN h = 1 .. Len(h) /\ Len(h) \in Nat
          /\ \A j \in DOMAIN h : h[j].time \in Nat
          /\ \A j, l \in DOMAIN h : j < l => h[j].time < h[l].time
      <3>1. h \in Histories
        BY <1>1 DEF BacktestTypeOK
      <3>2. 1 .. Times \subseteq Nat
        BY BacktestConstants
      <3> QED BY <3>1, <3>2, HistoryOf
    <2>5. h[k].time <= now \/ k = 1
      <3>1. CASE now = 0
        BY <1>1, <3>1 DEF IndexInv
      <3>2. CASE now > 0
        BY <1>1, <1>2, <2>3, <2>4, <3>2 DEF BookOfTheTime
      <3> QED BY <1>2, <3>1, <3>2
    <2>6. i \in DOMAIN h
      OBVIOUS
    <2> HIDE DEF h, k, m
    <2>7. i \in Nat /\ k \in Nat /\ m \in Nat /\ h[i].time \in Nat /\ h[k].time \in Nat
          /\ h[m].time \in Nat
      BY <2>3, <2>4, <2>6
    <2>8. ASSUME h[i].time <= now'
          PROVE  h[i].time <= h[m].time /\ h[m].time <= now'
      <3>1. i <= m
        BY <2>3, <2>6, <2>7, <2>8
      <3>2. h[i].time <= h[m].time
        BY <2>3, <2>4, <2>6, <2>7, <3>1
      <3>3. m = k /\ k = 1 => i = 1
        BY <2>4, <2>6, <3>1
      <3> QED BY <1>2, <2>3, <2>5, <2>7, <2>8, <3>2, <3>3
    <2>9. ASSUME h[m].time > now'
          PROVE  m = 1
      BY <1>2, <2>3, <2>5, <2>7, <2>9
    <2> QED BY <2>8, <2>9 DEF h, m
  <1>7. BooksInv' /\ PnlAccounted'
    BY <1>1, <1>3 DEF BooksInv, PnlAccounted
  <1> QED BY <1>5, <1>6, <1>7 DEF BacktestInv

\* The books of the engine are those of the exchanges again.
LEMMA UpdateBooksCorrect ==
    ASSUME BacktestInv, UpdateBooks
    PROVE  BacktestInv'
  <1>1. BacktestTypeOK /\ IndexInv /\ PnlAccounted /\ BookOfTheTime
    BY DEF BacktestInv
  <1>2. /\ books' = [e \in SimExchanges |->
                        IF current_book(e).bids = <<>> /\ current_book(e).asks = <<>>
                        THEN books[e] ELSE BookOf(current_book(e))]
        /\ directions' = {} \/ directions' = {d \in Directions :
                                                 books'[d[1]] # None /\ books'[d[2]] # None}
        /\ place' \in {"advance", "scan"}
        /\ UNCHANGED <<snapshots, current_index, now, base, quote, trades_, stray, owed, disordered>>
    BY DEF UpdateBooks, history
  <1>3. BacktestTypeOK'
    <2>1. books' \in [SimExchanges -> [bids : Seq(Priced), asks : Seq(Priced)] \cup {None}]
      <3>1. ASSUME NEW e \in SimExchanges
            PROVE  (IF current_book(e).bids = <<>> /\ current_book(e).asks = <<>>
                    THEN books[e] ELSE BookOf(current_book(e)))
                   \in [bids : Seq(Priced), asks : Seq(Priced)] \cup {None}
        BY <1>1, CurrentBookOf, BookOfRow DEF BacktestTypeOK
      <3> QED BY <1>2, <3>1
    <2> QED BY <1>1, <1>2, <2>1 DEF BacktestTypeOK
  <1>4. \A e \in SimExchanges : current_book(e)' = current_book(e)
                                /\ BookOf(current_book(e))' = BookOf(current_book(e))
    <2>1. snapshots' = snapshots /\ current_index' = current_index
      BY <1>2
    <2> QED BY ONLY <2>1 DEF current_book, BookOf, Applied, Inserted
  <1>5. BooksInv'
    <2>1. \A d \in directions' : books'[d[1]] # None /\ books'[d[2]] # None
      BY <1>2
    <2>2. \A e \in SimExchanges :
              \/ books'[e] = BookOf(current_book(e))
              \/ current_book(e).bids = <<>> /\ current_book(e).asks = <<>>
      BY <1>2
    <2> QED BY <1>4, <2>1, <2>2 DEF BooksInv
  <1>6. IndexInv' /\ PnlAccounted' /\ BookOfTheTime'
    BY <1>1, <1>2 DEF IndexInv, PnlAccounted, BookOfTheTime
  <1> QED BY <1>3, <1>5, <1>6 DEF BacktestInv

\* One direction is compared, and traded if it clears.
LEMMA ScanCorrect ==
    ASSUME BacktestInv, Scan
    PROVE  BacktestInv'
  <1>1. BacktestTypeOK /\ IndexInv /\ BooksInv /\ PnlAccounted /\ BookOfTheTime
    BY DEF BacktestInv
  <1>2. PICK d \in directions :
            /\ IF Opportunity(d) THEN PlaceBoth(d)
               ELSE UNCHANGED <<base, quote, trades_, history>>
            /\ directions' = directions \ {d}
            /\ place' = IF directions' = {} THEN "advance" ELSE "scan"
    BY DEF Scan
  <1>3. place = "scan" /\ UNCHANGED <<snapshots, current_index, now, books>>
    BY DEF Scan
  <1>4. /\ base' \in [SimExchanges -> Int] /\ quote' \in [SimExchanges -> Int]
        /\ trades_' \in Seq(Int) /\ stray' \in [base : Int, quote : Int]
        /\ owed' \in [SimExchanges -> Nat] /\ disordered' \subseteq DOMAIN trades_'
        /\ PnlAccounted'
    <2>1. CASE Opportunity(d)
      BY <1>1, <1>2, <1>3, <2>1, TradeAccounted
    <2>2. CASE ~Opportunity(d)
      BY <1>1, <1>2, <2>2 DEF BacktestTypeOK, PnlAccounted, history
    <2> QED BY <2>1, <2>2
  <1>5. BacktestTypeOK'
    <2>1. place' \in {"advance", "scan"} /\ directions' \subseteq directions
      BY <1>2
    <2> QED BY <1>1, <1>3, <1>4, <2>1 DEF BacktestTypeOK
  <1>6. BooksInv'
    <2>1. \A e \in SimExchanges : current_book(e)' = current_book(e)
                                  /\ BookOf(current_book(e))' = BookOf(current_book(e))
      BY <1>3 DEF current_book, BookOf, Applied, Inserted
    <2> QED BY <1>1, <1>2, <1>3, <2>1 DEF BooksInv
  <1>7. IndexInv' /\ BookOfTheTime'
    BY <1>1, <1>3 DEF IndexInv, BookOfTheTime
  <1> QED BY <1>4, <1>5, <1>6, <1>7 DEF BacktestInv

LEMMA StepCorrect ==
    ASSUME BacktestInv, [BacktestNext]_backtestVars
    PROVE  BacktestInv'
  <1>1. CASE Advance
    BY <1>1, AdvanceCorrect
  <1>2. CASE UpdateBooks
    BY <1>2, UpdateBooksCorrect
  <1>3. CASE Scan
    BY <1>3, ScanCorrect
  <1>4. CASE Finish \/ UNCHANGED backtestVars
    <2>1. /\ place' = "done" \/ place' = place
          /\ UNCHANGED <<snapshots, current_index, now, books, directions, base, quote,
                         trades_, history>>
      BY <1>4 DEF Finish, backtestVars
    <2>2. BacktestTypeOK' /\ IndexInv' /\ PnlAccounted' /\ BookOfTheTime'
      BY <2>1 DEF BacktestInv, BacktestTypeOK, IndexInv, PnlAccounted, BookOfTheTime, history
    <2>3. BooksInv'
      <3>1. \A e \in SimExchanges : current_book(e)' = current_book(e)
                                    /\ BookOf(current_book(e))' = BookOf(current_book(e))
        BY <2>1 DEF current_book, BookOf, Applied, Inserted
      <3> QED BY <2>1, <3>1 DEF BacktestInv, BooksInv
    <2> QED BY <2>2, <2>3 DEF BacktestInv
  <1> QED BY <1>1, <1>2, <1>3, <1>4 DEF BacktestNext

\* The types of the histories, the books, the balances, the trades and the orders
\* left alone.
THEOREM BacktestTypeCorrect == BacktestSpec => []BacktestTypeOK
  <1>1. BacktestInit => BacktestInv
    BY InitCorrect
  <1>2. BacktestInv /\ [BacktestNext]_backtestVars => BacktestInv'
    BY StepCorrect
  <1>3. BacktestInv => BacktestTypeOK
    BY DEF BacktestInv
  <1> QED BY <1>1, <1>2, <1>3, PTL DEF BacktestSpec

\* The inductive invariant: the types, the rows that the exchanges are at, the
\* books of the engine against the exchanges', and the two properties below.
THEOREM BacktestInvHolds == BacktestSpec => []BacktestInv
  <1>1. BacktestInit => BacktestInv
    BY InitCorrect
  <1>2. BacktestInv /\ [BacktestNext]_backtestVars => BacktestInv'
    BY StepCorrect
  <1> QED BY <1>1, <1>2, PTL DEF BacktestSpec

\* The profit of the report is what the exchanges hold more, but for the orders of
\* trades that were not filled on both sides: for all data, fees and balances.
THEOREM PnlAccountedHolds == BacktestSpec => []PnlAccounted
  <1>1. BacktestInv => PnlAccounted
    BY DEF BacktestInv
  <1> QED BY <1>1, BacktestInvHolds, PTL

\* advance_to leaves every exchange at its last row up to the time of the loop, or
\* at its first.
THEOREM BookOfTheTimeHolds == BacktestSpec => []BookOfTheTime
  <1>1. BacktestInv => BookOfTheTime
    BY DEF BacktestInv
  <1> QED BY <1>1, BacktestInvHolds, PTL

-----------------------------------------------------------------------------
(* The balances and the report *)

\* A cost and its fee are no more than a higher cost with room for a higher fee.
LEMMA CoveredAtLimit ==
    ASSUME NEW c \in Nat, NEW t \in Nat, c <= t, NEW u \in Nat, NEW f \in Nat, NEW s \in Nat,
           f <= s
    PROVE  c * u + c * f <= t * (u + s)
  <1>1. u + s \in Nat /\ c * (u + s) = c * u + c * s
    OBVIOUS
  <1>2. c * u \in Nat /\ c * s \in Nat /\ c * f \in Nat /\ t * (u + s) \in Nat
    BY <1>1, Products
  <1>3. t * (u + s) >= c * (u + s)
    BY <1>1, Scaled
  <1>4. c * s >= c * f
    <2>1. s * c >= f * c
      BY Scaled
    <2> QED BY <2>1
  <1> QED BY <1>1, <1>2, <1>3, <1>4

\* A trade overdraws no balance, but for the fee of what is bought out of order.
LEMMA TradeCovered ==
    ASSUME FeesAreCovered, BacktestInv, NothingOverdrawn, place = "scan",
           NEW d \in directions, Opportunity(d), PlaceBoth(d)
    PROVE  NothingOverdrawn'
  <1>1. BacktestTypeOK /\ IndexInv /\ BooksInv
    BY DEF BacktestInv
  <1>2. DirectionOf(d) /\ Moved(d) /\ Told(d)
    BY <1>1, DirectionsOf, MovedOf
  <1>3. PICK quantity, cost, proceeds :
            /\ Promised(d, quantity, cost, proceeds)
            /\ Outcome(d[1], Bought(d), quantity) /\ Outcome(d[2], Sold(d), quantity)
            /\ AsksInOrder(current_book(d[1])) => AsPromised(Bought(d), cost)
            /\ Bought(d).cost * Unit <= cost * (Unit + Slack)
            /\ Bought(d).cost > 0 => quote[d[1]] >= cost * (Unit + Slack)
            /\ Sold(d).quantity > 0 => base[d[2]] >= quantity
    BY <1>1, TradeOf
  <1> DEFINE x == d[1]
             y == d[2]
             b == Bought(d)
             s == Sold(d)
  <1>4. /\ x \in SimExchanges /\ y \in SimExchanges /\ x # y
        /\ SimFee[x] \in Nat /\ SimFee[y] \in Nat
        /\ SimFee[x] <= Slack /\ SimFee[y] <= Unit
    BY <1>2 DEF DirectionOf, FeesAreCovered
  <1>5. Unit \in Nat /\ Slack \in Nat
    BY DepthConstants, BacktestConstants
  <1>6. /\ quantity \in Nat /\ cost \in Nat /\ b.cost \in Nat /\ s.cost \in Nat
        /\ b.quantity \in Nat /\ s.quantity \in Nat /\ s.quantity <= quantity
        /\ AsksInOrder(current_book(x)) => b.cost <= cost
        /\ b.cost * Unit <= cost * (Unit + Slack)
        /\ b.fee = b.cost * SimFee[x] /\ s.fee = s.cost * SimFee[y]
    BY <1>3 DEF Promised, Outcome, AsPromised
  <1>7. /\ base[x] \in Int /\ base[y] \in Int /\ quote[x] \in Int /\ quote[y] \in Int
        /\ owed[x] \in Nat /\ owed[y] \in Nat
        /\ base[x] >= 0 /\ base[y] >= 0 /\ quote[x] >= -owed[x] /\ quote[y] >= -owed[y]
    BY <1>1, <1>4 DEF BacktestTypeOK, NothingOverdrawn
  <1>8. Paid(d) = b.cost * Unit + b.fee /\ Got(d) = s.cost * Unit - s.fee
    BY DEF Paid, Got
  <1>9. /\ base'[x] = base[x] + b.quantity /\ base'[y] = base[y] - s.quantity
        /\ quote'[x] = quote[x] - Paid(d) /\ quote'[y] = quote[y] + Got(d)
        /\ \A e \in SimExchanges \ {x, y} : base'[e] = base[e] /\ quote'[e] = quote[e]
    BY <1>2 DEF Moved
  <1>10. /\ owed'[x] = IF b.cost = 0 THEN owed[x]
                       ELSE IF AsksInOrder(current_book(x)) THEN 0 ELSE b.fee
         /\ \A e \in SimExchanges \ {x} : owed'[e] = owed[e]
    <2>1. owed \in [SimExchanges -> Nat]
      BY <1>1 DEF BacktestTypeOK
    <2>2. owed' = [owed EXCEPT ![x] = IF b.cost = 0 THEN @
                                      ELSE IF AsksInOrder(current_book(x)) THEN 0 ELSE b.fee]
      BY <1>2 DEF Told, x, b
    <2> QED BY <1>4, <2>1, <2>2
  <1>11. b.cost > 0 => quote[x] >= cost * (Unit + Slack)
    BY <1>3
  <1>12. s.quantity > 0 => base[y] >= quantity
    BY <1>3
  <1> HIDE DEF x, y, b, s
  <1>13. base'[x] >= 0 /\ base'[y] >= 0
    BY <1>6, <1>7, <1>9, <1>12
  <1>14. Paid(d) \in Nat /\ quote[x] - Paid(d) >= -owed'[x]
    <2>1. /\ b.cost * Unit \in Nat /\ b.cost * SimFee[x] \in Nat
          /\ cost * (Unit + Slack) \in Nat
      BY <1>4, <1>5, <1>6, Products
    <2>2. CASE b.cost = 0
      <3>1. 0 * Unit = 0 /\ 0 * SimFee[x] = 0
        BY <1>4, <1>5
      <3> QED BY <1>6, <1>7, <1>8, <1>10, <2>2, <3>1
    <2>3. CASE b.cost > 0 /\ AsksInOrder(current_book(x))
      <3>1. b.cost * Unit + b.cost * SimFee[x] <= cost * (Unit + Slack)
        BY <1>4, <1>5, <1>6, <2>3, CoveredAtLimit
      <3>2. owed'[x] = 0
        BY <1>6, <1>10, <2>3
      <3> QED BY <1>6, <1>7, <1>8, <1>11, <2>1, <2>3, <3>1, <3>2
    <2>4. CASE b.cost > 0 /\ ~AsksInOrder(current_book(x))
      <3>1. owed'[x] = b.fee
        BY <1>6, <1>10, <2>4
      <3> QED BY <1>6, <1>7, <1>8, <1>11, <2>1, <2>4, <3>1
    <2> QED BY <1>6, <2>2, <2>3, <2>4
  <1>15. Got(d) \in Nat
    <2>1. Unit * s.cost >= SimFee[y] * s.cost
      BY <1>4, <1>5, <1>6, Scaled
    <2>2. s.cost * Unit \in Nat /\ s.cost * SimFee[y] \in Nat
          /\ s.cost * Unit = Unit * s.cost /\ s.cost * SimFee[y] = SimFee[y] * s.cost
      BY <1>4, <1>5, <1>6, Products
    <2> QED BY <1>6, <1>8, <2>1, <2>2
  <1>16. quote'[x] >= -owed'[x] /\ quote'[y] >= -owed'[y]
    BY <1>4, <1>7, <1>9, <1>14, <1>15, <1>10
  <1>17. \A e \in SimExchanges \ {x, y} : base'[e] >= 0 /\ quote'[e] >= -owed'[e]
    BY <1>9, <1>10 DEF NothingOverdrawn
  <1> QED BY <1>13, <1>16, <1>17 DEF NothingOverdrawn

LEMMA StepCovered ==
    ASSUME FeesAreCovered, BacktestInv, NothingOverdrawn, [BacktestNext]_backtestVars
    PROVE  NothingOverdrawn'
  <1>1. CASE Scan
    <2>1. PICK d \in directions :
              IF Opportunity(d) THEN PlaceBoth(d) ELSE UNCHANGED <<base, quote, trades_, history>>
      BY <1>1 DEF Scan
    <2>2. place = "scan"
      BY <1>1 DEF Scan
    <2>3. CASE Opportunity(d)
      BY <2>1, <2>2, <2>3, TradeCovered
    <2>4. CASE ~Opportunity(d)
      BY <2>1, <2>4 DEF NothingOverdrawn, history
    <2> QED BY <2>3, <2>4
  <1>2. CASE ~Scan
    BY <1>2 DEF BacktestNext, Advance, UpdateBooks, Finish, backtestVars, history,
                NothingOverdrawn
  <1> QED BY <1>1, <1>2

\* The check of a balance leaves the fee out.  What is bought from asks in order
\* overdraws none, because the limit has room for the fee; from any others, by no
\* more than the fee, because no level is beyond the limit.
THEOREM NothingOverdrawnHolds ==
    ASSUME FeesAreCovered
    PROVE  BacktestSpec => []NothingOverdrawn
  <1>1. BacktestInit => NothingOverdrawn
    <2>1. InitialBase \in Nat /\ InitialQuote * Unit \in Nat
      BY Products, BacktestConstants, DepthConstants
    <2> QED BY <2>1 DEF BacktestInit, NothingOverdrawn
  <1>2. BacktestInv /\ NothingOverdrawn /\ [BacktestNext]_backtestVars => NothingOverdrawn'
    BY StepCovered
  <1> QED BY <1>1, <1>2, BacktestInvHolds, PTL DEF BacktestSpec

\* A trade that is recorded made something, if it was filled as it was compared.
LEMMA StepWins ==
    ASSUME ProfitIsEnough, BacktestInv, AllWin, [BacktestNext]_backtestVars
    PROVE  AllWin'
  <1>1. CASE trades_' = trades_ /\ disordered' = disordered
    BY <1>1 DEF AllWin
  <1>2. CASE ~(trades_' = trades_ /\ disordered' = disordered)
    <2>1. Scan
      BY <1>2 DEF BacktestNext, Advance, UpdateBooks, Finish, backtestVars, history
    <2>2. PICK d \in directions : Opportunity(d) /\ PlaceBoth(d)
      BY <1>2, <2>1 DEF Scan, history
    <2>3. BacktestTypeOK /\ IndexInv /\ BooksInv /\ place = "scan"
      BY <2>1 DEF BacktestInv, Scan
    <2>4. DirectionOf(d) /\ d \in Directions /\ Told(d)
      BY <2>2, <2>3, DirectionsOf, MovedOf
    <2>5. PICK quantity, cost, proceeds :
              /\ Promised(d, quantity, cost, proceeds)
              /\ Outcome(d[1], Bought(d), quantity) /\ Outcome(d[2], Sold(d), quantity)
              /\ AsksInOrder(current_book(d[1])) => AsPromised(Bought(d), cost)
              /\ BidsInOrder(current_book(d[2])) => AsPromised(Sold(d), proceeds)
      BY <2>2, <2>3, TradeOf
    <2> DEFINE n == Len(trades_) + 1
               pnl == Got(d) - Paid(d)
    <2>6. /\ Recorded(Bought(d), Sold(d)) /\ trades_' = Append(trades_, pnl)
          /\ disordered' = IF InOrder(d) THEN disordered ELSE disordered \cup {n}
      BY <1>2, <2>4 DEF Told
    <2>7. pnl \in Int /\ pnl = PnlOfBoth(Bought(d), Sold(d))
      BY <2>4, <2>5, <2>6, BothAmounts
    <2>8. ASSUME InOrder(d)
          PROVE  pnl > 0
      <3>1. /\ cost \in Nat /\ cost > 0 /\ proceeds \in Nat
            /\ Bought(d).cost = cost /\ Sold(d).cost = proceeds
            /\ Bought(d).fee = cost * SimFee[d[1]] /\ Sold(d).fee = proceeds * SimFee[d[2]]
        BY <2>5, <2>6, <2>8 DEF InOrder, Recorded, Promised, Outcome, AsPromised
      <3>2. SimFee[d[1]] \in Nat /\ SimFee[d[2]] \in Nat
            /\ MinNet * (Unit - SimFee[d[2]]) > (SimFee[d[1]] + SimFee[d[2]]) * SimFee[d[2]]
        BY <2>4 DEF DirectionOf, ProfitIsEnough
      <3>3. (proceeds - cost) * Unit - cost * SimFee[d[1]] - proceeds * SimFee[d[2]] > 0
        BY <2>5, <3>1, <3>2, WinOf DEF Promised
      <3> HIDE DEF pnl
      <3> QED BY <2>7, <3>1, <3>3 DEF PnlOfBoth
    <2>9. trades_ \in Seq(Int)
      BY <2>3 DEF BacktestTypeOK
    <2> HIDE DEF pnl
    <2>10. /\ Len(trades_) \in Nat /\ DOMAIN trades_ = 1 .. Len(trades_)
           /\ DOMAIN trades_' = 1 .. n /\ trades_'[n] = pnl
           /\ \A i \in 1 .. Len(trades_) : trades_'[i] = trades_[i]
      BY <2>6, <2>7, <2>9, AppendProperties, LenProperties
    <2>11. ASSUME NEW i \in DOMAIN trades_' \ disordered'
           PROVE  trades_'[i] > 0
      <3>1. CASE i = n
        BY <2>6, <2>8, <2>10, <2>11, <3>1
      <3>2. CASE i # n
        <4>1. i \in DOMAIN trades_ \ disordered /\ trades_'[i] = trades_[i]
          BY <2>6, <2>10, <2>11, <3>2
        <4> QED BY <4>1 DEF AllWin
      <3> QED BY <3>1, <3>2
    <2> QED BY <2>11 DEF AllWin
  <1> QED BY <1>1, <1>2

\* Every trade that was recorded and filled in the order of the engine's comparison
\* made something.  So if the rows were in order, the report counts wins only and no
\* drawdown; its profit is the sum of the trades, in order or not.
THEOREM OnlyWinsAreReportedHolds ==
    ASSUME ProfitIsEnough
    PROVE  BacktestSpec => []OnlyWinsAreReported
  <1>1. BacktestInit => AllWin
    BY DEF BacktestInit, AllWin
  <1>2. BacktestInv /\ AllWin /\ [BacktestNext]_backtestVars => AllWin'
    BY StepWins
  <1>3. BacktestInv /\ AllWin => OnlyWinsAreReported
    <2> SUFFICES ASSUME BacktestInv, AllWin PROVE OnlyWinsAreReported
      OBVIOUS
    <2>1. trades_ \in Seq(Int)
      BY DEF BacktestInv, BacktestTypeOK
    <2>2. disordered = {} => \A i \in DOMAIN trades_ : trades_[i] > 0
      BY DEF AllWin
    <2> QED BY <2>1, <2>2, MetricsOf, WinsOf DEF AllWin, OnlyWinsAreReported
  <1> QED BY <1>1, <1>2, <1>3, BacktestInvHolds, PTL DEF BacktestSpec
=============================================================================
