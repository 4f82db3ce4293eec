--------------------------- MODULE LiveTradingProof ---------------------------
(***************************************************************************)
(* Proofs about live trading.                                              *)
(*                                                                         *)
(* LiveExecution, for any exchanges, opportunities, quantity, retries,     *)
(* trades and faults: the order manager knows every order but those        *)
(* excepted, what one leg leaves alone is withdrawn unless that fails, and *)
(* a trade filled on both sides is flat.                                   *)
(*                                                                         *)
(* InventoryTracker, for any accounts, deposits, fills and faults: a       *)
(* balance that was fetched has the fills of the fetch and those recorded  *)
(* since, and an alert raised on right balances is real.                   *)
(***************************************************************************)
EXTENDS LiveExecution, InventoryTracker, SumTheorems, TLAPS


Adapters == {"binance", "okx", "bybit", "mexc", "gateio"}
Orders == [live : BOOLEAN, filled : 0 .. Quantity]

LEMMA Numbers ==
    /\ Quantity \in Nat /\ Quantity > 0 /\ RetryCount \in Nat /\ MaxTrades \in Nat
    /\ 0 \in Tries /\ None \notin Tries
    /\ \A n \in Tries : n \in Nat
  BY LiveConstants DEF Tries, None

LEMMA AdapterType ==
    ASSUME NEW s \in Sides, opp \in Opportunities
    PROVE  Adapter[opp[s]] \in Adapters
  BY LiveConstants DEF Adapters

LEMMA TakenType ==
    ASSUME NEW f \in 0 .. Quantity
    PROVE  /\ Taken(f) \in Orders /\ Taken(f).filled = f
           /\ Taken(f).live => Taken(f).filled < Quantity
           /\ Taken(f).live <=> f < Quantity
  <1>1. f \in Nat /\ f <= Quantity
    BY Numbers
  <1>2. (f < Quantity) \in BOOLEAN
    OBVIOUS
  <1> QED BY <1>1, <1>2 DEF Taken, Orders

\* An answer is about the attempt that it answers, and an adapter calls an order
\* filled only if it is.
LEMMA PlacedType ==
    ASSUME NEW a \in Adapters, NEW f \in 0 .. Quantity, NEW n \in Tries
    PROVE  /\ Placed(a, Taken(f), n) \in Results
           /\ Placed(a, Taken(f), n).order = n
           /\ Placed(a, Taken(f), n).status = "FILLED" => f = Quantity
  <1> DEFINE o == Taken(f)
  <1>1. o.filled = f /\ (o.live <=> f < Quantity) /\ f \in Nat /\ f <= Quantity /\ 0 \in 0 .. Quantity
    BY TakenType, Numbers
  <1>2. /\ StatusOf(o) \in {"FILLED", "PARTIALLY_FILLED", "OPEN"}
        /\ StatusOf(o) = "FILLED" => f = Quantity
    BY <1>1 DEF StatusOf
  <1> HIDE DEF o
  <1>3. \A st \in Statuses, q \in 0 .. Quantity :
            /\ Result(st, q, n) \in Results
            /\ Result(st, q, n).order = n /\ Result(st, q, n).status = st
    BY DEF Result, Results
  <1>4. /\ \A x \in {"FILLED", "PARTIALLY_FILLED", "OPEN"} : x \in Statuses
    BY DEF Statuses
  <1>5. CASE a = "binance"
    BY <1>1, <1>2, <1>3, <1>4, <1>5 DEF Placed, PlacedBinance, o
  <1>6. CASE a = "okx"
    BY <1>1, <1>3, <1>4, <1>6 DEF Placed, PlacedOkx
  <1>7. CASE a = "bybit"
    BY <1>1, <1>3, <1>4, <1>7 DEF Placed, PlacedBybit
  <1>8. CASE a = "mexc"
    BY <1>1, <1>2, <1>3, <1>4, <1>8 DEF Placed, PlacedMexc, o
  <1>9. CASE a = "gateio"
    BY <1>1, <1>2, <1>3, <1>4, <1>9, Numbers DEF Placed, PlacedGateio, o
  <1> QED BY <1>5, <1>6, <1>7, <1>8, <1>9 DEF Adapters

LEMMA NoResultType ==
    /\ NoResult \in Results /\ NoResult.status = "PENDING"
    /\ \A a : \A r \in Refused(a) : r \in Results /\ r.status \notin {"FILLED", "PARTIALLY_FILLED"}
  BY Numbers DEF NoResult, Result, Results, Statuses, Refused

\* An order that arrives joins the others.
LEMMA Arrival ==
    ASSUME NEW s \in Sides, NEW f \in 0 .. Quantity, Arrive(s, f)
    PROVE  /\ DOMAIN orders' = DOMAIN orders \cup {Id(s)}
           /\ \A x \in DOMAIN orders : orders'[x] = orders[x]
           /\ Id(s) \notin DOMAIN orders => orders'[Id(s)] = Taken(f)
  BY DEF Arrive

-----------------------------------------------------------------------------
(* What every step does to the orders *)

\* None is forgotten, none is opened or emptied again, and new ones are of the
\* trade that is being placed.
Grows ==
    /\ DOMAIN orders \subseteq DOMAIN orders'
    /\ DOMAIN orders' \subseteq (1 .. trade') \X Sides \X Tries
    /\ \A id \in DOMAIN orders' :
           /\ orders'[id] \in Orders
           /\ orders'[id].live => orders'[id].filled < Quantity
    /\ \A id \in DOMAIN orders :
           /\ orders'[id].live => orders[id].live
           /\ orders[id].filled = Quantity => orders'[id].filled = Quantity
    /\ \A id \in DOMAIN orders' \ DOMAIN orders :
           pc = "fire" /\ pc' = "fire" /\ trade' = trade /\ id[1] = trade
    /\ unanswered \subseteq unanswered' /\ uncancelled \subseteq uncancelled'
    /\ threw \subseteq threw'

LEMMA NextGrows ==
    ASSUME TypeOK, OrdersInv, LoggedInv, [Next]_vars
    PROVE  Grows
  <1> USE Numbers
  <1>1. /\ DOMAIN orders \subseteq (1 .. trade) \X Sides \X Tries
        /\ \A id \in DOMAIN orders : orders[id] \in Orders
        /\ \A id \in DOMAIN orders : orders[id].live => orders[id].filled < Quantity
        /\ trade \in 0 .. MaxTrades
    BY DEF TypeOK, OrdersInv, Orders
  <1>2. ASSUME UNCHANGED <<orders, trade>>,
               unanswered \subseteq unanswered', uncancelled \subseteq uncancelled',
               threw \subseteq threw'
        PROVE  Grows
    BY <1>1, <1>2 DEF Grows
  <1>3. ASSUME CancelKnown, UNCHANGED trade,
               unanswered \subseteq unanswered', uncancelled \subseteq uncancelled',
               threw \subseteq threw'
        PROVE  Grows
    <2>1. /\ DOMAIN orders' = DOMAIN orders
          /\ \A id \in DOMAIN orders :
                 orders'[id] = [orders[id] EXCEPT !.live = @ /\ id # Known(side)]
      BY <1>3 DEF CancelKnown
    <2>2. \A id \in DOMAIN orders :
              /\ orders'[id] \in Orders /\ orders'[id].filled = orders[id].filled
              /\ orders'[id].live => orders[id].live
      <3> SUFFICES ASSUME NEW id \in DOMAIN orders
                   PROVE  /\ orders'[id] \in Orders
                          /\ orders'[id].filled = orders[id].filled
                          /\ orders'[id].live => orders[id].live
        OBVIOUS
      <3> DEFINE other == id # Known(side)
      <3>1. orders'[id] = [orders[id] EXCEPT !.live = @ /\ other] /\ other \in BOOLEAN
        BY <2>1
      <3> HIDE DEF other
      <3>2. orders[id] \in Orders
        BY <1>1
      <3>3. orders[id].live \in BOOLEAN /\ orders[id].filled \in 0 .. Quantity
        BY <3>2 DEF Orders
      <3>4. (orders[id].live /\ other) \in BOOLEAN
        BY <3>1, <3>3
      <3> QED BY <3>1, <3>2, <3>3, <3>4 DEF Orders
    <2> QED BY <1>1, <1>3, <2>1, <2>2 DEF Grows
  <1>4. ASSUME NEW id \in DOMAIN orders, Fill(id) PROVE Grows
    <2>1. orders[id].filled \in 0 .. Quantity /\ orders[id].live
      BY <1>1, <1>4 DEF Fill, Orders
    <2>2. orders[id].filled + 1 \in 0 .. Quantity /\ orders[id].filled # Quantity
      BY <1>1, <2>1
    <2>3. orders' = [orders EXCEPT ![id] = Taken(orders[id].filled + 1)]
      BY <1>4 DEF Fill
    <2>4. UNCHANGED <<trade, history>>
      BY <1>4 DEF Fill
    <2> QED BY <1>1, <2>1, <2>2, <2>3, <2>4, TakenType DEF Grows, history
  <1>5. ASSUME NEW s \in Sides, NEW f \in 0 .. Quantity, Arrive(s, f),
               pc = "fire", pc' = "fire", UNCHANGED trade,
               unanswered \subseteq unanswered', UNCHANGED <<uncancelled, threw>>
        PROVE  Grows
    <2>1. trade \in 1 .. trade /\ tries[s] \in Tries
      BY <1>1, <1>5 DEF LoggedInv, TypeOK
    <2>2. Id(s) \in (1 .. trade) \X Sides \X Tries /\ Id(s)[1] = trade
      BY <2>1 DEF Id
    <2>3. /\ DOMAIN orders' = DOMAIN orders \cup {Id(s)}
          /\ \A x \in DOMAIN orders : orders'[x] = orders[x]
          /\ Id(s) \notin DOMAIN orders => orders'[Id(s)] = Taken(f)
      BY <1>5, Arrival
    <2>4. Taken(f) \in Orders /\ (Taken(f).live => Taken(f).filled < Quantity)
      BY TakenType
    <2> HIDE DEF Id
    <2>5. \A id \in DOMAIN orders' :
              /\ orders'[id] \in Orders
              /\ orders'[id].live => orders'[id].filled < Quantity
      BY <1>1, <2>3, <2>4
    <2>6. DOMAIN orders' \subseteq (1 .. trade') \X Sides \X Tries
      BY <1>1, <1>5, <2>2, <2>3
    <2> QED BY <1>5, <2>2, <2>3, <2>5, <2>6 DEF Grows
  <1>6. ASSUME NEW s \in Sides, Place(s) PROVE Grows
    <2>1. pc = "fire" /\ pc' = "fire" /\ UNCHANGED <<trade, uncancelled, threw>>
          /\ unanswered \subseteq unanswered'
      BY <1>6 DEF Place, PlaceAnswered, PlaceRefused, PlaceFails, Fault, history
    <2>2. UNCHANGED orders \/ \E f \in 0 .. Quantity : Arrive(s, f)
      BY <1>6 DEF Place, PlaceAnswered, PlaceRefused, PlaceFails
    <2> QED BY <1>2, <1>5, <2>1, <2>2
  <1>7. CASE Execute
    <2>1. UNCHANGED <<orders, history>> /\ trade' = trade + 1
      BY <1>7 DEF Execute
    <2> QED BY <1>1, <2>1 DEF Grows, history
  <1>8. CASE Gather
    BY <1>2, <1>8 DEF Gather, Throw, Return, UpdateOrders
  <1>9. CASE OneSided \/ Partial \/ Record
    BY <1>2, <1>9 DEF OneSided, Partial, Record, history
  <1>10. CASE Query
    BY <1>2, <1>10 DEF Query, Throw, history
  <1>11. CASE Cancel
    <2>1. UNCHANGED <<trade, unanswered>> /\ uncancelled \subseteq uncancelled'
          /\ threw \subseteq threw'
      BY <1>11 DEF Cancel, Throw, history
    <2>2. CancelKnown \/ UNCHANGED orders
      BY <1>11 DEF Cancel
    <2> QED BY <1>2, <1>3, <2>1, <2>2
  <1>12. CASE UNCHANGED vars
    BY <1>2, <1>12 DEF vars, history
  <1> QED BY <1>4, <1>6, <1>7, <1>8, <1>9, <1>10, <1>11, <1>12 DEF Next, Engine

-----------------------------------------------------------------------------
(* The types *)

LEMMA InitLive == Init => LiveInv
  <1> SUFFICES ASSUME Init PROVE LiveInv
    OBVIOUS
  <1> USE DEF Init
  <1>1. DOMAIN orders = {} /\ DOMAIN managed = {} /\ DOMAIN trades = {}
    OBVIOUS
  <1>2. opp \in Opportunities
    BY LiveConstants
  <1>3. managed \in [Legs -> Results]
    <2>1. Legs = {}
      BY DEF Legs
    <2> QED BY <2>1
  <1>4. TypeOK
    BY <1>1, <1>2, <1>3, Numbers, NoResultType DEF TypeOK, Sides
  <1>5. OrdersInv /\ PlacedInv /\ FlatInv /\ ClosedInv
    BY <1>1 DEF OrdersInv, PlacedInv, FlatInv, ClosedInv
  <1>6. LoggedInv /\ NoOrphan /\ UnmatchedIsWithdrawn /\ FilledIsFlat
    BY <1>1 DEF LoggedInv, NoOrphan, UnmatchedIsWithdrawn, FilledIsFlat
  <1> QED BY <1>4, <1>5, <1>6 DEF LiveInv

\* The types of what execute() has of its own.
LocalsOK ==
    /\ pc \in {"idle", "fire", "oneSided", "withdraw", "partial", "query",
               "cancel", "record"}
    /\ side \in Sides /\ opp \in Opportunities
    /\ leg \in [Sides -> {"none", "placing", "placed", "threw"}]
    /\ results \in [Sides -> Results] /\ tries \in [Sides -> Tries]

LEMMA ReturnType == Return => pc' = "idle" /\ side' \in Sides
                              /\ leg' \in [Sides -> {"none", "placing", "placed", "threw"}]
                              /\ results' \in [Sides -> Results] /\ tries' \in [Sides -> Tries]
  BY NoResultType, Numbers DEF Return, Sides

LEMMA LocalsStep ==
    ASSUME LocalsOK, [Next]_vars PROVE LocalsOK'
  <1> USE Numbers
  <1>0. "buy" \in Sides /\ "sell" \in Sides
    BY DEF Sides
  <1>1. CASE Execute
    BY <1>1 DEF Execute, LocalsOK
  <1>2. ASSUME NEW s \in Sides, NEW r \in Results
        PROVE  [results EXCEPT ![s] = r] \in [Sides -> Results]
    BY DEF LocalsOK
  <1>3. ASSUME NEW s \in Sides, Place(s) PROVE LocalsOK'
    <2>1. UNCHANGED <<pc, side, opp>>
      BY <1>3 DEF Place
    <2>2. CASE PlaceAnswered(s)
      <3>1. PICK f \in 0 .. Quantity : results' = [results EXCEPT
                  ![s] = Placed(Adapter[opp[s]], Taken(f), tries[s])]
        BY <2>2 DEF PlaceAnswered
      <3>2. Placed(Adapter[opp[s]], Taken(f), tries[s]) \in Results
        BY AdapterType, PlacedType DEF LocalsOK
      <3>3. results' \in [Sides -> Results]
        BY <1>2, <3>1, <3>2
      <3> QED BY <2>1, <2>2, <3>3 DEF PlaceAnswered, LocalsOK
    <2>3. CASE PlaceRefused(s)
      BY <1>2, <2>1, <2>3, NoResultType DEF PlaceRefused, LocalsOK
    <2>4. CASE PlaceFails(s)
      <3>1. results' \in [Sides -> Results]
        BY <1>2, <2>4, NoResultType DEF PlaceFails, LocalsOK
      <3>2. leg' \in [Sides -> {"none", "placing", "placed", "threw"}]
        BY <2>4 DEF PlaceFails, LocalsOK
      <3>3. tries' \in [Sides -> Tries]
        BY <2>4 DEF PlaceFails, Retry, LocalsOK, Tries
      <3> QED BY <2>1, <3>1, <3>2, <3>3 DEF LocalsOK
    <2> QED BY <1>3, <2>2, <2>3, <2>4 DEF Place
  <1>4. CASE Gather
    BY <1>4, ReturnType DEF Gather, Throw, LocalsOK
  <1>5. CASE OneSided
    BY <1>0, <1>5 DEF OneSided, LeftAlone, LocalsOK
  <1>6. CASE Partial
    BY <1>0, <1>6 DEF Partial, LeaveSide, LocalsOK
  <1>7. CASE Query
    <2>1. CASE Throw
      BY <1>7, <2>1, ReturnType DEF Query, Throw, LocalsOK
    <2>2. CASE ~Throw
      <3>1. UNCHANGED <<leg, results, opp>>
        BY <1>7, <2>2 DEF Query
      <3>2. pc' \in {"query", "partial", "record", "cancel"} /\ side' \in Sides
        BY <1>0, <1>7, <2>2 DEF Query, LeaveSide, CancelNext, LocalsOK
      <3>3. tries' \in [Sides -> Tries]
        BY <1>7, <2>2 DEF Query, CancelNext, Retry, LocalsOK, Tries
      <3> QED BY <3>1, <3>2, <3>3 DEF LocalsOK
    <2> QED BY <2>1, <2>2
  <1>8. CASE Cancel
    <2>1. CASE Throw
      BY <1>8, <2>1, ReturnType DEF Cancel, Throw, LocalsOK
    <2>2. CASE ~Throw
      <3>1. UNCHANGED <<leg, results, opp>>
        BY <1>8, <2>2 DEF Cancel
      <3>2. pc' \in {"withdraw", "partial", "record", "cancel"} /\ side' \in Sides
        BY <1>0, <1>8, <2>2 DEF Cancel, LeaveCancel, LeaveSide, LocalsOK
      <3>3. tries' \in [Sides -> Tries]
        BY <1>8, <2>2 DEF Cancel, Retry, LocalsOK, Tries
      <3> QED BY <3>1, <3>2, <3>3 DEF LocalsOK
    <2> QED BY <2>1, <2>2
  <1>9. CASE Record
    BY <1>9, ReturnType DEF Record, LocalsOK
  <1>10. ASSUME NEW id \in DOMAIN orders, Fill(id) PROVE LocalsOK'
    BY <1>10 DEF Fill, LocalsOK
  <1>11. CASE UNCHANGED vars
    BY <1>11 DEF vars, LocalsOK
  <1> QED BY <1>1, <1>3, <1>4, <1>5, <1>6, <1>7, <1>8, <1>9, <1>10, <1>11
          DEF Next, Engine

LEMMA TypeStep ==
    ASSUME TypeOK, OrdersInv, LoggedInv, [Next]_vars PROVE TypeOK'
  <1> USE Numbers
  <1>1. LocalsOK'
    BY LocalsStep DEF TypeOK, LocalsOK
  <1>2. Grows
    BY NextGrows
  <1>3. trade' \in 0 .. MaxTrades /\ managed' \in [Legs' -> Results]
    <2>1. trade \in 0 .. MaxTrades /\ managed \in [Legs -> Results]
          /\ results \in [Sides -> Results]
      BY DEF TypeOK
    <2>2. CASE Execute
      <3>1. trade' = trade + 1 /\ trade < MaxTrades
        BY <2>2 DEF Execute
      <3>2. Legs' = Legs \cup ({trade'} \X Sides)
        BY <2>1, <3>1 DEF Legs
      <3>3. managed' = [l \in Legs' |-> IF l \in Legs THEN managed[l] ELSE NoResult]
        BY <2>1, <2>2, <3>2 DEF Execute
      <3> QED BY <2>1, <3>1, <3>3, NoResultType
    <2>3. CASE UNCHANGED <<trade, managed>>
      BY <2>1, <2>3 DEF Legs
    <2>4. CASE UNCHANGED trade /\ UpdateOrders
      BY <2>1, <2>4 DEF UpdateOrders, Legs, Sides
    <2> QED BY <2>2, <2>3, <2>4
            DEF Next, Engine, Place, Gather, OneSided, Partial, Query, Cancel, Record,
                Throw, Fill, vars
  <1>4. trades' \in Seq([trade : 1 .. trade', results : [Sides -> Results],
                         matched : 0 .. Quantity])
    <2> DEFINE L(t) == [trade : 1 .. t, results : [Sides -> Results],
                        matched : 0 .. Quantity]
    <2>1. trade \in Nat /\ trades \in Seq(L(trade)) /\ results \in [Sides -> Results]
      BY DEF TypeOK
    <2>2. CASE Execute
      <3>1. trade' = trade + 1 /\ trades' = trades
        BY <2>2 DEF Execute
      <3>2. L(trade) \subseteq L(trade')
        BY <2>1, <3>1
      <3> HIDE DEF L
      <3>3. trades \in Seq(L(trade'))
        BY <2>1, <3>2
      <3> QED BY <3>1, <3>3 DEF L
    <2>3. CASE Record
      <3> DEFINE m == Lesser(results["buy"].filled, results["sell"].filled)
                 r == [trade |-> trade, results |-> results, matched |-> m]
      <3>1. trade' = trade /\ trades' = Append(trades, r) /\ pc # "idle"
        BY <2>3 DEF Record
      <3>2. trade \in 1 .. trade
        BY <2>1, <3>1 DEF LoggedInv
      <3>3. m \in 0 .. Quantity
        <4>1. results["buy"].filled \in 0 .. Quantity
              /\ results["sell"].filled \in 0 .. Quantity
          BY <2>1 DEF Results, Sides
        <4> QED BY <4>1 DEF Lesser
      <3> HIDE DEF m
      <3>4. r \in L(trade)
        BY <2>1, <3>2, <3>3
      <3> HIDE DEF r, L
      <3>5. trades' \in Seq(L(trade'))
        BY <2>1, <3>1, <3>4
      <3> QED BY <3>5 DEF L
    <2>4. CASE UNCHANGED <<trade, trades>>
      BY <2>1, <2>4
    <2> QED BY <2>2, <2>3, <2>4
            DEF Next, Engine, Place, Gather, OneSided, Partial, Query, Cancel,
                Throw, Fill, vars
  <1>5. /\ DOMAIN orders' \subseteq (1 .. trade') \X Sides \X Tries
        /\ \A id \in DOMAIN orders' : orders'[id] \in [live : BOOLEAN, filled : 0 .. Quantity]
    BY <1>2 DEF Grows, Orders
  <1> QED BY <1>1, <1>3, <1>4, <1>5 DEF TypeOK, LocalsOK

-----------------------------------------------------------------------------
(* The orders of the trade that is being placed *)

\* Between the placing of a trade's orders and its end nothing new comes of it.
LEMMA Steady ==
    ASSUME TypeOK, PlacedInv, [Next]_vars, pc' \notin {"idle", "fire"}
    PROVE  /\ UNCHANGED <<trade, results>> /\ pc # "idle"
           /\ pc = "fire" =>
                  /\ \A s \in Sides : leg[s] = "placed"
                  /\ pc' = IF \A s \in Sides : results[s].status = "FILLED"
                           THEN "record" ELSE "oneSided"
                  /\ UNCHANGED <<orders, unanswered>> /\ UpdateOrders
  <1>1. CASE Gather
    <2>1. ~Throw
      BY <1>1 DEF Throw, Return
    <2>2. /\ LegsDone /\ ~\E s \in Sides : leg[s] = "threw"
          /\ UpdateOrders /\ UNCHANGED <<results, trade, orders, unanswered>>
          /\ pc' = IF \A s \in Sides : results[s].status = "FILLED"
                   THEN "record" ELSE "oneSided"
      BY <1>1, <2>1 DEF Gather
    <2>3. leg \in [Sides -> {"none", "placing", "placed", "threw"}]
          /\ (pc = "fire" => \A s \in Sides : leg[s] # "none")
      BY DEF TypeOK, PlacedInv
    <2>4. pc = "fire" /\ \A s \in Sides : leg[s] = "placed"
      BY <1>1, <2>2, <2>3 DEF Gather, LegsDone
    <2> QED BY <2>2, <2>4
  <1> QED BY <1>1 DEF Next, Engine, Execute, Place, OneSided, Partial, Query, Cancel,
                      Record, Throw, Return, Fill, vars

LEMMA PlacedStep ==
    ASSUME TypeOK, PlacedInv, Grows, [Next]_vars PROVE PlacedInv'
  <1> SUFFICES ASSUME pc' = "fire", NEW s \in Sides, NEW n \in Tries,
                      <<trade', s, n>> \in DOMAIN orders'
               PROVE  /\ leg'[s] = "placing" => n < tries'[s]
                      /\ <<trade', s, n>> \notin unanswered' =>
                             /\ leg'[s] = "placed" /\ results'[s].order = n
                             /\ results'[s].status = "FILLED" =>
                                    orders'[<<trade', s, n>>].filled = Quantity
    <2>1. ASSUME pc' = "fire", NEW s \in Sides
          PROVE  leg'[s] \in {"placing", "placed", "threw"}
      <3>1. CASE pc = "fire"
        <4>1. leg \in [Sides -> {"none", "placing", "placed", "threw"}]
              /\ leg[s] \in {"placing", "placed", "threw"}
          BY <3>1 DEF PlacedInv, TypeOK
        <4>2. ASSUME NEW u \in Sides, Place(u)
              PROVE  leg'[s] \in {"placing", "placed", "threw"}
          BY <4>1, <4>2 DEF Place, PlaceAnswered, PlaceRefused, PlaceFails
        <4>3. (\E u \in Sides : Place(u)) \/ leg' = leg
          BY <2>1, <3>1 DEF Next, Engine, Execute, Gather, Throw, Return, OneSided, Partial,
                            Query, Cancel, Record, Fill, vars
        <4> QED BY <4>1, <4>2, <4>3
      <3>2. CASE pc # "fire"
        <4>1. Execute
          BY <2>1, <3>2 DEF Next, Engine, Place, Gather, Throw, Return, OneSided, Partial,
                            LeaveSide, Query, CancelNext, Cancel, LeaveCancel, Record, Fill,
                            vars
        <4> QED BY <4>1 DEF Execute
      <3> QED BY <3>1, <3>2
    <2> QED BY <2>1 DEF PlacedInv
  <1> DEFINE id == <<trade, s, n>>
  <1> USE Numbers
  <1>0. trade \in Nat
    BY DEF TypeOK
  <1>1. ~Execute
    <2> SUFFICES ASSUME Execute PROVE FALSE
      OBVIOUS
    <2>1. trade' = trade + 1 /\ orders' = orders
      BY DEF Execute, history
    <2>2. trade' \in 1 .. trade
      BY <2>1 DEF TypeOK
    <2> QED BY <1>0, <2>1, <2>2
  <1>2. pc = "fire" /\ trade' = trade
    BY <1>1 DEF Next, Engine, Place, Gather, OneSided, Partial, LeaveSide, Query, Cancel,
                LeaveCancel, CancelNext, Record, Throw, Return, Fill, vars
  <1>3. id \in DOMAIN orders =>
            /\ leg[s] = "placing" => n < tries[s]
            /\ id \notin unanswered =>
                   /\ leg[s] = "placed" /\ results[s].order = n
                   /\ results[s].status = "FILLED" => orders[id].filled = Quantity
    BY <1>2 DEF PlacedInv
  <1>4. id \in DOMAIN orders => /\ orders[id].filled = Quantity => orders'[id].filled = Quantity
                                /\ id \in unanswered => id \in unanswered'
    BY DEF Grows
  <1>5. CASE UNCHANGED <<leg, results, tries>> /\ DOMAIN orders' = DOMAIN orders
    BY <1>2, <1>3, <1>4, <1>5
  <1>6. ASSUME NEW x \in DOMAIN orders, Fill(x) PROVE DOMAIN orders' = DOMAIN orders
    BY <1>6 DEF Fill
  <1>7. ASSUME NEW t \in Sides, Place(t), t # s
        PROVE  /\ leg'[s] = leg[s] /\ results'[s] = results[s] /\ tries'[s] = tries[s]
               /\ id \in DOMAIN orders
    <2>1. leg'[s] = leg[s] /\ results'[s] = results[s] /\ tries'[s] = tries[s]
      BY <1>7 DEF Place, PlaceAnswered, PlaceRefused, PlaceFails, Retry, TypeOK
    <2>2. UNCHANGED orders \/ \E f \in 0 .. Quantity : Arrive(t, f)
      BY <1>7 DEF Place, PlaceAnswered, PlaceRefused, PlaceFails
    <2>3. id # Id(t)
      BY <1>7 DEF Id
    <2> HIDE DEF id
    <2>4. id \in DOMAIN orders' => id \in DOMAIN orders
      BY <2>2, <2>3, Arrival
    <2> QED BY <1>2, <2>1, <2>4 DEF id
  <1>8. ASSUME Place(s)
        PROVE  /\ leg'[s] = "placing" => n < tries'[s]
               /\ id \notin unanswered' =>
                      /\ leg'[s] = "placed" /\ results'[s].order = n
                      /\ results'[s].status = "FILLED" => orders'[id].filled = Quantity
    <2>1. leg[s] = "placing" /\ tries[s] \in Tries
      BY <1>8 DEF Place, TypeOK
    <2>0. id \in DOMAIN orders' /\ (id = Id(s) => n = tries[s])
      BY <1>2 DEF Id
    <2>2. Id(s) = <<trade, s, tries[s]>> /\ Id(s) \notin DOMAIN orders
      <3>1. <<trade, s, tries[s]>> \in DOMAIN orders => tries[s] < tries[s]
        BY <1>2, <2>1 DEF PlacedInv
      <3> QED BY <2>1, <3>1 DEF Id
    <2>3. id \in DOMAIN orders => id \in unanswered /\ id \in unanswered' /\ n < tries[s]
      BY <1>3, <1>4, <2>1
    <2> HIDE DEF id
    <2>4. CASE PlaceAnswered(s)
      <3>1. PICK f \in 0 .. Quantity : /\ Arrive(s, f)
                /\ results' = [results EXCEPT
                       ![s] = Placed(Adapter[opp[s]], Taken(f), tries[s])]
        BY <2>4 DEF PlaceAnswered
      <3>2. leg'[s] = "placed" /\ unanswered' = unanswered
        BY <2>4 DEF PlaceAnswered, history, TypeOK
      <3>3. results'[s] = Placed(Adapter[opp[s]], Taken(f), tries[s])
        BY <3>1 DEF TypeOK
      <3>4. /\ results'[s].order = tries[s]
            /\ results'[s].status = "FILLED" => f = Quantity
        BY <2>1, <3>3, AdapterType, PlacedType DEF TypeOK
      <3>5. CASE id \in DOMAIN orders
        BY <2>3, <3>2, <3>5
      <3>6. CASE id \notin DOMAIN orders
        <4>1. id = Id(s)
          <5>1. DOMAIN orders' = DOMAIN orders \cup {Id(s)}
            BY <3>1, Arrival
          <5> QED BY <2>0, <3>6, <5>1
        <4>2. n = tries[s] /\ orders'[id] = Taken(f)
          BY <2>0, <2>2, <3>1, <4>1, Arrival
        <4> QED BY <3>2, <3>4, <4>2, TakenType
      <3> QED BY <3>5, <3>6
    <2>5. CASE PlaceRefused(s)
      <3>1. leg'[s] = "placed" /\ orders' = orders
        BY <2>5 DEF PlaceRefused, TypeOK
      <3> QED BY <2>0, <2>3, <3>1
    <2>6. CASE PlaceFails(s)
      <3>1. id \in unanswered'
        <4>1. CASE UNCHANGED orders
          BY <2>0, <2>3, <4>1
        <4>2. ASSUME NEW f \in 0 .. Quantity, Arrive(s, f),
                     unanswered' = unanswered \cup {Id(s)}
              PROVE  id \in unanswered'
          BY <2>0, <2>3, <4>2, Arrival
        <4> QED BY <2>6, <4>1, <4>2 DEF PlaceFails
      <3>2. n <= tries[s]
        <4>1. UNCHANGED orders \/ \E f \in 0 .. Quantity : Arrive(s, f)
          BY <2>6 DEF PlaceFails
        <4>2. id \in DOMAIN orders \/ id = Id(s)
          <5>1. \A f \in 0 .. Quantity : Arrive(s, f) =>
                    DOMAIN orders' = DOMAIN orders \cup {Id(s)}
            BY Arrival
          <5> QED BY <2>0, <4>1, <5>1
        <4> QED BY <2>0, <2>1, <2>3, <4>2
      <3>3. leg'[s] = "placing" => tries'[s] = tries[s] + 1
        BY <2>1, <2>6 DEF PlaceFails, Retry, TypeOK
      <3> QED BY <2>1, <3>1, <3>2, <3>3
    <2> QED BY <1>8, <2>4, <2>5, <2>6 DEF Place
  <1>9. CASE \E t \in Sides : Place(t)
    BY <1>2, <1>3, <1>4, <1>7, <1>8, <1>9
  <1>10. CASE ~\E t \in Sides : Place(t)
    <2>1. UNCHANGED <<leg, results, tries>> /\ DOMAIN orders' = DOMAIN orders
      BY <1>1, <1>2, <1>6, <1>10
         DEF Next, Engine, Gather, Throw, Return, OneSided, Partial, Query, Cancel, Record,
             Fill, vars
    <2> QED BY <1>5, <2>1
  <1> QED BY <1>9, <1>10


-----------------------------------------------------------------------------
(* Its legs until they are seen to *)

LEMMA FlatStep ==
    ASSUME TypeOK, PlacedInv, FlatInv, Grows, [Next]_vars PROVE FlatInv'
  <1> SUFFICES ASSUME pc' \notin {"idle", "fire"}, NEW s \in Sides, NEW n \in Tries,
                      <<trade', s, n>> \in DOMAIN orders' \ unanswered',
                      results'[s].status = "FILLED"
               PROVE  orders'[<<trade', s, n>>].filled = Quantity
    BY DEF FlatInv
  <1> DEFINE id == <<trade, s, n>>
  <1>1. /\ UNCHANGED <<trade, results>> /\ pc # "idle"
        /\ pc = "fire" => /\ \A r \in Sides : leg[r] = "placed"
                          /\ UNCHANGED <<orders, unanswered>>
    BY Steady
  <1>2. CASE pc = "fire"
    BY <1>1, <1>2 DEF PlacedInv
  <1>3. CASE pc # "fire"
    <2>1. id \in DOMAIN orders' \ unanswered'
      BY <1>1
    <2> HIDE DEF id
    <2>2. id \in DOMAIN orders \ unanswered
      BY <1>3, <2>1 DEF Grows
    <2>3. orders[id].filled = Quantity => orders'[id].filled = Quantity
      BY <2>2 DEF Grows
    <2> QED BY <1>1, <1>3, <2>2, <2>3 DEF FlatInv, id
  <1> QED BY <1>2, <1>3

\* Once placed, an order that is closed stays so.
LEMMA ClosedKept ==
    ASSUME Grows, pc' # "fire", UNCHANGED <<trade, results>>, NEW s \in Sides, Closed(s)
    PROVE  Closed(s)'
  <1> SUFFICES ASSUME IsLive(Known(s))' PROVE Known(s)' \in uncancelled'
    BY DEF Closed
  <1>1. Known(s)' = Known(s)
    BY DEF Known
  <1> DEFINE k == Known(s)
  <1>2. k \in DOMAIN orders' /\ orders'[k].live
    BY <1>1 DEF IsLive
  <1> HIDE DEF k
  <1>3. k \in DOMAIN orders /\ orders[k].live
    BY <1>2 DEF Grows
  <1>4. k \in uncancelled
    BY <1>3 DEF Closed, IsLive, k
  <1> QED BY <1>1, <1>4 DEF Grows, k

LEMMA OneLeftAlone == \A s, r \in LeftAlone : s = r
  BY DEF LeftAlone, Other, Sides

LEMMA ClosedStep ==
    ASSUME TypeOK, OrdersInv, PlacedInv, ClosedInv, Grows, [Next]_vars PROVE ClosedInv'
  <1> USE Numbers
  <1>0. "buy" \in Sides /\ "sell" \in Sides /\ \A s \in Sides : s = "buy" \/ s = "sell"
    BY DEF Sides
  <1>1. CASE pc' \in {"idle", "fire"}
    BY <1>1 DEF ClosedInv
  <1> SUFFICES ASSUME pc' \notin {"idle", "fire"} PROVE ClosedInv'
    BY <1>1
  <1>2. /\ UNCHANGED <<trade, results>> /\ pc # "idle"
        /\ pc = "fire" => pc' = IF \A s \in Sides : results[s].status = "FILLED"
                                THEN "record" ELSE "oneSided"
    BY Steady
  <1>3. LeftAlone' = LeftAlone /\ LeftAlone \subseteq Sides
    BY <1>2 DEF LeftAlone
  <1>4. \A s \in Sides : Closed(s) => Closed(s)'
    BY <1>2, ClosedKept
  <1>5. CASE UNCHANGED <<pc, side>>
    BY <1>0, <1>2, <1>3, <1>4, <1>5 DEF ClosedInv
  <1>6. CASE pc = "fire"
    <2>1. CASE \A s \in Sides : results[s].status = "FILLED"
      <3>1. pc' = "record" /\ LeftAlone = {}
        BY <1>2, <1>6, <2>1 DEF LeftAlone, Other, Sides
      <3> QED BY <1>0, <1>2, <1>3, <2>1, <3>1 DEF ClosedInv
    <2>2. CASE ~\A s \in Sides : results[s].status = "FILLED"
      BY <1>2, <1>6, <2>2 DEF ClosedInv
    <2> QED BY <2>1, <2>2
  <1>7. CASE OneSided
    <2>1. ASSUME NEW s \in LeftAlone, pc' = "withdraw", side' = s PROVE ClosedInv'
      <3>1. LeftAlone = {s}
        BY OneLeftAlone
      <3> QED BY <1>3, <2>1, <3>1 DEF ClosedInv
    <2>2. CASE LeftAlone = {} /\ pc' = "partial" /\ side' = "buy"
      BY <1>3, <2>2 DEF ClosedInv
    <2> QED BY <1>7, <2>1, <2>2 DEF OneSided
  \* Leaving a side that needs no more.
  <1>8. ASSUME pc \in {"partial", "query", "cancel"}, LeaveSide,
               \A s \in Sides : s = side /\ results[s].status = "PARTIALLY_FILLED"
                                => Closed(s)'
        PROVE  ClosedInv'
    <2>1. \A s \in LeftAlone' : Closed(s)'
      BY <1>3, <1>4, <1>8 DEF ClosedInv
    <2>2. side \in Sides
      BY DEF TypeOK
    <2>3. CASE side = "buy"
      <3>1. pc' = "partial" /\ side' = "sell"
        BY <1>8, <2>3 DEF LeaveSide
      <3> QED BY <1>0, <1>2, <1>8, <2>1, <2>3, <3>1 DEF ClosedInv
    <2>4. CASE side = "sell"
      <3>1. pc' = "record"
        BY <1>8, <2>4 DEF LeaveSide
      <3>2. results["buy"].status = "PARTIALLY_FILLED" => Closed("buy")'
        BY <1>0, <1>4, <1>8, <2>4 DEF ClosedInv
      <3> QED BY <1>0, <1>2, <1>8, <2>1, <2>4, <3>1, <3>2 DEF ClosedInv
    <2> QED BY <1>0, <2>2, <2>3, <2>4
  \* Going on with the same side.
  <1>9. ASSUME pc \in {"partial", "query", "cancel"}, pc' \in {"query", "cancel"},
               side' = side
        PROVE  ClosedInv'
    BY <1>0, <1>2, <1>3, <1>4, <1>9 DEF ClosedInv
  <1>10. CASE Partial
    <2>1. CASE results[side].status = "PARTIALLY_FILLED"
      BY <1>9, <1>10, <2>1 DEF Partial
    <2>2. CASE results[side].status # "PARTIALLY_FILLED"
      BY <1>8, <1>10, <2>2 DEF Partial
    <2> QED BY <2>1, <2>2
  <1>11. CASE Query
    <2>1. CASE IsFilled /\ LeaveSide /\ UNCHANGED orders
      <3> DEFINE k == Known(side)
      <3> HIDE DEF k
      <3>1. ~IsLive(k)
        BY <2>1 DEF IsFilled, IsLive, OrdersInv, TypeOK, k
      <3>2. \A s \in Sides : s = side => Closed(s)
        BY <3>1 DEF Closed, k
      <3>3. \A s \in Sides : s = side => Closed(s)'
        BY <1>4, <3>2
      <3>4. pc = "query"
        BY <1>11 DEF Query
      <3> QED BY <1>8, <2>1, <3>3, <3>4
    <2>2. CASE CancelNext
      BY <1>9, <1>11, <2>2 DEF Query, CancelNext
    <2>3. CASE Throw
      BY <2>3 DEF Throw, Return
    <2> QED BY <1>5, <1>11, <2>1, <2>2, <2>3 DEF Query
  <1>12. CASE Cancel
    <2> DEFINE k == Known(side)
    <2>1. side \in Sides
      BY DEF TypeOK
    <2>2. CASE LeaveCancel /\ (CancelKnown \/ (UNCHANGED orders
                  /\ uncancelled' = uncancelled \cup
                       {id \in {k} : orders' = orders /\ IsLive(id)}))
      <3>1. \A s \in Sides : s = side => Closed(s)'
        <4> SUFFICES ASSUME NEW s \in Sides, s = side, IsLive(Known(s))'
                     PROVE  Known(s)' \in uncancelled'
          BY DEF Closed
        <4>1. Known(s)' = k
          BY <1>2 DEF Known
        <4> HIDE DEF k
        <4>2. k \in DOMAIN orders' /\ orders'[k].live
          BY <4>1 DEF IsLive
        <4>3. ~CancelKnown
          <5> SUFFICES ASSUME CancelKnown PROVE FALSE
            OBVIOUS
          <5>1. k \in DOMAIN orders
                /\ orders'[k] = [orders[k] EXCEPT !.live = @ /\ k # k]
            BY <4>2 DEF CancelKnown, k
          <5>2. orders[k] \in Orders
            BY <5>1 DEF TypeOK, Orders
          <5>3. orders'[k].live = (orders[k].live /\ k # k)
            BY <5>1, <5>2 DEF Orders
          <5> QED BY <4>2, <5>3
        <4> QED BY <2>2, <4>1, <4>2, <4>3 DEF IsLive
      <3>2. CASE pc = "withdraw"
        <4>1. pc' = "partial" /\ side' = "buy" /\ LeftAlone = {side}
          BY <2>2, <3>2 DEF LeaveCancel, ClosedInv
        <4> QED BY <1>3, <2>1, <3>1, <4>1 DEF ClosedInv
      <3>3. CASE pc = "cancel"
        <4>1. LeaveSide
          BY <2>2, <3>3 DEF LeaveCancel
        <4> QED BY <1>8, <3>1, <3>3, <4>1
      <3> QED BY <1>12, <3>2, <3>3 DEF Cancel
    <2>3. CASE Throw
      BY <2>3 DEF Throw, Return
    <2> QED BY <1>5, <1>12, <2>2, <2>3 DEF Cancel, history
  <1>13. ASSUME NEW id \in DOMAIN orders, Fill(id) PROVE UNCHANGED <<pc, side>>
    BY <1>13 DEF Fill
  <1>14. ~Record /\ ~Execute
    BY DEF Record, Return, Execute
  <1>15. ASSUME NEW s \in Sides, Place(s) PROVE pc = "fire"
    BY <1>15 DEF Place
  <1>16. CASE UNCHANGED vars
    BY <1>5, <1>16 DEF vars
  <1>17. Gather => pc = "fire"
    BY DEF Gather
  <1> QED BY <1>5, <1>6, <1>7, <1>10, <1>11, <1>12, <1>13, <1>14, <1>15, <1>16, <1>17
          DEF Next, Engine


-----------------------------------------------------------------------------
(* The trades that are over, and the order manager *)

LEMMA LoggedStep ==
    ASSUME TypeOK, LoggedInv, [Next]_vars PROVE LoggedInv'
  <1>0. trade \in Nat /\ DOMAIN trades = 1 .. Len(trades)
        /\ \A i \in DOMAIN trades : trades[i].trade \in 1 .. trade
    <2> DEFINE L == [trade : 1 .. trade, results : [Sides -> Results],
                     matched : 0 .. Quantity]
    <2>1. trade \in Nat /\ trades \in Seq(L)
      BY DEF TypeOK
    <2>2. \A t \in L : t.trade \in 1 .. trade
      OBVIOUS
    <2> HIDE DEF L
    <2>3. DOMAIN trades = 1 .. Len(trades) /\ \A i \in DOMAIN trades : trades[i] \in L
      BY <2>1
    <2> QED BY <2>1, <2>2, <2>3
  <1>1. CASE pc' = "idle"
    BY <1>1 DEF LoggedInv
  <1>2. CASE Execute
    <2>1. trade' = trade + 1 /\ trades' = trades
      BY <1>2 DEF Execute
    <2>2. trade' # 0 /\ \A i \in DOMAIN trades : trades[i].trade # trade'
      BY <1>0, <2>1
    <2> QED BY <2>1, <2>2 DEF LoggedInv
  <1>3. CASE ~Execute /\ pc' # "idle"
    <2>1. UNCHANGED <<trade, trades>> /\ pc # "idle"
      BY <1>3 DEF Next, Engine, Place, Gather, OneSided, Partial, Query, Cancel, Record,
                  Throw, Return, Fill, vars
    <2> QED BY <2>1 DEF LoggedInv
  <1> QED BY <1>1, <1>2, <1>3

LEMMA NoOrphanStep ==
    ASSUME TypeOK, PlacedInv, NoOrphan, Grows, [Next]_vars PROVE NoOrphan'
  <1> SUFFICES ASSUME NEW id \in DOMAIN orders', id \notin unanswered'
               PROVE  \/ managed'[<<id[1], id[2]>>].order = id[3]
                      \/ id[1] = trade' /\ pc' = "fire"
                      \/ id[1] \in threw'
    BY DEF NoOrphan
  <1>1. CASE id \notin DOMAIN orders
    BY <1>1 DEF Grows
  <1>2. CASE id \in DOMAIN orders
    <2> DEFINE l == <<id[1], id[2]>>
    <2>1. id \notin unanswered /\ id \in (1 .. trade) \X Sides \X Tries
      BY <1>2 DEF Grows, TypeOK
    <2>2. /\ l \in Legs /\ l \in DOMAIN managed /\ id = <<id[1], id[2], id[3]>>
          /\ id[2] \in Sides /\ id[3] \in Tries
      BY <2>1 DEF TypeOK, Legs
    <2>3. \/ managed[l].order = id[3]
          \/ id[1] = trade /\ pc = "fire"
          \/ id[1] \in threw
      <3>1. id \in DOMAIN orders \ unanswered
        BY <1>2, <2>1
      <3> QED BY <3>1 DEF NoOrphan
    <2>4. CASE UpdateOrders /\ pc = "fire" /\ \A s \in Sides : leg[s] = "placed"
      <3>1. managed \in [Legs -> Results] /\ results \in [Sides -> Results]
        BY DEF TypeOK
      <3>2. CASE id[1] = trade
        <4>1. <<trade, id[2], id[3]>> \in DOMAIN orders /\ <<trade, id[2], id[3]>> \notin unanswered
          BY <1>2, <2>1, <2>2, <3>2
        <4>2. results[id[2]].order = id[3]
          BY <2>2, <2>4, <4>1 DEF PlacedInv
        <4>3. managed'[<<trade, id[2]>>] = results[id[2]]
          <5>1. <<trade, "buy">> # <<trade, "sell">>
            OBVIOUS
          <5>2. <<trade, id[2]>> \in DOMAIN managed
            BY <2>2, <3>2
          <5> QED BY <2>2, <2>4, <3>1, <5>1, <5>2 DEF UpdateOrders, Sides
        <4> QED BY <3>2, <4>2, <4>3
      <3>3. CASE id[1] # trade
        <4>1. managed'[l] = managed[l]
          BY <2>2, <2>4, <3>3 DEF UpdateOrders
        <4> QED BY <2>3, <3>3, <4>1 DEF Grows
      <3> QED BY <3>2, <3>3
    <2>5. CASE Gather
      <3>1. CASE Throw
        BY <1>2, <2>1, <2>3, <2>5, <3>1 DEF Gather, Throw, Grows
      <3>2. CASE ~Throw
        <4>1. pc' \notin {"idle", "fire"}
          BY <2>5, <3>2 DEF Gather
        <4> QED BY <2>4, <2>5, <4>1, Steady DEF Gather
      <3> QED BY <3>1, <3>2
    <2>6. CASE ~Gather
      <3>1. managed'[l] = managed[l]
        <4>1. CASE Execute
          BY <2>2, <4>1 DEF Execute
        <4>2. CASE UNCHANGED managed
          BY <4>2
        <4> QED BY <2>6, <4>1, <4>2
                DEF Next, Engine, Place, OneSided, Partial, Query, Cancel, Record,
                    Throw, Fill, vars
      <3>2. pc = "fire" => pc' = "fire" /\ trade' = trade
        BY <2>6 DEF Next, Engine, Execute, Place, OneSided, Partial, Query, Cancel, Record,
                    Fill, vars
      <3> QED BY <2>3, <3>1, <3>2 DEF Grows
    <2> QED BY <2>5, <2>6
  <1> QED BY <1>1, <1>2

\* A logged trade stays what it is, and its orders too.
LEMMA LoggedKept ==
    ASSUME TypeOK, LoggedInv, Grows, NEW i \in DOMAIN trades,
           NEW id, id[1] = trades[i].trade, id \in DOMAIN orders'
    PROVE  id \in DOMAIN orders
  BY DEF LoggedInv, Grows

\* What a step logs.
LEMMA Logged ==
    ASSUME TypeOK, [Next]_vars, NEW i \in DOMAIN trades'
    PROVE  \/ i \in DOMAIN trades /\ trades'[i] = trades[i]
           \/ /\ pc = "record" /\ UNCHANGED <<orders, unanswered, uncancelled>>
              /\ trades'[i].trade = trade /\ trades'[i].results = results
  <1>1. DOMAIN trades = 1 .. Len(trades) /\ Len(trades) \in Nat
    BY DEF TypeOK
  <1>2. CASE Record
    <2> DEFINE r == [trade |-> trade, results |-> results,
                     matched |-> Lesser(results["buy"].filled, results["sell"].filled)]
    <2>1. trades' = Append(trades, r) /\ pc = "record"
          /\ UNCHANGED <<orders, unanswered, uncancelled>>
      BY <1>2 DEF Record, history
    <2>2. r.trade = trade /\ r.results = results
      OBVIOUS
    <2> HIDE DEF r
    <2>3. \/ i \in DOMAIN trades /\ trades'[i] = trades[i]
          \/ trades'[i] = r
      BY <1>1, <2>1 DEF TypeOK
    <2> QED BY <2>1, <2>2, <2>3
  <1>3. CASE UNCHANGED trades
    BY <1>3
  <1> QED BY <1>2, <1>3 DEF Next, Engine, Execute, Place, Gather, OneSided, Partial, Query,
                            Cancel, Throw, Fill, vars

LEMMA UnmatchedStep ==
    ASSUME TypeOK, ClosedInv, LoggedInv, UnmatchedIsWithdrawn, Grows, [Next]_vars
    PROVE  UnmatchedIsWithdrawn'
  <1> SUFFICES ASSUME NEW i \in DOMAIN trades', NEW s \in Sides,
                      Unmatched(trades'[i], s),
                      <<trades'[i].trade, s, trades'[i].results[s].order>> \in DOMAIN orders',
                      orders'[<<trades'[i].trade, s, trades'[i].results[s].order>>].live
               PROVE  <<trades'[i].trade, s, trades'[i].results[s].order>> \in uncancelled'
    BY DEF UnmatchedIsWithdrawn, Unmatched, IsLive
  <1> DEFINE id == <<trades'[i].trade, s, trades'[i].results[s].order>>
  <1>1. CASE i \in DOMAIN trades /\ trades'[i] = trades[i]
    <2>1. id[1] = trades[i].trade
      BY <1>1
    <2>2. UnmatchedIsWithdrawn => (IsLive(id) => id \in uncancelled)
      BY <1>1 DEF UnmatchedIsWithdrawn
    <2> HIDE DEF id
    <2>3. id \in DOMAIN orders' /\ orders'[id].live
      BY DEF id
    <2>4. id \in DOMAIN orders
      BY <1>1, <2>1, <2>3, LoggedKept
    <2>5. orders[id].live
      BY <2>3, <2>4 DEF Grows
    <2>6. id \in uncancelled'
      BY <2>2, <2>4, <2>5 DEF IsLive, Grows
    <2> QED BY <2>6 DEF id
  <1>2. CASE pc = "record" /\ UNCHANGED <<orders, unanswered, uncancelled>>
             /\ trades'[i].trade = trade /\ trades'[i].results = results
    <2>1. id = Known(s)
      BY <1>2 DEF Known
    <2>2. results[s].status = "PARTIALLY_FILLED" \/ s \in LeftAlone
      BY <1>2 DEF Unmatched, LeftAlone
    <2>3. Closed(s)
      BY <1>2, <2>2 DEF ClosedInv, Sides
    <2> QED BY <1>2, <2>1, <2>3 DEF Closed, IsLive
  <1> QED BY <1>1, <1>2, Logged

LEMMA FilledStep ==
    ASSUME TypeOK, FlatInv, LoggedInv, FilledIsFlat, Grows, [Next]_vars
    PROVE  FilledIsFlat'
  <1> SUFFICES ASSUME NEW i \in DOMAIN trades', BothFilled(trades'[i]),
                      NEW s \in Sides, NEW n \in Tries,
                      <<trades'[i].trade, s, n>> \in DOMAIN orders' \ unanswered'
               PROVE  orders'[<<trades'[i].trade, s, n>>].filled = Quantity
    BY DEF FilledIsFlat, BothFilled
  <1> DEFINE id == <<trades'[i].trade, s, n>>
  <1>1. CASE i \in DOMAIN trades /\ trades'[i] = trades[i]
    <2>1. id[1] = trades[i].trade
      BY <1>1
    <2>2. id \in DOMAIN orders \ unanswered => orders[id].filled = Quantity
      BY <1>1 DEF FilledIsFlat
    <2> HIDE DEF id
    <2>3. id \in DOMAIN orders' \ unanswered'
      BY DEF id
    <2>4. id \in DOMAIN orders
      BY <1>1, <2>1, <2>3, LoggedKept
    <2>5. orders'[id].filled = Quantity
      BY <2>2, <2>3, <2>4 DEF Grows
    <2> QED BY <2>5 DEF id
  <1>2. CASE pc = "record" /\ UNCHANGED <<orders, unanswered, uncancelled>>
             /\ trades'[i].trade = trade /\ trades'[i].results = results
    BY <1>2 DEF FlatInv, BothFilled
  <1> QED BY <1>1, <1>2, Logged

-----------------------------------------------------------------------------
(* The theorems *)

LEMMA NextLive == LiveInv /\ [Next]_vars => LiveInv'
  <1> SUFFICES ASSUME LiveInv, [Next]_vars PROVE LiveInv'
    OBVIOUS
  <1> USE DEF LiveInv
  <1>1. Grows
    BY NextGrows
  <1>2. TypeOK'
    BY TypeStep
  <1>3. OrdersInv'
    BY <1>1 DEF Grows, OrdersInv
  <1>4. PlacedInv' /\ FlatInv' /\ ClosedInv' /\ LoggedInv'
    BY <1>1, PlacedStep, FlatStep, ClosedStep, LoggedStep
  <1>5. NoOrphan' /\ UnmatchedIsWithdrawn' /\ FilledIsFlat'
    BY <1>1, NoOrphanStep, UnmatchedStep, FilledStep
  <1> QED BY <1>2, <1>3, <1>4, <1>5

\* The inductive invariant: where the orders of a trade are known, and which of
\* them are closed, at every step of execute().
THEOREM LiveInvHolds == Spec => []LiveInv
  <1> QED BY InitLive, NextLive, PTL DEF Spec

\* The types of the engine, of the order manager and of the exchanges' orders:
\* perform() makes no attempt after its last.
THEOREM TypeCorrect == Spec => []TypeOK
  <1>1. LiveInv => TypeOK
    BY DEF LiveInv
  <1> QED BY <1>1, LiveInvHolds, PTL

\* The order manager knows every order at an exchange, but those whose answer was
\* lost, of the trade that is being placed, and of a trade that threw.
THEOREM NoOrphanHolds == Spec => []NoOrphan
  <1>1. LiveInv => NoOrphan
    BY DEF LiveInv
  <1> QED BY <1>1, LiveInvHolds, PTL

\* handle_partial_fill(): when a trade is logged, the leg that is filled in part
\* or that is left alone is no longer open, unless it could not be cancelled.
THEOREM UnmatchedIsWithdrawnHolds == Spec => []UnmatchedIsWithdrawn
  <1>1. LiveInv => UnmatchedIsWithdrawn
    BY DEF LiveInv
  <1> QED BY <1>1, LiveInvHolds, PTL

\* A trade logged as FILLED on both sides sold what it bought, but for orders
\* whose answer was lost.
THEOREM FilledIsFlatHolds == Spec => []FilledIsFlat
  <1>1. LiveInv => FilledIsFlat
    BY DEF LiveInv
  <1> QED BY <1>1, LiveInvHolds, PTL


-----------------------------------------------------------------------------
(* The fills and their sums *)

LEMMA FillsOf ==
    ASSUME fills \in Seq(Fills)
    PROVE  /\ Len(fills) \in Nat /\ DOMAIN fills = 1 .. Len(fills)
           /\ IsFiniteSet(DOMAIN fills) /\ 0 \notin DOMAIN fills
           /\ \A i \in DOMAIN fills : fills[i] \in Fills /\ Change[i] \in Int
           /\ Change = [i \in DOMAIN fills |-> fills[i].change]
           /\ \A e : FillsAt(e) \subseteq DOMAIN fills
  <1>1. Len(fills) \in Nat /\ DOMAIN fills = 1 .. Len(fills)
    OBVIOUS
  <1>2. IsFiniteSet(DOMAIN fills) /\ 0 \notin DOMAIN fills
    BY <1>1, FS_Interval
  <1>3. ASSUME NEW i \in DOMAIN fills PROVE fills[i] \in Fills /\ Change[i] \in Int
    <2>1. fills[i] \in Fills
      BY <1>1
    <2>2. fills[i].change \in Int
      BY <2>1, InventoryConstants DEF Fills
    <2> QED BY <2>1, <2>2 DEF Change
  <1> QED BY <1>1, <1>2, <1>3 DEF Change, FillsAt

\* A set of fills that happened is finite, and its sum is a number.
LEMMA SumOfFills ==
    ASSUME fills \in Seq(Fills), NEW S, S \subseteq DOMAIN fills
    PROVE  /\ IsFiniteSet(S) /\ SumFunctionOnSet(Change, S) \in Int
           /\ \A i \in DOMAIN fills \ S :
                  SumFunctionOnSet(Change, S \cup {i}) = Change[i] + SumFunctionOnSet(Change, S)
  <1>1. IsFiniteSet(S) /\ \A i \in S : Change[i] \in Int
    BY FillsOf, FS_Subset
  <1>2. SumFunctionOnSet(Change, S) \in Int
    BY <1>1, SumType
  <1>3. ASSUME NEW i \in DOMAIN fills \ S
        PROVE  SumFunctionOnSet(Change, S \cup {i}) = Change[i] + SumFunctionOnSet(Change, S)
    <2>1. \A y \in S \cup {i} : Change[y] \in Int
      BY FillsOf
    <2> QED BY <1>1, <2>1, SumWith
  <1> QED BY <1>1, <1>2, <1>3

LEMMA HeldType ==
    ASSUME fills \in Seq(Fills)
    PROVE  /\ Held \in [Accounts -> Int]
           /\ \A e \in Accounts :
                  Held[e] = Deposits[e] + SumFunctionOnSet(Change, FillsAt(e))
  <1>1. \A e \in Accounts : Deposits[e] + SumFunctionOnSet(Change, FillsAt(e)) \in Int
    BY FillsOf, SumOfFills, InventoryConstants
  <1> QED BY <1>1 DEF Held

\* One fill more leaves the sums of the others as they are.
LEMMA FillAdds ==
    ASSUME fills \in Seq(Fills), NEW e \in Accounts, NEW c \in Changes,
           fills' = Append(fills, [exchange |-> e, change |-> c])
    PROVE  /\ fills' \in Seq(Fills) /\ DOMAIN fills \subseteq DOMAIN fills'
           /\ Len(fills') \in DOMAIN fills' \ DOMAIN fills
           /\ \A S \in SUBSET DOMAIN fills :
                  SumFunctionOnSet(Change', S) = SumFunctionOnSet(Change, S)
           /\ \A x : FillsAt(x) \subseteq FillsAt(x)'
           /\ \A x : FillsAt(x)' \cap DOMAIN fills = FillsAt(x)
           /\ \A x \in Accounts : Held'[x] = IF x = e THEN Held[x] + c ELSE Held[x]
  <1> DEFINE n == Len(fills')
             r == [exchange |-> e, change |-> c]
  <1>1. fills' \in Seq(Fills) /\ r \in Fills
    BY DEF Fills
  <1>2. /\ n = Len(fills) + 1 /\ DOMAIN fills' = 1 .. n /\ fills'[n] = r
        /\ \A i \in DOMAIN fills : fills'[i] = fills[i]
        /\ n \in DOMAIN fills' \ DOMAIN fills /\ DOMAIN fills' = DOMAIN fills \cup {n}
    BY <1>1, FillsOf
  <1>3. /\ Change'[n] = c /\ c \in Int
        /\ \A i \in DOMAIN fills : Change'[i] = Change[i] /\ Change[i] \in Int
    BY <1>2, FillsOf, InventoryConstants DEF Change
  <1>4. \A S \in SUBSET DOMAIN fills :
            SumFunctionOnSet(Change', S) = SumFunctionOnSet(Change, S)
    <2> SUFFICES ASSUME NEW S \in SUBSET DOMAIN fills
                 PROVE  SumFunctionOnSet(Change', S) = SumFunctionOnSet(Change, S)
      OBVIOUS
    <2>1. IsFiniteSet(S) /\ \A i \in S : Change'[i] = Change[i]
      BY <1>3, SumOfFills
    <2> QED BY <2>1, SumAgree
  <1>5. \A x : FillsAt(x)' = IF x = e THEN FillsAt(x) \cup {n} ELSE FillsAt(x)
    BY <1>2 DEF FillsAt
  <1>6. ASSUME NEW x \in Accounts
        PROVE  Held'[x] = IF x = e THEN Held[x] + c ELSE Held[x]
    <2>1. /\ Held'[x] = Deposits[x] + SumFunctionOnSet(Change', FillsAt(x)')
          /\ Held[x] = Deposits[x] + SumFunctionOnSet(Change, FillsAt(x))
      BY DEF Held
    <2>2. /\ FillsAt(x) \subseteq DOMAIN fills /\ IsFiniteSet(FillsAt(x))
          /\ SumFunctionOnSet(Change', FillsAt(x)) = SumFunctionOnSet(Change, FillsAt(x))
          /\ SumFunctionOnSet(Change, FillsAt(x)) \in Int /\ Deposits[x] \in Int
      BY <1>4, FillsOf, SumOfFills, InventoryConstants
    <2>3. CASE x # e
      BY <1>5, <2>1, <2>2, <2>3
    <2>4. CASE x = e
      <3>1. n \notin FillsAt(x) /\ \A y \in FillsAt(x) \cup {n} : Change'[y] \in Int
        BY <1>2, <1>3, <2>2
      <3>2. SumFunctionOnSet(Change', FillsAt(x) \cup {n})
                = Change'[n] + SumFunctionOnSet(Change', FillsAt(x))
        BY <2>2, <3>1, SumWith
      <3>3. Held'[x] = Deposits[x] + (c + SumFunctionOnSet(Change, FillsAt(x)))
        BY <1>3, <1>5, <2>1, <2>2, <2>4, <3>2
      <3> HIDE DEF n, r
      <3> QED BY <1>3, <2>1, <2>2, <2>4, <3>3
    <2> QED BY <2>3, <2>4
  <1>7. \A x : FillsAt(x)' \cap DOMAIN fills = FillsAt(x)
    BY <1>2, <1>5, FillsOf
  <1> QED BY <1>1, <1>2, <1>4, <1>5, <1>6, <1>7

-----------------------------------------------------------------------------
(* check_drift *)

LEMMA ProductsOf ==
    ASSUME NEW x \in Nat, NEW y \in Nat, NEW z \in Nat
    PROVE  x * (y + z) = x * y + x * z /\ x * y \in Nat /\ x * z \in Nat
  OBVIOUS

LEMMA MostAndLeast ==
    ASSUME states \in [Accounts -> Int \cup {Absent}], Present # {}
    PROVE  /\ IsFiniteSet(Present) /\ \A e \in Present : states[e] \in Int
           /\ \E e \in Present : \A f \in Present : states[e] >= states[f]
           /\ \E e \in Present : \A f \in Present : states[e] <= states[f]
  <1> DEFINE Up == {states[e] : e \in Present}
             Down == {-states[e] : e \in Present}
  <1>1. IsFiniteSet(Present) /\ Present \subseteq Accounts
    BY InventoryConstants, FS_Subset DEF Present
  <1>2. \A e \in Present : states[e] \in Int
    BY DEF Present
  <1>3. IsFiniteSet(Up) /\ IsFiniteSet(Down)
    <2> DEFINE up == [e \in Present |-> states[e]]
               down == [e \in Present |-> -states[e]]
    <2>1. up \in Surjection(Present, Up)
      BY DEF Surjection
    <2>2. down \in Surjection(Present, Down)
      BY DEF Surjection
    <2> HIDE DEF up, down, Up, Down
    <2> QED BY <1>1, <2>1, <2>2, FS_Surjection
  <1>4. Up \in SUBSET Int /\ Down \in SUBSET Int /\ Up # {} /\ Down # {}
    BY <1>2
  <1>5. \E e \in Present : \A f \in Present : states[e] >= states[f]
    <2>1. \E x \in Up : \A y \in Up : x >= y
      BY <1>3, <1>4, GreatestExists
    <2> QED BY <2>1
  <1>6. \E e \in Present : \A f \in Present : states[e] <= states[f]
    <2>1. PICK x \in Down : \A y \in Down : x >= y
      BY <1>3, <1>4, GreatestExists
    <2>2. PICK e \in Present : x = -states[e]
      OBVIOUS
    <2>3. ASSUME NEW f \in Present PROVE states[e] <= states[f]
      <3>1. -states[e] >= -states[f]
        BY <2>1, <2>2
      <3> QED BY <1>2, <3>1
    <2> QED BY <2>3
  <1> QED BY <1>1, <1>2, <1>5, <1>6

\* An alert names the exchanges of the largest and of the smallest balance.
LEMMA AlertOf ==
    ASSUME states \in [Accounts -> Int \cup {Absent}], NEW a \in CheckDrift
    PROVE  /\ a \in [excess : Accounts, deficit : Accounts]
           /\ a.excess \in Present /\ a.deficit \in Present
           /\ states[a.excess] \in Int /\ states[a.deficit] \in Int
           /\ states[a.deficit] <= states[a.excess]
           /\ Exceeds(states[a.excess], states[a.deficit],
                      SumFunctionOnSet(states, Present), Cardinality(Present))
  <1> DEFINE most == CHOOSE e \in Present : \A f \in Present : states[e] >= states[f]
             least == CHOOSE e \in Present : \A f \in Present : states[e] <= states[f]
             n == Cardinality(Present)
             total == SumFunctionOnSet(states, Present)
  <1>1. /\ ~(n < 2 \/ total <= 0) /\ a = [excess |-> most, deficit |-> least]
        /\ Exceeds(states[most], states[least], total, n)
    BY DEF CheckDrift
  <1>2. Present # {}
    BY <1>1, FS_EmptySet
  <1>3. most \in Present /\ \A f \in Present : states[most] >= states[f]
    BY <1>2, MostAndLeast
  <1>4. least \in Present /\ \A f \in Present : states[least] <= states[f]
    BY <1>2, MostAndLeast
  <1>5. states[most] \in Int /\ states[least] \in Int /\ most \in Accounts /\ least \in Accounts
    BY <1>2, <1>3, <1>4, MostAndLeast DEF Present
  <1>6. states[least] <= states[most]
    BY <1>3, <1>4
  <1> HIDE DEF most, least, n, total
  <1>7. a.excess = most /\ a.deficit = least
    BY <1>1
  <1>8. a \in [excess : Accounts, deficit : Accounts]
    BY <1>1, <1>5
  <1> QED BY <1>1, <1>3, <1>4, <1>5, <1>6, <1>7, <1>8 DEF n, total

\* The drift by what check_drift() compares is one by what the exchanges hold:
\* those without an entry hold nothing, and leaving them out only raises the mean.
LEMMA DriftIsReal ==
    ASSUME TrackerTypeOK, Exact, NEW a \in CheckDrift
    PROVE  Drifts(a.excess, a.deficit)
  <1> DEFINE n == Cardinality(Present)
             m == Cardinality(Accounts)
             total == SumFunctionOnSet(states, Present)
             gap == states[a.excess] - states[a.deficit]
  <1>1. fills \in Seq(Fills) /\ states \in [Accounts -> Int \cup {Absent}]
    BY DEF TrackerTypeOK
  <1>2. Present \subseteq Accounts /\ IsFiniteSet(Accounts)
    BY InventoryConstants DEF Present
  <1>3. n \in Nat /\ m \in Nat /\ n <= m
    BY <1>2, FS_Subset, FS_CardinalityType
  <1>4. \A e \in Present : states[e] = Held[e] /\ states[e] \in Int
    BY <1>1, <1>2 DEF Exact, Amount, Present
  <1>5. \A e \in Accounts \ Present : Held[e] = 0
    BY <1>2 DEF Exact, Amount, Present
  <1>6. total = SumFunctionOnSet(Held, Present)
    <2>1. IsFiniteSet(Present)
      BY <1>2, FS_Subset
    <2> QED BY <1>4, <2>1, SumAgree
  <1>7. SumFunction(Held) = total
    <2>1. SumFunction(Held) = SumFunctionOnSet(Held, Accounts)
      BY SumIsOnDomain DEF Held
    <2>2. \A e \in Accounts : Held[e] \in Int
      BY <1>1, HeldType
    <2>3. SumFunctionOnSet(Held, Accounts) = SumFunctionOnSet(Held, Present)
      BY <1>2, <1>5, <2>2, SumOfNonzero
    <2> QED BY <1>6, <2>1, <2>3
  <1>8. total \in Int
    BY <1>2, <1>4, FS_Subset, SumType
  <1>9. /\ gap \in Nat /\ a.excess \in Present /\ a.deficit \in Present
        /\ Exceeds(states[a.excess], states[a.deficit], total, n)
    BY <1>1, AlertOf
  <1>10. gap * n * 100 > DriftThreshold * total
    BY <1>9 DEF Exceeds
  <1>11. gap = Held[a.excess] - Held[a.deficit]
    BY <1>4, <1>9
  <1> HIDE DEF n, m, total, gap
  <1>12. gap * n <= gap * m /\ gap * n \in Nat /\ gap * m \in Nat
    <2>1. m = n + (m - n) /\ m - n \in Nat
      BY <1>3
    <2>2. gap * m = gap * n + gap * (m - n) /\ gap * (m - n) \in Nat /\ gap * n \in Nat
      BY <1>3, <1>9, <2>1, ProductsOf
    <2> QED BY <2>2
  <1>13. DriftThreshold * total \in Int
    BY <1>8, InventoryConstants
  <1>14. gap * m * 100 > DriftThreshold * total
    BY <1>10, <1>12, <1>13
  <1> QED BY <1>7, <1>11, <1>14 DEF Drifts, m

-----------------------------------------------------------------------------
(* The invariant *)

LEMMA InvInit == TrackerInit => TrackerInv
  <1> SUFFICES ASSUME TrackerInit PROVE TrackerInv
    OBVIOUS
  <1>1. fills \in Seq(Fills) /\ DOMAIN fills = {}
    BY DEF TrackerInit
  <1>2. \A e \in Accounts : Held[e] >= 0
    <2>1. \A e : FillsAt(e) = {}
      BY <1>1 DEF FillsAt
    <2> QED BY <2>1, SumOfNone, InventoryConstants DEF Held
  <1>3. TrackerTypeOK
    <2>1. /\ seen \in [Accounts -> SUBSET Nat] /\ booked \in [Accounts -> SUBSET Nat]
          /\ states \in [Accounts -> Int \cup {Absent}]
      BY DEF TrackerInit, Unseen
    <2>2. failures \in 0 .. MaxFailures
      BY InventoryConstants DEF TrackerInit
    <2> QED BY <1>1, <1>2, <2>1, <2>2 DEF TrackerInit, TrackerTypeOK
  <1> QED BY <1>3 DEF TrackerInit, TrackerInv, RecordsInv, FetchedInv, FillsAreCounted

\* What the invariant says of one exchange.
Counted(e) ==
    seen[e] # Unseen =>
        /\ Amount(states[e]) = Deposits[e] + SumFunctionOnSet(Change, seen[e])
                               + SumFunctionOnSet(Change, booked[e])
        /\ recorded \cap FillsAt(e) \subseteq seen[e] \cup booked[e]

LEMMA CountedAll == FillsAreCounted <=> \A e \in Accounts : Counted(e)
  BY DEF FillsAreCounted, Counted

\* A fill changes no sum of those before it.
LEMMA FillStep == TrackerInv /\ FillOrder => TrackerInv'
  <1> SUFFICES ASSUME TrackerInv, FillOrder PROVE TrackerInv'
    OBVIOUS
  <1> USE DEF TrackerInv
  <1>1. PICK e \in Accounts, c \in Changes :
            /\ Held[e] + c >= 0
            /\ fills' = Append(fills, [exchange |-> e, change |-> c])
    BY DEF FillOrder
  <1>2. fills \in Seq(Fills)
    BY DEF TrackerTypeOK
  <1>3. /\ fills' \in Seq(Fills) /\ DOMAIN fills \subseteq DOMAIN fills'
        /\ Len(fills') \in DOMAIN fills' \ DOMAIN fills
        /\ \A S \in SUBSET DOMAIN fills :
               SumFunctionOnSet(Change', S) = SumFunctionOnSet(Change, S)
        /\ \A x : FillsAt(x) \subseteq FillsAt(x)' /\ FillsAt(x)' \cap DOMAIN fills = FillsAt(x)
        /\ \A x \in Accounts : Held'[x] = IF x = e THEN Held[x] + c ELSE Held[x]
    BY <1>1, <1>2, FillAdds
  <1>4. /\ UNCHANGED <<states, running, thread, left, fetched, alerts, stop, recorded, seen, booked, failures>>
        /\ unrecorded' \in {unrecorded, unrecorded \cup {Len(fills')}}
    BY DEF FillOrder, counted
  <1>5. TrackerTypeOK'
    <2>1. \A x \in Accounts : Held'[x] >= 0
      BY <1>1, <1>3 DEF TrackerTypeOK
    <2>2. unrecorded' \subseteq DOMAIN fills'
      BY <1>3, <1>4 DEF TrackerTypeOK
    <2> QED BY <1>3, <1>4, <2>1, <2>2 DEF TrackerTypeOK
  <1>6. recorded \subseteq DOMAIN fills /\ \A x : FillsAt(x) \subseteq DOMAIN fills
    BY <1>2, FillsOf DEF RecordsInv
  <1>7. RecordsInv'
    BY <1>3, <1>4, <1>6 DEF RecordsInv
  <1>8. \A x : recorded \cap FillsAt(x)' = recorded \cap FillsAt(x)
    BY <1>3, <1>6
  <1>9. FetchedInv'
    BY <1>3, <1>4, <1>6, <1>8 DEF FetchedInv
  <1>10. \A x \in Accounts : Counted(x)'
    BY <1>3, <1>4, <1>6, <1>8, CountedAll DEF RecordsInv, Counted
  <1>11. FillsAreCounted'
    BY <1>10 DEF FillsAreCounted, Counted
  <1> QED BY <1>5, <1>7, <1>9, <1>11

\* The balance and what is booked change by the same fill, which was neither
\* fetched into the tracker's hands nor booked before.
LEMMA RecordStep ==
    ASSUME TrackerInv, NEW i \in unrecorded, RecordFill(i)
    PROVE  TrackerInv'
  <1> USE DEF TrackerInv
  <1>0. /\ fills \in Seq(Fills) /\ i \in DOMAIN fills
        /\ fills[i] \in Fills /\ Change[i] \in Int
    BY FillsOf DEF TrackerTypeOK
  <1>x. PICK x \in Accounts : x = fills[i].exchange
    BY <1>0 DEF Fills
  <1>1. /\ fills \in Seq(Fills) /\ i \in DOMAIN fills /\ x \in Accounts
        /\ Change[i] \in Int /\ i \in FillsAt(x)
    BY <1>0, <1>x DEF FillsAt
  <1>2. /\ unrecorded' = unrecorded \ {i} /\ recorded' = recorded \cup {i}
        /\ states' = [states EXCEPT ![x] = Amount(@) + Change[i]]
        /\ booked' = [booked EXCEPT ![x] = @ \cup {i}]
        /\ UNCHANGED <<running, thread, left, fetched, alerts, stop, fills, seen, failures>>
        /\ thread \notin {"fetch", "store"}
    BY <1>x DEF RecordFill, Unlocked
  <1>3. Change' = Change /\ Held' = Held /\ \A e : FillsAt(e)' = FillsAt(e)
    BY <1>2 DEF Change, Held, FillsAt
  <1>4. Amount(states[x]) \in Int
    BY <1>1 DEF TrackerTypeOK, Amount
  <1>5. TrackerTypeOK'
    <2>1. states' \in [Accounts -> Int \cup {Absent}]
      BY <1>1, <1>2, <1>4 DEF TrackerTypeOK
    <2>2. booked' \in [Accounts -> SUBSET Nat]
      BY <1>1, <1>2, FillsOf DEF TrackerTypeOK
    <2> QED BY <1>2, <1>3, <2>1, <2>2 DEF TrackerTypeOK
  <1>6. RecordsInv'
    BY <1>1, <1>2, <1>3 DEF RecordsInv, TrackerTypeOK
  <1>7. FetchedInv'
    BY <1>2 DEF FetchedInv
  <1>8. ASSUME NEW e \in Accounts, e # x PROVE Counted(e)'
    <2>1. states'[e] = states[e] /\ booked'[e] = booked[e] /\ i \notin FillsAt(e)
      BY <1>1, <1>2, <1>8 DEF TrackerTypeOK, FillsAt
    <2>2. recorded' \cap FillsAt(e) = recorded \cap FillsAt(e)
      BY <1>2, <2>1
    <2> QED BY <1>2, <1>3, <2>1, <2>2, CountedAll DEF Counted
  <1>9. Counted(x)'
    <2> SUFFICES ASSUME seen[x] # Unseen PROVE Counted(x)'
      BY <1>2 DEF Counted
    <2>1. /\ Amount(states[x]) = Deposits[x] + SumFunctionOnSet(Change, seen[x])
                                 + SumFunctionOnSet(Change, booked[x])
          /\ recorded \cap FillsAt(x) \subseteq seen[x] \cup booked[x]
      BY <1>1, CountedAll DEF Counted
    <2>2. /\ seen[x] \subseteq DOMAIN fills /\ booked[x] \subseteq DOMAIN fills
          /\ i \notin booked[x]
      BY <1>1, FillsOf DEF RecordsInv
    <2>3. /\ SumFunctionOnSet(Change, booked[x] \cup {i})
                = Change[i] + SumFunctionOnSet(Change, booked[x])
          /\ SumFunctionOnSet(Change, booked[x]) \in Int
          /\ SumFunctionOnSet(Change, seen[x]) \in Int
      BY <1>1, <2>2, SumOfFills
    <2>4. states'[x] = Amount(states[x]) + Change[i] /\ booked'[x] = booked[x] \cup {i}
      BY <1>1, <1>2 DEF TrackerTypeOK
    <2>5. Amount(states'[x]) = states'[x]
      BY <1>1, <1>4, <2>4, InventoryConstants DEF Amount
    <2>6. Amount(states'[x]) = Deposits[x] + SumFunctionOnSet(Change, seen[x])
                               + SumFunctionOnSet(Change, booked'[x])
      BY <1>1, <2>1, <2>3, <2>4, <2>5, InventoryConstants
    <2>7. recorded' \cap FillsAt(x) \subseteq seen[x] \cup booked'[x]
      BY <1>2, <2>1, <2>4
    <2> QED BY <1>2, <1>3, <2>6, <2>7 DEF Counted
  <1>10. FillsAreCounted'
    BY <1>8, <1>9 DEF FillsAreCounted, Counted
  <1> QED BY <1>5, <1>6, <1>7, <1>10

\* What is fetched has every fill so far, or none of them.
LEMMA FetchStep ==
    ASSUME TrackerInv, NEW e \in Accounts, Fetch(e)
    PROVE  TrackerInv'
  <1> USE DEF TrackerInv
  <1>1. /\ thread = "fetch" /\ e \in left /\ thread' = "store"
        /\ UNCHANGED <<states, running, left, alerts, stop, fills, unrecorded, recorded, seen, booked>>
        /\ \/ fetched' = [exchange |-> e, amount |-> Held[e], fills |-> FillsAt(e)]
           \/ fetched' = [exchange |-> e, amount |-> 0, fills |-> Unseen]
        /\ failures' \in 0 .. MaxFailures
    BY InventoryConstants DEF Fetch, fillVars, counted, TrackerTypeOK
  <1>2. /\ Change' = Change /\ Held' = Held /\ Held[e] \in Nat
        /\ \A x : FillsAt(x)' = FillsAt(x)
        /\ \A x : FillsAt(x) \in SUBSET Nat
        /\ Held[e] = Deposits[e] + SumFunctionOnSet(Change, FillsAt(e))
    <2>1. fills \in Seq(Fills) /\ Held[e] >= 0
      BY DEF TrackerTypeOK
    <2>2. Change' = Change /\ Held' = Held /\ \A x : FillsAt(x)' = FillsAt(x)
      BY <1>1 DEF Change, Held, FillsAt
    <2>3. \A x : FillsAt(x) \in SUBSET Nat
      BY <2>1, FillsOf
    <2> QED BY <2>1, <2>2, <2>3, HeldType
  <1>3. fetched' \in [exchange : left, amount : Nat, fills : SUBSET Nat]
    BY <1>1, <1>2 DEF Unseen
  <1>4. TrackerTypeOK'
    BY <1>1, <1>2, <1>3 DEF TrackerTypeOK
  <1>5. RecordsInv'
    BY <1>1, <1>2 DEF RecordsInv
  <1>6. FetchedInv'
    BY <1>1, <1>2 DEF FetchedInv
  <1>7. FillsAreCounted'
    BY <1>1, <1>2 DEF FillsAreCounted
  <1> QED BY <1>4, <1>5, <1>6, <1>7

\* What is stored is what was fetched, and nothing was recorded in between.
LEMMA StoreStep == TrackerInv /\ Store => TrackerInv'
  <1> SUFFICES ASSUME TrackerInv, Store PROVE TrackerInv'
    OBVIOUS
  <1> USE DEF TrackerInv
  <1>0. thread = "store" /\ fetched \in [exchange : left, amount : Nat, fills : SUBSET Nat]
    BY DEF Store, TrackerTypeOK
  <1>x. PICK x \in Accounts : x = fetched.exchange
    BY <1>0 DEF TrackerTypeOK
  <1>1. /\ thread = "store"
        /\ states' = [states EXCEPT ![x] = Stored(x, fetched.amount)]
        /\ seen' = [seen EXCEPT ![x] = fetched.fills]
        /\ booked' = [booked EXCEPT ![x] = {}]
        /\ left' = left \ {x} /\ thread' \in {"check", "fetch"}
        /\ UNCHANGED <<running, alerts, stop, fills, unrecorded, recorded, failures>>
    BY <1>x DEF Store, NextExchange, fillVars
  <1>2. x \in Accounts /\ fetched.amount \in Nat /\ fetched.fills \in SUBSET Nat
    BY <1>0
  <1>3. Change' = Change /\ Held' = Held /\ \A e : FillsAt(e)' = FillsAt(e)
    BY <1>1 DEF Change, Held, FillsAt
  <1>4. /\ Stored(x, fetched.amount) \in Int \cup {Absent}
        /\ Amount(Stored(x, fetched.amount)) = fetched.amount
    BY <1>2, InventoryConstants DEF Stored, Amount
  <1>5. TrackerTypeOK'
    <2>1. states' \in [Accounts -> Int \cup {Absent}]
      BY <1>1, <1>2, <1>4 DEF TrackerTypeOK
    <2>2. /\ seen' \in [Accounts -> SUBSET Nat] /\ booked' \in [Accounts -> SUBSET Nat]
          /\ left' \subseteq Accounts
      BY <1>1, <1>2 DEF TrackerTypeOK
    <2> QED BY <1>1, <1>3, <2>1, <2>2 DEF TrackerTypeOK
  <1>6. \/ fetched.fills = Unseen
        \/ /\ fetched.fills \subseteq FillsAt(x)
           /\ fetched.amount = Deposits[x] + SumFunctionOnSet(Change, fetched.fills)
           /\ recorded \cap FillsAt(x) \subseteq fetched.fills
    BY <1>1, <1>x DEF FetchedInv
  <1>7. RecordsInv'
    BY <1>1, <1>2, <1>3, <1>6 DEF RecordsInv, TrackerTypeOK
  <1>8. FetchedInv'
    BY <1>1 DEF FetchedInv
  <1>9. ASSUME NEW e \in Accounts, e # x PROVE Counted(e)'
    <2>1. states'[e] = states[e] /\ booked'[e] = booked[e] /\ seen'[e] = seen[e]
      BY <1>1, <1>2, <1>9 DEF TrackerTypeOK
    <2> QED BY <1>1, <1>3, <2>1, CountedAll DEF Counted
  <1>10. Counted(x)'
    <2>1. states'[x] = Stored(x, fetched.amount) /\ booked'[x] = {} /\ seen'[x] = fetched.fills
      BY <1>1, <1>2 DEF TrackerTypeOK
    <2> SUFFICES ASSUME fetched.fills # Unseen PROVE Counted(x)'
      BY <1>1, <2>1 DEF Counted
    <2>2. SumFunctionOnSet(Change, booked'[x]) = 0
      BY <2>1, SumOfNone
    <2>3. Amount(states'[x]) = Deposits[x] + SumFunctionOnSet(Change, seen'[x])
                               + SumFunctionOnSet(Change, booked'[x])
      BY <1>2, <1>4, <1>6, <2>1, <2>2
    <2> QED BY <1>1, <1>3, <1>6, <2>1, <2>3 DEF Counted
  <1>11. FillsAreCounted'
    BY <1>9, <1>10 DEF FillsAreCounted, Counted
  <1> QED BY <1>5, <1>7, <1>8, <1>11

\* The other steps leave the balances, the fills and what is fetched alone.
LEMMA QuietStep ==
    ASSUME TrackerInv, TrackerTypeOK', thread' # "store",
           UNCHANGED <<states, fills, unrecorded, recorded, seen, booked>>
    PROVE  TrackerInv'
  <1>1. Change' = Change /\ \A e : FillsAt(e)' = FillsAt(e)
    BY DEF Change, FillsAt
  <1> QED BY <1>1 DEF TrackerInv, RecordsInv, FetchedInv, FillsAreCounted

LEMMA InvStep == TrackerInv /\ [TrackerNext]_trackerVars => TrackerInv'
  <1> SUFFICES ASSUME TrackerInv, [TrackerNext]_trackerVars PROVE TrackerInv'
    OBVIOUS
  <1>1. TrackerTypeOK
    BY DEF TrackerInv
  <1>2. UNCHANGED fills => Held' = Held
    BY DEF Held, Change, FillsAt
  <1>3. CASE FillOrder
    BY <1>3, FillStep
  <1>4. CASE RecordOne
    BY <1>4, RecordStep DEF RecordOne
  <1>5. CASE StartMonitoring
    BY <1>1, <1>2, <1>5, QuietStep DEF StartMonitoring, fillVars, counted, TrackerTypeOK
  <1>6. CASE Loop
    BY <1>1, <1>2, <1>6, QuietStep DEF Loop, GoesOn, fillVars, counted, TrackerTypeOK
  <1>7. ASSUME NEW e \in Accounts, Fetch(e) PROVE TrackerInv'
    BY <1>7, FetchStep
  <1>8. ASSUME NEW e \in Accounts, FetchThrows(e) PROVE TrackerInv'
    <2>1. failures' \in 0 .. MaxFailures
      BY <1>1, <1>8, InventoryConstants DEF FetchThrows, TrackerTypeOK
    <2> QED BY <1>1, <1>2, <1>8, <2>1, QuietStep
            DEF FetchThrows, GoOn, NextExchange, fillVars, counted, TrackerTypeOK
  <1>9. CASE Store
    BY <1>9, StoreStep
  <1>10. CASE Check
    <2>1. alerts' \subseteq [excess : Accounts, deficit : Accounts]
      BY <1>1, <1>10, AlertOf DEF Check, TrackerTypeOK
    <2> QED BY <1>1, <1>2, <1>10, <2>1, QuietStep DEF Check, fillVars, counted, TrackerTypeOK
  <1>11. CASE Sleep
    BY <1>1, <1>2, <1>11, QuietStep DEF Sleep, fillVars, counted, TrackerTypeOK
  <1>12. CASE Stop \/ Join \/ UNCHANGED trackerVars
    <2>1. /\ UNCHANGED <<states, thread, left, fetched, alerts, fills, unrecorded, recorded, seen,
                         booked, failures>>
          /\ running' \in BOOLEAN /\ stop' \in {"no", "join", "done"}
          /\ running' => running
      <3>1. CASE Stop
        BY <1>1, <3>1 DEF Stop, fillVars, counted, TrackerTypeOK
      <3>2. CASE Join
        BY <1>1, <3>2 DEF Join, fillVars, counted, TrackerTypeOK
      <3>3. CASE UNCHANGED trackerVars
        BY <1>1, <3>3 DEF trackerVars, fillVars, counted, TrackerTypeOK
      <3> QED BY <1>12, <3>1, <3>2, <3>3
    <2>2. TrackerTypeOK'
      BY <1>1, <1>2, <2>1 DEF TrackerTypeOK
    <2>3. Change' = Change /\ \A e : FillsAt(e)' = FillsAt(e)
      BY <2>1 DEF Change, FillsAt
    <2> QED BY <2>1, <2>2, <2>3 DEF TrackerInv, RecordsInv, FetchedInv, FillsAreCounted
  <1> QED BY <1>3, <1>4, <1>5, <1>6, <1>7, <1>8, <1>9, <1>10, <1>11, <1>12 DEF TrackerNext, Monitor

-----------------------------------------------------------------------------
(* The theorems *)

\* The strengthening is an invariant.
THEOREM TrackerInvHolds == TrackerSpec => []TrackerInv
  BY InvInit, InvStep, PTL DEF TrackerSpec

\* The tracker's state is well typed, nothing is held short at an exchange, and
\* the monitor ends only when it was told to.
THEOREM TrackerTypeCorrect == TrackerSpec => []TrackerTypeOK
  <1>1. TrackerInv => TrackerTypeOK
    BY DEF TrackerInv
  <1> QED BY <1>1, TrackerInvHolds, PTL

\* Refreshes and record_fill() do not lose each other's work.
THEOREM FillsAreCountedHolds == TrackerSpec => []FillsAreCounted
  <1>1. TrackerInv => FillsAreCounted
    BY DEF TrackerInv
  <1> QED BY <1>1, TrackerInvHolds, PTL

\* With the right balances check_drift() raises no false alert.
THEOREM AlertIsRealHolds == TrackerSpec => AlertIsReal
  <1>1. TrackerTypeOK /\ [TrackerNext]_trackerVars =>
            [Check /\ Exact => \A a \in alerts' : Drifts(a.excess, a.deficit)]_trackerVars
    BY DriftIsReal DEF Check
  <1> QED BY <1>1, TrackerTypeCorrect, PTL DEF TrackerSpec, AlertIsReal
=============================================================================
