------------------------- MODULE SpreadDetectorProof -------------------------
(***************************************************************************)
(* Proofs about SpreadDetector, for any number of exchanges and any quotes,*)
(* fees, cooldown and bounds: the rate of a trade is of one refresh, two   *)
(* trades of a direction are a cooldown apart, no update stays unseen, and *)
(* what is traded is sound, by DepthTheorems.                              *)
(***************************************************************************)
EXTENDS SpreadDetector, DepthTheorems

USE DEF Exchanges, Threads

Fees == {NoFee} \cup {FetchedFee[e] : e \in Exchanges}

LEMMA ExchangeNumbers ==
    /\ NExchanges \in Nat /\ NExchanges > 1
    /\ Exchanges # {}
    /\ \A e \in Exchanges : e \in Nat /\ e <= NExchanges
  <1>1. NExchanges \in Nat /\ NExchanges > 1
    BY FeeConstants, DetectorConstants
  <1>2. 1 \in Exchanges
    BY <1>1
  <1> QED BY <1>1, <1>2

-----------------------------------------------------------------------------
(* The fee manager *)

LEMMA EmptyType == Empty \in [Exchanges -> Fees]
  BY DEF Empty, Fees

LEMMA FeeInitType == FeeInit => FeeTypeOK /\ fee_cache \in caches
  <1> SUFFICES ASSUME FeeInit PROVE FeeTypeOK /\ fee_cache \in caches
    OBVIOUS
  <1>1. {fee_cache, new_cache} \cup caches \subseteq [Exchanges -> Fees]
    BY EmptyType DEF FeeInit
  <1>2. 1 \in 1 .. NExchanges + 1 /\ 1 \in 1 .. MaxRefreshes
    BY FeeConstants
  <1> QED BY <1>1, <1>2 DEF FeeInit, FeeTypeOK, Fees

\* Every step of the fee manager keeps its types, and its caches only grow.
LEMMA FeeStepType ==
    ASSUME FeeTypeOK, fee_cache \in caches,
           FeeStep \/ StopRefresh \/ StopReturns
    PROVE  FeeTypeOK' /\ fee_cache' \in caches' /\ caches \subseteq caches'
  <1> USE FeeConstants
  <1>1. Empty \in [Exchanges -> Fees]
    BY EmptyType
  <1>2. CASE Fetch
    <2>1. asking \in Exchanges
      BY <1>2 DEF Fetch, FeeTypeOK
    <2>2. new_cache' \in [Exchanges -> Fees]
      BY <1>2, <2>1 DEF Fetch, FeeTypeOK, Fees
    <2>3. asking' \in 1 .. NExchanges + 1
      BY <1>2, <2>1 DEF Fetch
    <2> QED BY <1>2, <2>2, <2>3 DEF Fetch, FeeTypeOK, Fees
  <1>3. CASE SwapFirst
    BY <1>3, <1>1 DEF SwapFirst, Swapped, BeginRefresh, FeeTypeOK, Fees
  <1>4. CASE SwapAndStart
    BY <1>4 DEF SwapAndStart, Swapped, FeeTypeOK
  <1>5. CASE Swap
    BY <1>5 DEF Swap, Swapped, FeeTypeOK
  <1>6. CASE Wake
    BY <1>6, <1>1 DEF Wake, BeginRefresh, FeeTypeOK, Fees
  <1>7. CASE Leave
    BY <1>7 DEF Leave, FeeTypeOK
  <1>8. CASE StopRefresh
    BY <1>8 DEF StopRefresh, FeeTypeOK
  <1>9. CASE StopReturns
    BY <1>9 DEF StopReturns, FeeTypeOK, fees
  <1> QED BY <1>2, <1>3, <1>4, <1>5, <1>6, <1>7, <1>8, <1>9 DEF FeeStep

-----------------------------------------------------------------------------
LEMMA InvInit == Init => ScannerInv
  <1> SUFFICES ASSUME Init PROVE ScannerInv
    OBVIOUS
  <1> USE DetectorConstants
  <1>1. FeeTypeOK /\ fee_cache \in caches
    BY FeeInitType DEF Init
  <1>2. Book(NoQuote, 0) \in Books
    BY DEF Books
  <1>3. TypeOK
    BY <1>1, <1>2 DEF Init, TypeOK, NoSnaps
  <1>4. RateInv
    BY <1>1 DEF Init, RateInv, Firing
  <1>5. CooldownInv
    BY DEF Init, CooldownInv, CooldownKept, Firing
  <1>6. CoverInv
    BY DEF Init, CoverInv, Scanned, NoSnaps
  <1>7. SoundInv
    BY DEF Init, SoundInv, Firing
  <1> QED BY <1>3, <1>4, <1>5, <1>6, <1>7 DEF ScannerInv

-----------------------------------------------------------------------------
(* The types *)

\* Whatever the scanner does, the caches of fees only grow.
LEMMA FeesStep ==
    ASSUME FeeTypeOK, fee_cache \in caches, [Next]_vars
    PROVE  FeeTypeOK' /\ fee_cache' \in caches' /\ caches \subseteq caches'
  <1>1. CASE UNCHANGED fees
    BY <1>1 DEF FeeTypeOK, fees
  <1>2. CASE FeeStep \/ StopRefresh \/ StopReturns
    BY <1>2, FeeStepType
  <1>3. CASE Connect \/ SetCallback \/ Tick
    BY <1>1, <1>3 DEF Connect, SetCallback, Tick
  <1>4. CASE Stop \/ Stopped
    BY <1>2, <1>4 DEF Stop, Stopped
  <1>5. ASSUME NEW t \in Threads,
               IoStep(t) \/ \E q \in Quotes[t] : Update(t, q)
        PROVE  UNCHANGED fees
    BY <1>5 DEF IoStep, Update, Notify, Snapshot, Evaluate, GiveUp, TakeCooldown, Fire
  <1> QED BY <1>1, <1>2, <1>3, <1>4, <1>5 DEF Next, vars

\* What the loops find is an opportunity of their direction and rate.
LEMMA OpportunityType ==
    ASSUME NEW d \in Directions, NEW buy, NEW sell, NEW rate,
           Opportunity(d, buy, sell, rate) # None
    PROVE  LET o == Opportunity(d, buy, sell, rate)
           IN  OpportunityOK(o) /\ o.direction = d /\ o.rate = rate /\ o.at = None
  <1> DEFINE o == Opportunity(d, buy, sell, rate)
  <1>1. PICK quantity, cost, proceeds :
            o = [direction |-> d, quantity |-> quantity, cost |-> cost,
                 proceeds |-> proceeds, rate |-> rate, at |-> None]
    BY DEF Opportunity
  <1> QED BY <1>1 DEF OpportunityOK

LEMMA TypeStep == TypeOK /\ fee_cache \in caches /\ [Next]_vars => TypeOK'
  <1> SUFFICES ASSUME TypeOK, fee_cache \in caches, [Next]_vars PROVE TypeOK'
    OBVIOUS
  <1> USE DetectorConstants
  <1>1. FeeTypeOK'
    BY FeesStep DEF TypeOK
  <1>2. CASE UNCHANGED scan
    BY <1>1, <1>2 DEF TypeOK, scan
  <1>3. CASE Connect \/ SetCallback \/ Stop \/ Stopped
    BY <1>1, <1>3 DEF Connect, SetCallback, Stop, Stopped, Main, TypeOK
  <1>4. CASE Tick
    BY <1>1, <1>4 DEF Tick, TypeOK
  <1>5. ASSUME NEW t \in Threads, NEW q \in Quotes[t], Update(t, q) PROVE TypeOK'
    <2>1. clock \in 0 .. MaxTime /\ updates' \in 0 .. MaxUpdates
      BY <1>5 DEF Update, TypeOK
    <2>2. Book(q, clock) \in Books
      BY <2>1 DEF Books
    <2> QED BY <1>1, <1>5, <2>1, <2>2 DEF Update, At, TypeOK
  <1>6. ASSUME NEW t \in Threads, Notify(t) PROVE TypeOK'
    BY <1>1, <1>6 DEF Notify, NoSnaps, TypeOK
  <1>7. ASSUME NEW t \in Threads, Snapshot(t) PROVE TypeOK'
    BY <1>1, <1>7 DEF Snapshot, TypeOK
  <1>8. ASSUME NEW t \in Threads, Evaluate(t) PROVE TypeOK'
    <2>1. PICK d \in todo[t] :
              LET o == Opportunity(d, snaps[t][d[1]], snaps[t][d[2]],
                                   total_fee_rate(d[1], d[2]))
              IN  best' = IF o # None /\ Better(o, best[t])
                          THEN [best EXCEPT ![t] = o] ELSE best
      BY <1>8 DEF Evaluate
    <2> DEFINE o == Opportunity(d, snaps[t][d[1]], snaps[t][d[2]],
                                total_fee_rate(d[1], d[2]))
    <2>2. o # None => OpportunityOK(o)
      BY OpportunityType DEF TypeOK
    <2>3. \A u \in Threads : best'[u] # None => OpportunityOK(best'[u])
      BY <2>1, <2>2 DEF TypeOK
    <2>4. best' = [u \in Threads |-> best'[u]]
      BY <2>1 DEF TypeOK
    <2>5. /\ pc' \in [Threads -> {"idle", "notify", "snapshot", "evaluate", "choose", "fire"}]
          /\ todo' \in [Threads -> SUBSET Directions]
      BY <1>8 DEF Evaluate, TypeOK
    <2>6. UNCHANGED <<clock, books, updates, main, last_trade_time, snaps>>
      BY <1>8 DEF Evaluate
    <2> HIDE DEF o
    <2> QED BY <1>1, <2>3, <2>4, <2>5, <2>6 DEF TypeOK
  <1>9. ASSUME NEW t \in Threads, GiveUp(t) \/ Fire(t) PROVE TypeOK'
    BY <1>1, <1>9 DEF GiveUp, Fire, At, TypeOK
  <1>10. ASSUME NEW t \in Threads, TakeCooldown(t) PROVE TypeOK'
    <2>1. OpportunityOK(best[t]) /\ clock \in 0 .. MaxTime
      BY <1>10 DEF TakeCooldown, TypeOK
    <2>2. OpportunityOK([best[t] EXCEPT !.at = clock])
      BY <2>1 DEF OpportunityOK
    <2>3. \A u \in Threads : best'[u] # None => OpportunityOK(best'[u])
      BY <1>10, <2>2 DEF TakeCooldown, TypeOK
    <2>4. last_trade_time' \in [Directions -> {None} \cup 0 .. MaxTime]
      BY <1>10, <2>1 DEF TakeCooldown, TypeOK, OpportunityOK
    <2> QED BY <1>1, <1>10, <2>3, <2>4 DEF TakeCooldown, At, TypeOK
  <1> QED BY <1>2, <1>3, <1>4, <1>5, <1>6, <1>7, <1>8, <1>9, <1>10 DEF Next, IoStep, vars

-----------------------------------------------------------------------------
(* The rates *)

\* A rate of a cache is found in the caches for ever; a new one is of the cache
\* that is read, the last that was swapped in.
LEMMA RateStep == TypeOK /\ RateInv /\ [Next]_vars => RateInv'
  <1> SUFFICES ASSUME TypeOK, RateInv, [Next]_vars PROVE RateInv'
    OBVIOUS
  <1>1. fee_cache' \in caches' /\ caches \subseteq caches'
    BY FeesStep DEF TypeOK, RateInv
  <1>2. ASSUME UNCHANGED best, \A t \in Threads : Firing(t)' => Firing(t)
        PROVE  RateInv'
    BY <1>1, <1>2 DEF RateInv
  <1>3. ASSUME NEW t \in Threads, Evaluate(t) PROVE RateInv'
    <2>1. PICK d \in todo[t] :
              LET o == Opportunity(d, snaps[t][d[1]], snaps[t][d[2]],
                                   total_fee_rate(d[1], d[2]))
              IN  best' = IF o # None /\ Better(o, best[t])
                          THEN [best EXCEPT ![t] = o] ELSE best
      BY <1>3 DEF Evaluate
    <2> DEFINE o == Opportunity(d, snaps[t][d[1]], snaps[t][d[2]],
                                total_fee_rate(d[1], d[2]))
    <2>2. o # None => /\ o.direction = d
                      /\ o.rate = RateIn(fee_cache, d[1], d[2])
      BY OpportunityType DEF TypeOK, total_fee_rate
    <2>3. \A u \in Threads : Firing(u)' => Firing(u) /\ u # t
      BY <1>3 DEF Evaluate, Firing, TypeOK
    <2>4. \A u \in Threads : best'[u] # None \/ Firing(u)' =>
              \/ best'[u] = best[u] /\ (best[u] # None \/ Firing(u))
              \/ best'[u] = o /\ o # None
      BY <2>1, <2>3 DEF TypeOK
    <2> HIDE DEF o
    <2> QED BY <1>1, <2>2, <2>4 DEF RateInv
  <1>4. ASSUME NEW t \in Threads, GiveUp(t) \/ Fire(t) PROVE RateInv'
    <2>1. \A u \in Threads : Firing(u)' => Firing(u) /\ u # t
      BY <1>4 DEF GiveUp, Fire, At, Firing, TypeOK
    <2>2. best' = [best EXCEPT ![t] = None]
      BY <1>4 DEF GiveUp, Fire
    <2>3. \A u \in Threads : best'[u] # None \/ Firing(u)' =>
              best'[u] = best[u] /\ (best[u] # None \/ Firing(u))
      BY <2>1, <2>2 DEF TypeOK
    <2> QED BY <1>1, <2>3 DEF RateInv
  <1>5. ASSUME NEW t \in Threads, TakeCooldown(t) PROVE RateInv'
    <2>1. /\ best[t] # None /\ DOMAIN best[t] = {"direction", "quantity", "cost",
                                                 "proceeds", "rate", "at"}
          /\ best' = [best EXCEPT ![t] = [@ EXCEPT !.at = clock]]
      BY <1>5 DEF TakeCooldown, TypeOK, OpportunityOK
    <2>2. best'[t].direction = best[t].direction /\ best'[t].rate = best[t].rate
      BY <2>1 DEF TypeOK
    <2>3. \A u \in Threads : u # t => best'[u] = best[u] /\ (Firing(u)' <=> Firing(u))
      BY <1>5, <2>1 DEF TakeCooldown, At, Firing, TypeOK
    <2> QED BY <1>1, <2>1, <2>2, <2>3 DEF RateInv
  <1>6. ASSUME NEW t \in Threads, Notify(t) \/ Snapshot(t) \/ \E q \in Quotes[t] : Update(t, q)
        PROVE  RateInv'
    <2>1. UNCHANGED best /\ \A u \in Threads : Firing(u)' => Firing(u)
      BY <1>6 DEF Notify, Snapshot, Update, At, Firing, TypeOK
    <2> QED BY <1>2, <2>1
  <1>7. ASSUME (FeeStep /\ UNCHANGED scan) \/ Connect \/ SetCallback \/ Stop \/ Stopped \/ Tick
               \/ UNCHANGED vars
        PROVE  RateInv'
    <2>1. UNCHANGED <<best, pc>>
      BY <1>7 DEF Connect, SetCallback, Stop, Stopped, Main, Tick, scan, vars
    <2> QED BY <1>2, <2>1 DEF Firing
  <1> QED BY <1>3, <1>4, <1>5, <1>6, <1>7 DEF Next, IoStep

-----------------------------------------------------------------------------
(* The cooldown *)

\* Only TakeCooldown begins a trade.
LEMMA CooldownStep == TypeOK /\ CooldownInv /\ [Next]_vars => CooldownInv'
  <1> SUFFICES ASSUME TypeOK, CooldownInv, [Next]_vars PROVE CooldownInv'
    OBVIOUS
  <1> USE DetectorConstants
  <1>1. ASSUME UNCHANGED last_trade_time,
               \A t \in Threads : pc'[t] = "fire" => pc[t] = "fire" /\ best'[t] = best[t]
        PROVE  CooldownInv'
    BY <1>1 DEF CooldownInv, CooldownKept, Firing
  <1>2. ASSUME NEW t \in Threads, TakeCooldown(t) PROVE CooldownInv'
    <2> DEFINE d == best[t].direction
    <2>1. /\ best[t] # None /\ OpportunityOK(best[t]) /\ d \in Directions
          /\ clock \in Nat /\ clock # None
      BY <1>2 DEF TakeCooldown, TypeOK, OpportunityOK
    <2>2. /\ best'[t].at = clock /\ best'[t].direction = d /\ OpportunityOK(best'[t])
          /\ \A u \in Threads : u # t => best'[u] = best[u] /\ pc'[u] = pc[u]
      <3>1. best'[t] = [best[t] EXCEPT !.at = clock]
        BY <1>2 DEF TakeCooldown, TypeOK
      <3>2. best'[t].at = clock /\ best'[t].direction = d
        BY <2>1, <3>1 DEF OpportunityOK
      <3>3. OpportunityOK(best'[t])
        BY <1>2, <2>1, <3>1 DEF OpportunityOK, TypeOK
      <3>4. \A u \in Threads : u # t => best'[u] = best[u] /\ pc'[u] = pc[u]
        BY <1>2 DEF TakeCooldown, At, TypeOK
      <3> QED BY <3>2, <3>3, <3>4
    <2>3. /\ last_trade_time'[d] = clock
          /\ \A e \in Directions : e # d => last_trade_time'[e] = last_trade_time[e]
      BY <1>2, <2>1 DEF TakeCooldown, TypeOK
    <2>4. last_trade_time[d] # None => last_trade_time[d] \in Nat
                                       /\ clock - last_trade_time[d] >= Cooldown
      BY <1>2, <2>1 DEF TakeCooldown, CoolingDown, TypeOK
    <2>5. \A u \in Threads : Firing(u) /\ u # t =>
              /\ OpportunityOK(best[u]) /\ best[u].at \in Nat /\ best[u].at # None
              /\ best[u].direction \in Directions
              /\ last_trade_time[best[u].direction] # None
              /\ last_trade_time[best[u].direction] \in Nat
              /\ best[u].at <= last_trade_time[best[u].direction]
      BY DEF CooldownInv, TypeOK, OpportunityOK
    <2>6. \A u \in Threads : Firing(u) /\ u # t /\ best[u].direction = d =>
              clock - best[u].at >= Cooldown /\ best[u].at <= clock
      BY <2>1, <2>4, <2>5
    <2>7. \A u \in Threads : Firing(u)' =>
              /\ OpportunityOK(best'[u]) /\ best'[u].at # None
              /\ last_trade_time'[best'[u].direction] # None
              /\ best'[u].at <= last_trade_time'[best'[u].direction]
      <3> SUFFICES ASSUME NEW u \in Threads, Firing(u)'
                   PROVE  /\ OpportunityOK(best'[u]) /\ best'[u].at # None
                          /\ last_trade_time'[best'[u].direction] # None
                          /\ best'[u].at <= last_trade_time'[best'[u].direction]
        OBVIOUS
      <3>1. CASE u = t
        BY <2>1, <2>2, <2>3, <3>1
      <3>2. CASE u # t
        BY <2>1, <2>2, <2>3, <2>5, <2>6, <3>2 DEF Firing
      <3> QED BY <3>1, <3>2
    <2>8. CooldownKept'
      <3> SUFFICES ASSUME NEW u \in Threads, NEW v \in Threads, u # v,
                          Firing(u)', Firing(v)',
                          best'[u].direction = best'[v].direction
                   PROVE  \/ best'[u].at - best'[v].at >= Cooldown
                          \/ best'[v].at - best'[u].at >= Cooldown
        BY DEF CooldownKept
      <3>1. CASE u = t
        BY <2>2, <2>6, <3>1 DEF Firing
      <3>2. CASE v = t
        BY <2>2, <2>6, <3>2 DEF Firing
      <3>3. CASE u # t /\ v # t
        BY <2>2, <3>3 DEF CooldownInv, CooldownKept, Firing
      <3> QED BY <3>1, <3>2, <3>3
    <2> QED BY <2>7, <2>8 DEF CooldownInv
  <1>3. ASSUME NEW t \in Threads, GiveUp(t) \/ Fire(t) PROVE CooldownInv'
    <2>1. /\ UNCHANGED last_trade_time
          /\ \A u \in Threads : pc'[u] = "fire" => pc[u] = "fire" /\ best'[u] = best[u]
      BY <1>3 DEF GiveUp, Fire, At, TypeOK
    <2> QED BY <1>1, <2>1
  <1>4. ASSUME NEW t \in Threads, Evaluate(t) PROVE CooldownInv'
    <2>1. PICK o : best' = [best EXCEPT ![t] = o] \/ best' = best
      BY <1>4 DEF Evaluate
    <2>2. /\ UNCHANGED last_trade_time /\ pc'[t] # "fire"
          /\ \A u \in Threads : u # t => pc'[u] = pc[u]
      BY <1>4 DEF Evaluate, TypeOK
    <2> QED BY <1>1, <2>1, <2>2 DEF TypeOK
  <1>5. ASSUME NEW t \in Threads, Notify(t) \/ Snapshot(t) \/ \E q \in Quotes[t] : Update(t, q)
        PROVE  CooldownInv'
    <2>1. /\ UNCHANGED <<last_trade_time, best>>
          /\ \A u \in Threads : pc'[u] = "fire" => pc[u] = "fire"
      BY <1>5 DEF Notify, Snapshot, Update, At, TypeOK
    <2> QED BY <1>1, <2>1
  <1>6. ASSUME (FeeStep /\ UNCHANGED scan) \/ Connect \/ SetCallback \/ Stop \/ Stopped \/ Tick
               \/ UNCHANGED vars
        PROVE  CooldownInv'
    <2>1. UNCHANGED <<last_trade_time, best, pc>>
      BY <1>6 DEF Connect, SetCallback, Stop, Stopped, Main, Tick, scan, vars
    <2> QED BY <1>1, <2>1
  <1> QED BY <1>2, <1>3, <1>4, <1>5, <1>6 DEF Next, IoStep

-----------------------------------------------------------------------------
(* The updates *)

\* A thread that reads a book reads it up to date; when the last book is read,
\* what was up to date so far is all of the books.
LEMMA LastRead ==
    ASSUME TypeOK, NEW t \in Threads, Snapshot(t), Covers(t)
    PROVE  Covers(t)'
  <1>1. PICK e \in Exchanges :
            /\ pc[t] = "snapshot" /\ Unread(t, e)
            /\ snaps' = [snaps EXCEPT ![t] = [@ EXCEPT ![e] = books[e]]]
            /\ pc' = [pc EXCEPT ![t] = IF e = NExchanges THEN "evaluate" ELSE @]
            /\ UNCHANGED books
    BY DEF Snapshot
  <1>2. None \notin Books /\ \A f \in Exchanges : books[f] # None
    BY DetectorConstants DEF TypeOK
  <1>3. snaps[t] # books
    BY <1>1, <1>2 DEF Unread
  <1>4. \A f \in Exchanges : snaps[t][f] \in {None, books[f]}
    BY <1>1, <1>3 DEF Covers
  <1>5. /\ snaps'[t] = [snaps[t] EXCEPT ![e] = books[e]]
        /\ snaps[t] \in [Exchanges -> {None} \cup Books]
        /\ books \in [Exchanges -> Books]
    BY <1>1 DEF TypeOK
  <1>6. CASE e = NExchanges
    <2>1. \A f \in Exchanges : f = e \/ f < e
      BY <1>6, ExchangeNumbers
    <2>2. \A f \in Exchanges : f # e => snaps[t][f] = books[f]
      BY <1>1, <1>4, <2>1 DEF Unread
    <2>3. snaps'[t] = books
      BY <1>5, <2>2
    <2> QED BY <1>1, <2>3 DEF Covers
  <1>7. CASE e # NExchanges
    <2>1. pc'[t] = "snapshot"
      BY <1>1, <1>7 DEF TypeOK
    <2>2. \A f \in Exchanges : snaps'[t][f] \in {None, books'[f]}
      BY <1>1, <1>4, <1>5
    <2> QED BY <2>1, <2>2 DEF Covers
  <1> QED BY <1>6, <1>7

LEMMA CoverStep == TypeOK /\ CoverInv /\ [Next]_vars => CoverInv'
  <1> SUFFICES ASSUME TypeOK, CoverInv, [Next]_vars PROVE CoverInv'
    OBVIOUS
  <1>1. ASSUME UNCHANGED <<books, pc, snaps>>,
               main' \in {"start", "connected"} => main \in {"start", "connected"},
               main \in {"start", "connected"} \/ main' \notin {"start", "connected"}
        PROVE  CoverInv'
    BY <1>1 DEF CoverInv, Covers, Scanned
  <1>2. ASSUME (FeeStep /\ UNCHANGED scan) \/ Connect \/ SetCallback \/ Stop \/ Stopped \/ Tick
               \/ UNCHANGED vars
        PROVE  CoverInv'
    <2>1. /\ UNCHANGED <<books, pc, snaps>>
          /\ main' \in {"start", "connected"} => main \in {"start", "connected"}
          /\ main \in {"start", "connected"} \/ main' \notin {"start", "connected"}
      BY <1>2 DEF Connect, SetCallback, Stop, Stopped, Main, Tick, scan, vars
    <2> QED BY <1>1, <2>1
  <1>3. ASSUME NEW t \in Threads, NEW q \in Quotes[t], Update(t, q) PROVE CoverInv'
    <2>1. /\ UNCHANGED <<main, snaps>> /\ pc[t] = "idle" /\ pc' = [pc EXCEPT ![t] = "notify"]
      BY <1>3 DEF Update, At
    <2>2. pc'[t] = "notify" /\ Scanned' = Scanned
      BY <2>1 DEF Scanned, TypeOK
    <2> QED BY <2>1, <2>2 DEF CoverInv, Covers
  <1>4. ASSUME NEW t \in Threads, Notify(t) PROVE CoverInv'
    <2>1. CASE main \in {"start", "connected"}
      <3>1. UNCHANGED <<main, snaps>> /\ pc' = [pc EXCEPT ![t] = "idle"]
        BY <1>4, <2>1 DEF Notify
      <3>2. ~Scanned'
        BY <2>1, <3>1 DEF CoverInv, Scanned, TypeOK
      <3> QED BY <3>2 DEF CoverInv
    <2>2. CASE main \notin {"start", "connected"}
      <3>1. UNCHANGED <<main, books>> /\ pc'[t] = "snapshot" /\ snaps'[t] = NoSnaps
        BY <1>4, <2>2 DEF Notify, TypeOK
      <3>2. Covers(t)'
        BY <3>1 DEF Covers, NoSnaps
      <3> QED BY <2>2, <3>1, <3>2 DEF CoverInv
    <2> QED BY <2>1, <2>2
  <1>5. ASSUME NEW t \in Threads, Snapshot(t) PROVE CoverInv'
    <2>1. /\ UNCHANGED <<main, books>> /\ pc[t] = "snapshot"
          /\ \A u \in Threads : u # t => snaps'[u] = snaps[u] /\ pc'[u] = pc[u]
      BY <1>5 DEF Snapshot, TypeOK
    <2>2. PICK u \in Threads : Covers(u)
      BY <2>1 DEF CoverInv, Scanned
    <2>3. Covers(u)'
      <3>1. CASE u = t
        BY <1>5, <2>2, <3>1, LastRead
      <3>2. CASE u # t
        BY <2>1, <2>2, <3>2 DEF Covers
      <3> QED BY <3>1, <3>2
    <2>4. main' \notin {"start", "connected"}
      BY <2>1 DEF CoverInv, Scanned
    <2> QED BY <2>3, <2>4 DEF CoverInv
  <1>6. ASSUME NEW t \in Threads, Evaluate(t) \/ GiveUp(t) \/ TakeCooldown(t) \/ Fire(t)
        PROVE  CoverInv'
    <2>1. /\ UNCHANGED <<main, books, snaps>>
          /\ pc[t] \notin {"notify", "snapshot"} /\ pc'[t] \notin {"notify", "snapshot"}
          /\ \A u \in Threads : u # t => pc'[u] = pc[u]
      BY <1>6 DEF Evaluate, GiveUp, TakeCooldown, Fire, At, TypeOK
    <2>2. Scanned' = Scanned
      BY <2>1 DEF Scanned
    <2>3. \A u \in Threads : Covers(u) => Covers(u)'
      BY <2>1 DEF Covers
    <2> QED BY <2>1, <2>2, <2>3 DEF CoverInv
  <1> QED BY <1>2, <1>3, <1>4, <1>5, <1>6 DEF Next, IoStep

-----------------------------------------------------------------------------
(* What is found is sound *)

LEMMA BooksAreSorted == \A b \in Books : BookSorted(b)
  <1>1. BookSorted(NoQuote)
    <2>1. /\ NoQuote.asks = <<>> /\ NoQuote.bids = <<>> /\ <<>> \in Seq(Levels)
          /\ DOMAIN <<>> = {}
      BY DEF NoQuote
    <2> QED BY <2>1 DEF BookSorted
  <1>2. \A e \in Exchanges : \A q \in Quotes[e] : BookSorted(q)
    BY QuoteConstants
  <1>3. ASSUME NEW q, BookSorted(q), NEW n PROVE BookSorted(Book(q, n))
    <2>1. Book(q, n).asks = q.asks /\ Book(q, n).bids = q.bids
      BY DEF Book
    <2> QED BY <1>3, <2>1 DEF BookSorted
  <1>4. ASSUME NEW b \in Books PROVE BookSorted(b)
    <2>1. PICK q \in {NoQuote} \cup UNION {Quotes[e] : e \in Exchanges}, n \in 0 .. MaxTime :
              b = Book(q, n)
      BY DEF Books
    <2>2. BookSorted(q)
      BY <1>1, <1>2
    <2> QED BY <1>3, <2>1, <2>2
  <1> QED BY <1>4

LEMMA RateType ==
    ASSUME FeeTypeOK, NEW d \in Directions
    PROVE  total_fee_rate(d[1], d[2]) \in Nat
  <1>1. d[1] \in Exchanges /\ d[2] \in Exchanges
    BY DEF Directions
  <1>2. fee_cache \in [Exchanges -> {NoFee} \cup {FetchedFee[e] : e \in Exchanges}]
    BY DEF FeeTypeOK
  <1>3. \A e \in Exchanges : FeeIn(fee_cache, e) \in Nat
    BY <1>2, FeeConstants DEF FeeIn, Exchanges
  <1> QED BY <1>1, <1>3 DEF total_fee_rate, RateIn

\* A trade that is cut with the average price of all that was found is no more
\* than that, and costs no more than the maximum.
LEMMA CappedOf ==
    ASSUME NEW book, book.asks \in Seq(Levels), Ascending(book.asks),
           NEW found \in Nat, found > 0, found <= Depth(book.asks)
    PROVE  /\ Capped(book, found) \in Nat /\ Capped(book, found) <= found
           /\ effective_buy_price(book, Capped(book, found)).cost <= MaxTrade
  <1> DEFINE cost(q) == Walk(book.asks, q).cost
             cut == (MaxTrade * found) \div cost(found)
  <1>1. cost(found) \in Nat /\ MaxTrade \in Nat
    BY CostType, DetectorConstants
  <1>2. CASE cost(found) <= MaxTrade
    BY <1>1, <1>2 DEF Capped, effective_buy_price
  <1>3. CASE ~(cost(found) <= MaxTrade)
    <2>1. Capped(book, found) = cut
      BY <1>3 DEF Capped, effective_buy_price
    <2> DEFINE c == cost(found)
               m == MaxTrade * found
    <2>2. c \in Nat /\ c > 0 /\ c > MaxTrade /\ m \in Nat
      BY <1>1, <1>3, Products
    <2>3. cut \in Nat /\ cut * c <= m
      <3>1. cut = m \div c
        OBVIOUS
      <3> HIDE DEF c, m, cut
      <3>2. m \div c \in Nat /\ c * (m \div c) <= m
        BY <2>2
      <3>3. c * (m \div c) = (m \div c) * c
        BY <2>2, <3>2
      <3> QED BY <3>1, <3>2, <3>3
    <2> HIDE DEF c, cut
    <2>4. cut <= found
      <3>1. c * found >= MaxTrade * found
        BY <1>1, <2>2, Scaled
      <3>2. c * found \in Nat /\ c * found = found * c /\ cut * c \in Nat
        BY <2>2, <2>3, Products
      <3>3. found * c >= cut * c
        BY <1>1, <2>2, <2>3, <3>1, <3>2
      <3> QED BY <2>2, <2>3, <3>3, Unscaled
    <2>5. c * cut >= cost(cut) * found
      BY <2>3, <2>4, AskAverage DEF c
    <2>6. cost(cut) \in Nat
      BY <2>3, CostType
    <2> HIDE DEF cost
    <2>7. MaxTrade * found >= cost(cut) * found
      <3>1. c * cut = cut * c /\ c * cut \in Nat /\ cost(cut) * found \in Nat
        BY <2>2, <2>3, <2>6, Products
      <3> QED BY <2>2, <2>3, <2>5, <3>1
    <2>8. MaxTrade >= cost(cut)
      BY <1>1, <2>6, <2>7, Unscaled
    <2> QED BY <2>1, <2>3, <2>4, <2>8, <1>1, <2>6 DEF cost, effective_buy_price
  <1> QED BY <1>2, <1>3

LEMMA OpportunityIsSound ==
    ASSUME NEW d, NEW buy_book, NEW sell_book, BookSorted(buy_book), BookSorted(sell_book),
           NEW rate \in Nat, Opportunity(d, buy_book, sell_book, rate) # None
    PROVE  Sound(Opportunity(d, buy_book, sell_book, rate), buy_book, sell_book)
  <1> DEFINE o == Opportunity(d, buy_book, sell_book, rate)
             asks == buy_book.asks
             bids == sell_book.bids
             found == max_arb_quantity(buy_book, sell_book, rate)
             quantity == Capped(buy_book, found)
             cost == effective_buy_price(buy_book, quantity).cost
             proceeds == effective_sell_price(sell_book, quantity).cost
  <1>1. /\ o.quantity = quantity /\ o.cost = cost /\ o.proceeds = proceeds /\ o.rate = rate
        /\ found > 0 /\ Clears(cost, proceeds, rate)
    BY DEF Opportunity
  <1>2. /\ SortedSides(buy_book, sell_book)
        /\ asks \in Seq(Levels) /\ Ascending(asks) /\ bids \in Seq(Levels) /\ Descending(bids)
    BY DEF BookSorted, SortedSides, Ascending, Descending
  <1>3. /\ found \in Nat /\ found <= Depth(asks) /\ found <= Depth(bids)
        /\ \A q \in Nat : Beyond(q, found, Depth(asks)) =>
               ~QuantityClears(buy_book, sell_book, rate, q)
    BY <1>1, <1>2, FoundOf
  <1>4. quantity \in Nat /\ quantity <= found /\ cost <= MaxTrade
    BY <1>1, <1>2, <1>3, CappedOf
  <1>5. quantity <= Depth(asks) /\ quantity <= Depth(bids)
    BY <1>2, <1>3, <1>4, DepthType
  <1>6. cost = Walk(asks, quantity).cost /\ proceeds = Walk(bids, quantity).cost
    BY DEF effective_buy_price, effective_sell_price
  <1> HIDE DEF o, found, quantity, cost, proceeds
  <1>7. \E a \in Allocations(asks, quantity) : Value(asks, a) = cost
    BY <1>2, <1>4, <1>5, <1>6, WalkIsAllocation
  <1>8. \A a \in Allocations(asks, quantity) : Value(asks, a) >= cost
    BY <1>2, <1>4, <1>5, <1>6, WalkIsCheapest
  <1>9. \A a \in Allocations(bids, quantity) : Value(bids, a) <= proceeds
    BY <1>2, <1>4, <1>5, <1>6, WalkIsDearest
  <1>10. \A q \in 0 .. Depth(asks) :
             Beyond(q, found, Depth(asks)) => ~QuantityClears(buy_book, sell_book, rate, q)
    BY <1>2, <1>3, DepthType
  <1>11. Sound(o, buy_book, sell_book)
    BY <1>1, <1>4, <1>7, <1>8, <1>9, <1>10 DEF Sound, found
  <1> QED BY <1>11 DEF o

-----------------------------------------------------------------------------
(* The opportunities *)

\* What SoundInv says of a thread.
SoundOf(t) ==
    /\ pc[t] \in {"idle", "notify", "snapshot"} => best[t] = None
    /\ pc[t] \in {"evaluate", "choose", "fire"} => snaps[t] \in [Exchanges -> Books]
    /\ best[t] # None \/ Firing(t) => Sound(best[t], BuyBook(t), SellBook(t))

LEMMA SoundInvOf == SoundInv <=> \A t \in Threads : SoundOf(t)
  BY DEF SoundInv, SoundOf

\* An opportunity is of the books of its thread's scan, which ends before the
\* thread reads others.
LEMMA SoundStep == TypeOK /\ SoundInv /\ [Next]_vars => SoundInv'
  <1> SUFFICES ASSUME TypeOK, SoundInv, [Next]_vars, NEW u \in Threads PROVE SoundOf(u)'
    BY DEF SoundInv, SoundOf
  <1>1. SoundOf(u)
    BY SoundInvOf
  <1>2. ASSUME pc'[u] = pc[u], snaps'[u] = snaps[u], best'[u] = best[u]
        PROVE  SoundOf(u)'
    BY <1>1, <1>2 DEF SoundOf, Firing, BuyBook, SellBook
  <1>3. CASE (FeeStep /\ UNCHANGED scan) \/ Connect \/ SetCallback \/ Stop \/ Stopped \/ Tick
             \/ UNCHANGED vars
    <2>1. UNCHANGED <<pc, snaps, best>>
      BY <1>3 DEF Connect, SetCallback, Stop, Stopped, Main, Tick, scan, vars
    <2> QED BY <1>2, <2>1
  <1>4. ASSUME NEW t \in Threads, t # u, IoStep(t) \/ \E q \in Quotes[t] : Update(t, q)
        PROVE  SoundOf(u)'
    <2>1. pc'[u] = pc[u] /\ snaps'[u] = snaps[u] /\ best'[u] = best[u]
      <3>1. CASE Evaluate(t)
        <4>1. PICK o : best' = [best EXCEPT ![t] = o] \/ best' = best
          BY <3>1 DEF Evaluate
        <4>2. pc'[u] = pc[u] /\ snaps'[u] = snaps[u]
          BY <1>4, <3>1 DEF Evaluate, TypeOK
        <4> QED BY <1>4, <4>1, <4>2 DEF TypeOK
      <3>2. CASE Notify(t)
        BY <1>4, <3>2 DEF Notify, TypeOK
      <3>3. CASE Snapshot(t)
        BY <1>4, <3>3 DEF Snapshot, TypeOK
      <3>4. CASE GiveUp(t) \/ Fire(t)
        BY <1>4, <3>4 DEF GiveUp, Fire, At, TypeOK
      <3>5. CASE TakeCooldown(t)
        BY <1>4, <3>5 DEF TakeCooldown, At, TypeOK
      <3>6. CASE \E q \in Quotes[t] : Update(t, q)
        BY <1>4, <3>6 DEF Update, At, TypeOK
      <3> QED BY <1>4, <3>1, <3>2, <3>3, <3>4, <3>5, <3>6 DEF IoStep
    <2> QED BY <1>2, <2>1
  <1>5. CASE Notify(u) \/ GiveUp(u) \/ Fire(u) \/ \E q \in Quotes[u] : Update(u, q)
    <2>1. best'[u] = None /\ pc'[u] \in {"idle", "notify", "snapshot"}
      <3>1. CASE Notify(u) \/ \E q \in Quotes[u] : Update(u, q)
        BY <1>1, <3>1 DEF Notify, Update, At, SoundOf, TypeOK
      <3>2. CASE GiveUp(u) \/ Fire(u)
        BY <3>2 DEF GiveUp, Fire, At, TypeOK
      <3> QED BY <1>5, <3>1, <3>2
    <2> QED BY <2>1 DEF SoundOf, Firing
  <1>6. CASE Snapshot(u)
    <2>1. PICK e \in Exchanges :
              /\ pc[u] = "snapshot" /\ Unread(u, e)
              /\ snaps' = [snaps EXCEPT ![u] = [@ EXCEPT ![e] = books[e]]]
              /\ pc' = [pc EXCEPT ![u] = IF e = NExchanges THEN "evaluate" ELSE @]
              /\ UNCHANGED best
      BY <1>6 DEF Snapshot
    <2>2. best'[u] = None
      BY <1>1, <2>1 DEF SoundOf
    <2>3. pc'[u] = IF e = NExchanges THEN "evaluate" ELSE "snapshot"
      BY <2>1 DEF TypeOK
    <2>4. CASE e # NExchanges
      BY <2>2, <2>3, <2>4 DEF SoundOf, Firing
    <2>5. CASE e = NExchanges
      <3>1. \A f \in Exchanges : f # e => f < e
        BY <2>5, ExchangeNumbers
      <3>2. \A f \in Exchanges : f # e => snaps[u][f] # None
        BY <2>1, <3>1 DEF Unread
      <3>3. /\ snaps[u] \in [Exchanges -> {None} \cup Books]
            /\ books \in [Exchanges -> Books]
            /\ snaps'[u] = [snaps[u] EXCEPT ![e] = books[e]]
        BY <2>1 DEF TypeOK
      <3>4. snaps'[u] \in [Exchanges -> Books]
        BY <3>2, <3>3
      <3> QED BY <2>2, <2>3, <2>5, <3>4 DEF SoundOf, Firing
    <2> QED BY <2>4, <2>5
  <1>7. CASE Evaluate(u)
    <2>1. PICK d \in todo[u] :
              /\ LET o == Opportunity(d, snaps[u][d[1]], snaps[u][d[2]],
                                      total_fee_rate(d[1], d[2]))
                 IN  best' = IF o # None /\ Better(o, best[u])
                             THEN [best EXCEPT ![u] = o] ELSE best
              /\ pc[u] = "evaluate" /\ UNCHANGED snaps
              /\ pc' = [pc EXCEPT ![u] = IF todo[u] = {d} THEN "choose" ELSE @]
      BY <1>7 DEF Evaluate
    <2> DEFINE rate == total_fee_rate(d[1], d[2])
               o == Opportunity(d, snaps[u][d[1]], snaps[u][d[2]], rate)
    <2>2. d \in Directions /\ d[1] \in Exchanges /\ d[2] \in Exchanges
      BY DEF TypeOK, Directions
    <2>3. snaps[u] \in [Exchanges -> Books] /\ snaps'[u] = snaps[u]
      BY <1>1, <2>1 DEF SoundOf
    <2>4. pc'[u] \in {"evaluate", "choose"}
      BY <2>1 DEF TypeOK
    <2>5. CASE best'[u] = best[u]
      BY <1>1, <2>3, <2>4, <2>5 DEF SoundOf, Firing, BuyBook, SellBook
    <2>6. CASE best'[u] # best[u]
      <3>1. best'[u] = o /\ o # None
        BY <2>1, <2>6 DEF TypeOK
      <3>2. rate \in Nat
        BY <2>2, RateType DEF TypeOK
      <3>3. BookSorted(snaps[u][d[1]]) /\ BookSorted(snaps[u][d[2]])
        BY <2>2, <2>3, BooksAreSorted
      <3>4. o.direction = d
        BY <2>2, <3>1, OpportunityType
      <3> HIDE DEF rate
      <3>5. Sound(o, snaps[u][d[1]], snaps[u][d[2]])
        BY <3>1, <3>2, <3>3, OpportunityIsSound
      <3> HIDE DEF o
      <3>6. BuyBook(u)' = snaps[u][d[1]] /\ SellBook(u)' = snaps[u][d[2]]
        BY <2>3, <3>1, <3>4 DEF BuyBook, SellBook
      <3> QED BY <2>3, <2>4, <3>1, <3>5, <3>6 DEF SoundOf, Firing
    <2> QED BY <2>5, <2>6
  <1>8. CASE TakeCooldown(u)
    <2>1. /\ best[u] # None /\ snaps'[u] = snaps[u] /\ pc[u] = "choose" /\ pc'[u] = "fire"
          /\ best'[u] = [best[u] EXCEPT !.at = clock]
      BY <1>8 DEF TakeCooldown, At, TypeOK
    <2>2. DOMAIN best[u] = {"direction", "quantity", "cost", "proceeds", "rate", "at"}
      BY <2>1 DEF TypeOK, OpportunityOK
    <2>3. /\ best'[u].direction = best[u].direction /\ best'[u].quantity = best[u].quantity
          /\ best'[u].cost = best[u].cost /\ best'[u].proceeds = best[u].proceeds
          /\ best'[u].rate = best[u].rate
      BY <2>1, <2>2
    <2>4. BuyBook(u)' = BuyBook(u) /\ SellBook(u)' = SellBook(u)
      BY <2>1, <2>3 DEF BuyBook, SellBook
    <2>5. Sound(best[u], BuyBook(u), SellBook(u))
      BY <1>1, <2>1 DEF SoundOf
    <2>6. Sound(best'[u], BuyBook(u), SellBook(u))
      BY <2>3, <2>5 DEF Sound
    <2>7. snaps'[u] \in [Exchanges -> Books]
      BY <1>1, <2>1 DEF SoundOf
    <2> QED BY <2>1, <2>4, <2>6, <2>7 DEF SoundOf, Firing
  <1> QED BY <1>3, <1>4, <1>5, <1>6, <1>7, <1>8 DEF Next, IoStep

-----------------------------------------------------------------------------
(* The theorems *)

\* The strengthening is an invariant: the types, the rates that are of caches,
\* the cooldowns that trades took, the thread that has the latest books, and the
\* opportunities that are sound by the books of their scans.
THEOREM ScannerInvHolds == Spec => []ScannerInv
  <1>1. Init => ScannerInv
    BY InvInit
  <1>2. ScannerInv /\ [Next]_vars => ScannerInv'
    BY TypeStep, RateStep, CooldownStep, CoverStep, SoundStep DEF ScannerInv, RateInv
  <1> QED BY <1>1, <1>2, PTL DEF Spec

\* The detector's, the aggregator's and the fee manager's state is well typed.
THEOREM TypeCorrect == Spec => []TypeOK
  <1>1. ScannerInv => TypeOK
    BY DEF ScannerInv
  <1> QED BY <1>1, ScannerInvHolds, PTL

\* The rate of total_fee_rate that a trade was found with is that of one refresh
\* of the fees, however refresh_all_fees interleaves with the scans and whatever
\* fetch fails.
THEOREM RateOfOneRefreshHolds == Spec => []RateOfOneRefresh
  <1>1. ScannerInv => RateOfOneRefresh
    BY DEF ScannerInv, RateInv, RateOfOneRefresh
  <1> QED BY <1>1, ScannerInvHolds, PTL

\* Two trades of a direction that are under way took their cooldowns a cooldown
\* apart, for any number of io threads that scan at once.
THEOREM CooldownKeptHolds == Spec => []CooldownKept
  <1>1. ScannerInv => CooldownKept
    BY DEF ScannerInv, CooldownInv
  <1> QED BY <1>1, ScannerInvHolds, PTL

\* A trade that is handed to the callback is worth it: walking the levels is the
\* best way to take the quantity from the two books of the scan, the proceeds
\* clear the fees and the minimum over the cost, a quantity that was cut with the
\* average price of a larger one costs no more than max_trade_size_usd, and
\* max_arb_quantity's binary search leaves nothing that clears beyond its
\* precision; for books of any number of sorted levels, any prices and any fees.
THEOREM FiredIsSoundHolds == Spec => []FiredIsSound
  <1>1. ScannerInv => FiredIsSound
    BY DEF ScannerInv, SoundInv, FiredIsSound
  <1> QED BY <1>1, ScannerInvHolds, PTL

\* When every io thread is idle, one of the scans has seen the books as they are.
THEOREM NoUpdateMissedHolds == Spec => []NoUpdateMissed
  <1>1. ScannerInv => NoUpdateMissed
    BY DEF ScannerInv, CoverInv, Covers, Scanned, NoUpdateMissed
  <1> QED BY <1>1, ScannerInvHolds, PTL
=============================================================================
