------------------------------ MODULE FeeManager ------------------------------
(***************************************************************************)
(* The cache of taker fees of strategy/fee_manager.cpp for one pair, and   *)
(* the thread that refreshes it: refresh_all_fees() asks every exchange,   *)
(* without the lock, for its pairs and then for the fee of each, and swaps *)
(* the new cache in under the lock.  main refreshes twice, by itself and   *)
(* in start_periodic_refresh(), before it starts the thread.               *)
(***************************************************************************)
EXTENDS Integers

CONSTANTS NExchanges,   \* exchanges are numbered as in the enum
          FetchedFee,   \* the fee that each exchange reports
          DefaultFee,   \* default_fee_for_exchange
          NoFee,        \* nullopt
          MayFail,      \* the fetches, by refresh and exchange, that may fail
          MaxRefreshes  \* bound on the refreshes of a run of the program

ASSUME FeeConstants ==
    /\ NExchanges \in Nat \ {0}
    /\ FetchedFee \in [1 .. NExchanges -> Nat]
    /\ DefaultFee \in [1 .. NExchanges -> Nat]
    /\ NoFee \notin Nat
    /\ MaxRefreshes \in Nat \ {0, 1}
    /\ MayFail \subseteq (1 .. MaxRefreshes) \X (1 .. NExchanges)

VARIABLES fee_cache, new_cache, \* the map's entries for the pair
          asking,               \* the next exchange of refresh_all_fees()
          refreshes,            \* refreshes begun
          refresher,            \* "main", or the state of the thread
          running,
          caches                \* history: every cache that was swapped in

fees == <<fee_cache, new_cache, asking, refreshes, refresher, running, caches>>

Exchanges == 1 .. NExchanges
Empty == [e \in Exchanges |-> NoFee]

FeeInit ==
    /\ fee_cache = Empty /\ new_cache = Empty /\ caches = {Empty}
    /\ asking = 1 /\ refreshes = 1
    /\ refresher = "main" /\ running = FALSE

-----------------------------------------------------------------------------
(* Readers *)

\* The fee of an exchange in a cache, or its default.
FeeIn(cache, e) == IF cache[e] # NoFee THEN cache[e] ELSE DefaultFee[e]
RateIn(cache, buy, sell) == FeeIn(cache, buy) + FeeIn(cache, sell)

\* Mutant: the new cache is built in the place of the old one.
total_fee_rate_in_place(buy, sell) ==
    RateIn([e \in Exchanges |-> IF e < asking THEN new_cache[e] ELSE fee_cache[e]],
           buy, sell)

\* Both fees are read under one shared lock.
total_fee_rate(buy, sell) == RateIn(fee_cache, buy, sell)

-----------------------------------------------------------------------------
(* refresh_all_fees() *)

Refreshing == refresher \in {"main", "refresh"}

\* An exchange answers, or the call for its pairs or for its fee throws, and
\* then it has no entry in the new cache, whatever the old one has.
Fetch ==
    /\ Refreshing /\ asking <= NExchanges
    /\ \/ new_cache' = [new_cache EXCEPT ![asking] = FetchedFee[asking]]
       \/ <<refreshes, asking>> \in MayFail /\ UNCHANGED new_cache
    /\ asking' = asking + 1
    /\ UNCHANGED <<fee_cache, refreshes, refresher, running, caches>>

Swapped ==
    /\ Refreshing /\ asking > NExchanges
    /\ fee_cache' = new_cache
    /\ caches' = caches \cup {new_cache}

BeginRefresh ==
    /\ refreshes < MaxRefreshes
    /\ refreshes' = refreshes + 1
    /\ new_cache' = Empty /\ asking' = 1

\* main's first refresh ends and start_periodic_refresh begins the second;
\* when that ends too, the thread is started.
SwapFirst ==
    /\ refresher = "main" /\ refreshes = 1
    /\ Swapped /\ BeginRefresh
    /\ running' = TRUE
    /\ UNCHANGED refresher

SwapAndStart ==
    /\ refresher = "main" /\ refreshes = 2
    /\ Swapped
    /\ refresher' = "sleep"
    /\ UNCHANGED <<new_cache, asking, refreshes, running>>

Swap ==
    /\ refresher = "refresh"
    /\ Swapped
    /\ refresher' = "sleep"
    /\ UNCHANGED <<new_cache, asking, refreshes, running>>

\* The interval is over.
Wake ==
    /\ refresher = "sleep" /\ running
    /\ BeginRefresh
    /\ refresher' = "refresh"
    /\ UNCHANGED <<fee_cache, running, caches>>

\* The loop's condition, which is tested every second of the sleep.
Leave ==
    /\ refresher = "sleep" /\ ~running
    /\ refresher' = "exited"
    /\ UNCHANGED <<fee_cache, new_cache, asking, refreshes, running, caches>>

-----------------------------------------------------------------------------
(* stop(), called by main *)

StopRefresh ==
    /\ running /\ refresher # "main"
    /\ running' = FALSE
    /\ UNCHANGED <<fee_cache, new_cache, asking, refreshes, refresher, caches>>

\* The join ends.
StopReturns ==
    /\ ~running /\ refresher = "exited"
    /\ UNCHANGED fees

FeeStep == Fetch \/ SwapFirst \/ SwapAndStart \/ Swap \/ Wake \/ Leave

FeeTypeOK ==
    /\ {fee_cache, new_cache} \cup caches \subseteq
           [Exchanges -> {NoFee} \cup {FetchedFee[e] : e \in Exchanges}]
    /\ asking \in 1 .. NExchanges + 1 /\ refreshes \in 1 .. MaxRefreshes
    /\ refresher \in {"main", "sleep", "refresh", "exited"}
    /\ running \in BOOLEAN
=============================================================================
