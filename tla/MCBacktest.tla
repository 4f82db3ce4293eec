------------------------------ MODULE MCBacktest ------------------------------
(* Two exchanges that are cheap or dear at each time, or have no row.  Of two  *)
(* asks or bids that a trade takes, the second is within the limit (Steep) or  *)
(* beyond it (Gaps).  Bare fills one of the three cells of a side, so its      *)
(* row loses its asks.  Loose is not sorted, has a level without a quantity,   *)
(* and what is bought and sold from it in its order is up to 0.1% worse.       *)
EXTENDS Backtest

Level(p, q) == [price |-> p, quantity |-> q]

Low == <<Level(800, 4), Level(700, 4)>>
High == <<Level(1120, 4), Level(1100, 4)>>
Steep == [bids |-> Low, asks |-> <<Level(1000, 2), Level(1001, 4)>>]
Dear == [bids |-> High, asks |-> <<Level(1200, 4)>>]
Gaps == [bids |-> <<Level(1120, 2), Level(1100, 4)>>,
         asks |-> <<Level(1000, 2), Level(1030, 4)>>]
Bare == [bids |-> <<Level(1120, 4)>>, asks |-> <<Level(1000, 4)>>]
Loose == [bids |-> <<Level(1002, 4), Level(1003, 0), Level(1004, 2)>>,
          asks |-> <<Level(1001, 4), Level(1000, 2)>>]
Void == [bids |-> <<>>, asks |-> <<>>]

MCSides == {Steep, Dear, Gaps, Bare, Loose, Void}
MCSimFee == <<10, 10>>

\* What the proofs about the balances and the report suppose.
ASSUME FeesAndProfit == FeesAreCovered /\ ProfitIsEnough
=============================================================================
