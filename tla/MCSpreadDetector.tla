--------------------------- MODULE MCSpreadDetector ---------------------------
(* Two exchanges, which both may be cheap or dear; the depth of the profit *)
(* depends on the rate, and a trade of all of it is too large.             *)
EXTENDS SpreadDetector

Level(p, q) == [price |-> p, quantity |-> q]

Cheap == [bids |-> <<Level(9, 8)>>, asks |-> <<Level(10, 8), Level(12, 8)>>]
Dear == [bids |-> <<Level(14, 8), Level(10, 8)>>, asks |-> <<Level(15, 8)>>]
Thin == [bids |-> <<Level(13, 4)>>, asks |-> <<Level(10, 1)>>]

MCQuotes == <<{Cheap, Dear}, {Dear, Thin}>>
MCFetchedFee == <<3, 5>>
MCDefaultFee == <<1, 2>>
MCMayFail == {<<2, 1>>, <<3, 2>>}
=============================================================================
