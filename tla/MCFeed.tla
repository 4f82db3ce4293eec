-------------------------------- MODULE MCFeed --------------------------------
(* Two pairs and three prices: the markets differ in levels that appear, go  *)
(* and change their quantity on both sides, several at a time.               *)
EXTENDS Feed

Side(a, b, c) == <<a, b, c>>

MCPrices == 1 .. 3
MCMarkets == {[bids |-> Side(1, 0, 0), asks |-> Side(0, 0, 2)],
              [bids |-> Side(2, 1, 0), asks |-> Side(0, 0, 1)],
              [bids |-> Side(1, 0, 0), asks |-> Side(0, 1, 0)]}
=============================================================================
