----------------------------- MODULE MCReporting -----------------------------
(* Two trades of two pairs, which may be executed at the same time, and in   *)
(* the file a trade of one of the pairs and one of a pair that main has no   *)
(* more.  That of paper mode was left without its last newline.              *)
EXTENDS Reporting

CONSTANTS t1, t2, e1, e2, btc, eth, doge

MCTrades == {t1, t2}
MCPairOf == (t1 :> btc) @@ (t2 :> eth) @@ (e1 :> btc) @@ (e2 :> doge)

Kept == << <<Record(e2, TRUE)>>, <<Record(e1, TRUE)>> >>
MCKeptFiles ==
    [path \in {"paper", "live"} |-> {[lines |-> Kept, ended |-> path = "live"]}]
=============================================================================
