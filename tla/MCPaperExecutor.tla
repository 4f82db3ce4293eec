-------------------------- MODULE MCPaperExecutor --------------------------
(***************************************************************************)
(* Two io threads and three exchanges.  Both directions sell at b, so that *)
(* trades compete for its base asset.                                      *)
(***************************************************************************)
EXTENDS PaperExecutor, TLC

CONSTANTS a, b, c

From(e, f) == [buy |-> e, sell |-> f, quantity |-> 6, price |-> 1]
Market == {From(a, b), From(c, b)}

\* A full fill, and half a fill at a worse price; the books hold more than is
\* ever ordered.
Partial == {[quantity |-> 6, price |-> 1], [quantity |-> 3, price |-> 2],
            [quantity |-> 9, price |-> 1]}

TwoTrades == [base |-> 6, quote |-> 135]

DearAtB == (a :> 1) @@ (b :> 2) @@ (c :> 1)

ThreadSymmetry == Permutations(Threads)
=============================================================================
