------------------------- MODULE MCInventoryTracker -------------------------
(***************************************************************************)
(* Two exchanges, of which one throws and the other answers with nothing   *)
(* when a fetch fails; two fills empty one of them.                        *)
(***************************************************************************)
EXTENDS InventoryTracker

CONSTANTS a, b

TwoEach == [e \in Accounts |-> 2]
UpAndDown == {-1, 1}
=============================================================================
