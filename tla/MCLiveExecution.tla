-------------------------- MODULE MCLiveExecution --------------------------
(***************************************************************************)
(* An exchange for each adapter.                                           *)
(***************************************************************************)
EXTENDS LiveExecution

Names == {"binance", "okx", "bybit", "mexc", "gateio"}
Named == [e \in Names |-> e]

\* Every adapter on each side.
Every == {o \in [Sides -> Names] : o["buy"] # o["sell"]}
=============================================================================
