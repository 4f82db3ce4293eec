-------------------------- MODULE MCBroadcastQueue --------------------------
(* Instances of BroadcastQueue for TLC: the threads are model values. *)
EXTENDS BroadcastQueue

CONSTANTS mainLoop, binanceIo

OneProducer == {mainLoop}
TwoProducers == {mainLoop, binanceIo}
=============================================================================
