---------------------------- MODULE BoundedQueue ----------------------------
(***************************************************************************)
(* What the dashboard's message queue promises its callers, as             *)
(* broadcast_queue.h states it: a FIFO of at most Limit messages that      *)
(* never blocks.  A push into a full queue is refused and counted; every   *)
(* message that was accepted is delivered once, in the order of            *)
(* acceptance.                                                             *)
(***************************************************************************)
EXTENDS Naturals, Sequences

CONSTANTS Messages,  \* what can be pushed
          Limit      \* how many messages the queue holds

VARIABLES queue,     \* accepted and not yet delivered, oldest first
          delivered, \* what try_pop has returned, in order
          dropped    \* how many pushes were refused

qvars == <<queue, delivered, dropped>>

Init == queue = <<>> /\ delivered = <<>> /\ dropped = 0

Accept(m) ==
    /\ Len(queue) < Limit
    /\ queue' = Append(queue, m)
    /\ UNCHANGED <<delivered, dropped>>

Discard ==
    /\ Len(queue) = Limit
    /\ dropped' = dropped + 1
    /\ UNCHANGED <<queue, delivered>>

Deliver ==
    /\ queue # <<>>
    /\ delivered' = Append(delivered, Head(queue))
    /\ queue' = Tail(queue)
    /\ UNCHANGED dropped

Next == (\E m \in Messages : Accept(m)) \/ Discard \/ Deliver

Spec == Init /\ [][Next]_qvars
=============================================================================
