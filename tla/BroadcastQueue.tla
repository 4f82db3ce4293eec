--------------------------- MODULE BroadcastQueue ---------------------------
(***************************************************************************)
(* The lock-free ring buffer of server/broadcast_queue.{h,cpp}, at the     *)
(* granularity of its loads, slot accesses and stores.  Producers are the  *)
(* threads that call try_push (through DashboardWsServer::broadcast); the  *)
(* one consumer is the drain thread, which calls try_pop.                  *)
(*                                                                         *)
(* A message is the number of the call that pushed it.  The history        *)
(* variables accepted and delivered record the pushes that returned true   *)
(* and the pops that returned a message.                                   *)
(***************************************************************************)
EXTENDS Integers, Sequences

CONSTANTS Producers, \* threads that call try_push
          Capacity,  \* the constructor's argument
          MaxCalls   \* bound on the calls of try_push

ASSUME QueueConstants == Capacity \in Nat /\ MaxCalls \in Nat

VARIABLES head, tail, dropped, buffer,
          pushPc, curHead, message,     \* one try_push per producer
          popPc, curTail, msg,          \* the consumer's try_pop
          calls, accepted, delivered

pushVars == <<pushPc, curHead, message>>
popVars  == <<popPc, curTail, msg>>
vars == <<head, tail, dropped, buffer, pushVars, popVars,
          calls, accepted, delivered>>

-----------------------------------------------------------------------------
\* The constructor: one slot more than the capacity, and never fewer than 2.
\* Mutant: the slot that stays free is not added.
SlotsOneShort == IF Capacity > 2 THEN Capacity ELSE 2
Slots == IF Capacity + 1 > 2 THEN Capacity + 1 ELSE 2
SlotIndex == 0 .. Slots - 1

\* Mutant: the index does not wrap.
AfterNoWrap(i) == i + 1
After(i) == (i + 1) % Slots

\* Mutants: no full test; an empty test that ignores the wrap-around.
IsFullNever(i) == FALSE
IsEmptyNoWrap(i) == i >= head
IsFull(i) == After(i) = tail
IsEmpty(i) == i = head

\* The string a slot holds before its first write and after its message is
\* moved out; no message is equal to it.
NoMessage == 0
Messages == 1 .. MaxCalls

\* size(): the occupied slots between the two indices.
Size(h, t) == IF h >= t THEN h - t ELSE Slots - t + h

Init ==
    /\ head = 0 /\ tail = 0 /\ dropped = 0
    /\ buffer = [i \in SlotIndex |-> NoMessage]
    /\ pushPc = [p \in Producers |-> "idle"]
    /\ curHead = [p \in Producers |-> 0]
    /\ message = [p \in Producers |-> NoMessage]
    /\ popPc = "idle" /\ curTail = 0 /\ msg = NoMessage
    /\ calls = 0 /\ accepted = <<>> /\ delivered = <<>>

-----------------------------------------------------------------------------
(* try_push *)

PushAt(p, from, to) ==
    /\ pushPc[p] = from
    /\ pushPc' = [pushPc EXCEPT ![p] = to]

\* cur_head = head_.load(relaxed)
LoadHead(p) ==
    /\ calls < MaxCalls
    /\ PushAt(p, "idle", "check")
    /\ calls' = calls + 1
    /\ message' = [message EXCEPT ![p] = calls + 1]
    /\ curHead' = [curHead EXCEPT ![p] = head]
    /\ UNCHANGED <<head, tail, dropped, buffer, popVars, accepted, delivered>>

\* The slot after cur_head is the tail: the message is discarded.
PushFull(p) ==
    /\ PushAt(p, "check", "idle")
    /\ IsFull(curHead[p])
    /\ dropped' = dropped + 1
    /\ UNCHANGED <<head, tail, buffer, curHead, message, popVars, calls,
                   accepted, delivered>>

PushNotFull(p) ==
    /\ PushAt(p, "check", "write")
    /\ ~IsFull(curHead[p])
    /\ UNCHANGED <<head, tail, dropped, buffer, curHead, message, popVars,
                   calls, accepted, delivered>>

\* buffer_[cur_head] = message
WriteSlot(p) ==
    /\ PushAt(p, "write", "publish")
    /\ buffer' = [buffer EXCEPT ![curHead[p]] = message[p]]
    /\ UNCHANGED <<head, tail, dropped, curHead, message, popVars, calls,
                   accepted, delivered>>

\* head_.store(next_head, release); return true
PublishHead(p) ==
    /\ PushAt(p, "publish", "idle")
    /\ head' = After(curHead[p])
    /\ accepted' = Append(accepted, message[p])
    /\ UNCHANGED <<tail, dropped, buffer, curHead, message, popVars, calls,
                   delivered>>

-----------------------------------------------------------------------------
(* try_pop *)

PopAt(from, to) == popPc = from /\ popPc' = to

\* cur_tail = tail_.load(relaxed)
LoadTail ==
    /\ PopAt("idle", "check")
    /\ curTail' = tail
    /\ UNCHANGED <<head, tail, dropped, buffer, pushVars, msg, calls,
                   accepted, delivered>>

\* Empty when head == tail: returns nullopt.
PopEmpty ==
    /\ PopAt("check", "idle")
    /\ IsEmpty(curTail)
    /\ UNCHANGED <<head, tail, dropped, buffer, pushVars, curTail, msg, calls,
                   accepted, delivered>>

PopFound ==
    /\ PopAt("check", "move")
    /\ ~IsEmpty(curTail)
    /\ UNCHANGED <<head, tail, dropped, buffer, pushVars, curTail, msg, calls,
                   accepted, delivered>>

\* msg = std::move(buffer_[cur_tail])
MoveSlot ==
    /\ PopAt("move", "publish")
    /\ msg' = buffer[curTail]
    /\ buffer' = [buffer EXCEPT ![curTail] = NoMessage]
    /\ UNCHANGED <<head, tail, dropped, pushVars, curTail, calls, accepted,
                   delivered>>

\* tail_.store(next_tail, release); return msg
PublishTail ==
    /\ PopAt("publish", "idle")
    /\ tail' = After(curTail)
    /\ delivered' = Append(delivered, msg)
    /\ UNCHANGED <<head, dropped, buffer, pushVars, curTail, msg, calls,
                   accepted>>

-----------------------------------------------------------------------------
Push(p) == LoadHead(p) \/ PushFull(p) \/ PushNotFull(p) \/ WriteSlot(p)
           \/ PublishHead(p)
Pop == LoadTail \/ PopEmpty \/ PopFound \/ MoveSlot \/ PublishTail
Next == (\E p \in Producers : Push(p)) \/ Pop

\* drain_loop calls try_pop for as long as the server runs; a producer that
\* entered try_push leaves it (the code has no wait in it).
Fairness ==
    /\ WF_vars(Pop)
    /\ \A p \in Producers : WF_vars(pushPc[p] # "idle" /\ Push(p))

Spec == Init /\ [][Next]_vars
FairSpec == Spec /\ Fairness

-----------------------------------------------------------------------------
(* Properties *)

SingleProducer == \A p, q \in Producers : p = q

\* The types of the ring's indices and slots, of the local variables of the
\* calls in progress, and of the histories.
TypeOK ==
    /\ head \in SlotIndex /\ tail \in SlotIndex /\ dropped \in Nat
    /\ buffer \in [SlotIndex -> Messages \cup {NoMessage}]
    /\ pushPc \in [Producers -> {"idle", "check", "write", "publish"}]
    /\ curHead \in [Producers -> SlotIndex]
    /\ message \in [Producers -> Messages \cup {NoMessage}]
    /\ \A p \in Producers : pushPc[p] # "idle" => message[p] \in Messages
    /\ popPc \in {"idle", "check", "move", "publish"}
    /\ curTail \in SlotIndex /\ msg \in Messages \cup {NoMessage}
    /\ calls \in 0 .. MaxCalls
    /\ accepted \in Seq(Messages)
    /\ delivered \in Seq(Messages \cup {NoMessage})

\* No two threads touch the same std::string of the ring at the same time:
\* the string assignment of try_push and the move of try_pop are not atomic,
\* and it is the index protocol alone that keeps them apart.
NoSlotRace ==
    \A p \in Producers : pushPc[p] = "write" =>
        /\ popPc = "move" => curTail # curHead[p]
        /\ \A q \in Producers \ {p} :
               pushPc[q] = "write" => curHead[q] # curHead[p]

\* Every push that returned true is delivered or still in the ring, and
\* nothing is in the ring twice: the accounting that
\* tests/test_broadcast_queue.cpp (ConcurrentPushPop) ends with, in every
\* state.  With capacity_ slots at most capacity_ - 1 messages wait.
AcceptedAccounted ==
    Len(accepted) = Len(delivered) + Size(head, tail)

\* The messages between tail and head, oldest first; the first of them is
\* already in the consumer's hands once it is moved out of its slot.
SlotFrom(t, k) == IF t + k - 1 < Slots THEN t + k - 1 ELSE t + k - 1 - Slots
Waiting ==
    [k \in 1 .. Size(head, tail) |->
        IF k = 1 /\ popPc = "publish" THEN msg ELSE buffer[SlotFrom(tail, k)]]

Promise == INSTANCE BoundedQueue WITH
    queue <- Waiting, Limit <- IF Capacity > 1 THEN Capacity ELSE 1

\* The ring implements the bounded FIFO of broadcast_queue.h: no message is
\* lost, duplicated, reordered or made up, and a push is refused only when
\* capacity messages wait.
ImplementsBoundedQueue == Promise!Spec

\* Why the protocol works with one producer.  Between the load of head_ and
\* the store only the producer itself moves head, and the consumer moving
\* tail can only make room; likewise for the consumer and its tail.
PushProtocol ==
    \A p \in Producers :
        /\ pushPc[p] # "idle" => curHead[p] = head
        /\ pushPc[p] \in {"write", "publish"} => ~IsFull(head)
        /\ pushPc[p] = "publish" => buffer[head] = message[p]
PopProtocol ==
    /\ popPc # "idle" => curTail = tail
    /\ popPc \in {"move", "publish"} => ~IsEmpty(tail)

\* The inductive invariant: the slots the two protocols keep apart, and the
\* account of the messages.
QueueInv == TypeOK /\ PushProtocol /\ PopProtocol /\ AcceptedAccounted

\* Every accepted message is delivered while the drain thread keeps popping.
AcceptedIsDelivered ==
    \A n \in 1 .. MaxCalls : (Len(accepted) >= n) ~> (Len(delivered) >= n)
=============================================================================
