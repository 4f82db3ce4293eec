--------------------------- MODULE LockFreeProof ---------------------------
(***************************************************************************)
(* Proofs about the two structures that threads share without a lock: the  *)
(* ring of the dashboard (BroadcastQueue) and the seqlock of a book        *)
(* (OrderBook).  The two share no state.                                   *)
(*                                                                         *)
(* The ring, for every capacity and every bound on the calls.  Type        *)
(* correctness needs nothing; the other theorems assume what the class     *)
(* comment asks of its callers, a single producer.                         *)
(*                                                                         *)
(* The seqlock, for any number of levels, any depth and any number of      *)
(* updates: the arrays are whole whenever the seqlock is even, and a       *)
(* snapshot validated by an even value is not torn.                        *)
(***************************************************************************)
EXTENDS BroadcastQueue, OrderBook, SequenceTheorems, TLAPS

-----------------------------------------------------------------------------
(* The ring *)

\* The ring has at least two slots.
LEMMA SlotsAtLeastTwo == Slots \in Nat /\ Slots >= 2
  BY QueueConstants DEF Slots

\* The index after i wraps at the end of the ring.
LEMMA AfterWraps ==
    ASSUME NEW i \in SlotIndex
    PROVE  /\ After(i) = IF i + 1 = Slots THEN 0 ELSE i + 1
           /\ After(i) \in SlotIndex
  <1>1. Slots \in Nat /\ Slots >= 2
    BY SlotsAtLeastTwo
  <1>2. CASE i + 1 = Slots
    <2>1. Slots % Slots = 0
      BY <1>1
    <2> QED BY <2>1, <1>1, <1>2 DEF After, SlotIndex
  <1>3. CASE i + 1 # Slots
    <2>1. i + 1 \in 0 .. Slots - 1
      BY <1>1, <1>3 DEF SlotIndex
    <2>2. (i + 1) % Slots = i + 1
      BY <2>1, <1>1
    <2> QED BY <2>1, <2>2, <1>3 DEF After, SlotIndex
  <1> QED BY <1>2, <1>3

LEMMA AfterInjective ==
    ASSUME NEW i \in SlotIndex, NEW j \in SlotIndex, After(i) = After(j)
    PROVE  i = j
  <1>1. i \in 0 .. Slots - 1 /\ j \in 0 .. Slots - 1
    BY DEF SlotIndex
  <1>2. (IF i + 1 = Slots THEN 0 ELSE i + 1) = (IF j + 1 = Slots THEN 0 ELSE j + 1)
    BY AfterWraps
  <1> QED BY <1>1, <1>2, SlotsAtLeastTwo

-----------------------------------------------------------------------------
(* Type correctness, for any number of producers *)

LEMMA TypeOKInit == Init => TypeOK
  <1> SUFFICES ASSUME Init PROVE TypeOK
    OBVIOUS
  <1>1. 0 \in SlotIndex
    BY QueueConstants DEF SlotIndex, Slots
  <1> QED
    BY <1>1, QueueConstants DEF Init, TypeOK, NoMessage, Messages

LEMMA TypeOKStep == TypeOK /\ [Next]_vars => TypeOK'
  <1> SUFFICES ASSUME TypeOK, [Next]_vars PROVE TypeOK'
    OBVIOUS
  <1> USE DEF TypeOK, PushAt, PopAt, popVars, pushVars
  <1>1. ASSUME NEW p \in Producers, LoadHead(p) PROVE TypeOK'
    <2>1. calls + 1 \in Messages /\ calls + 1 \in 0 .. MaxCalls
      BY <1>1, QueueConstants DEF LoadHead, Messages
    <2> QED BY <1>1, <2>1 DEF LoadHead
  <1>2. ASSUME NEW p \in Producers, PushFull(p) PROVE TypeOK'
    BY <1>2 DEF PushFull
  <1>3. ASSUME NEW p \in Producers, PushNotFull(p) PROVE TypeOK'
    BY <1>3 DEF PushNotFull
  <1>4. ASSUME NEW p \in Producers, WriteSlot(p) PROVE TypeOK'
    BY <1>4 DEF WriteSlot
  <1>5. ASSUME NEW p \in Producers, PublishHead(p) PROVE TypeOK'
    <2>1. message[p] \in Messages
      BY <1>5 DEF PublishHead
    <2>2. Append(accepted, message[p]) \in Seq(Messages)
      BY <2>1
    <2>3. After(curHead[p]) \in SlotIndex
      BY AfterWraps
    <2> QED BY <1>5, <2>2, <2>3 DEF PublishHead
  <1>6. CASE LoadTail
    BY <1>6 DEF LoadTail
  <1>7. CASE PopEmpty
    BY <1>7 DEF PopEmpty
  <1>8. CASE PopFound
    BY <1>8 DEF PopFound
  <1>9. CASE MoveSlot
    BY <1>9 DEF MoveSlot
  <1>10. CASE PublishTail
    <2>1. After(curTail) \in SlotIndex
      BY AfterWraps
    <2>2. Append(delivered, msg) \in Seq(Messages \cup {NoMessage})
      OBVIOUS
    <2> QED BY <1>10, <2>1, <2>2 DEF PublishTail
  <1>11. CASE UNCHANGED vars
    BY <1>11 DEF vars
  <1> QED
    BY <1>1, <1>2, <1>3, <1>4, <1>5, <1>6, <1>7, <1>8, <1>9, <1>10, <1>11
       DEF Next, Push, Pop

\* In every state the indices stay within the ring and only pushed messages
\* are accepted (try_push, try_pop), whatever the number of producers.
THEOREM TypeCorrect == Spec => []TypeOK
  <1> QED BY TypeOKInit, TypeOKStep, PTL DEF Spec

-----------------------------------------------------------------------------
(* The index protocol, with a single producer *)

\* How the number of occupied slots changes with the indices.
LEMMA SizeChanges ==
    ASSUME NEW h \in SlotIndex, NEW t \in SlotIndex
    PROVE  /\ Size(h, t) \in 0 .. Slots - 1
           /\ Size(h, t) = 0 <=> h = t
           /\ Size(h, t) = Slots - 1 <=> After(h) = t
           /\ After(h) # t => Size(After(h), t) = Size(h, t) + 1
           /\ h # t => Size(h, After(t)) = Size(h, t) - 1
  <1>1. Slots \in Nat /\ Slots >= 2
    BY SlotsAtLeastTwo
  <1> QED BY <1>1, AfterWraps DEF Size, SlotIndex

LEMMA QueueInvInit == Init => QueueInv
  <1> SUFFICES ASSUME Init PROVE QueueInv
    OBVIOUS
  <1>1. TypeOK
    BY TypeOKInit
  <1>2. AcceptedAccounted
    BY <1>1, SizeChanges DEF Init, AcceptedAccounted, TypeOK
  <1> QED BY <1>1, <1>2 DEF QueueInv, Init, PushProtocol, PopProtocol

LEMMA QueueInvStep ==
    SingleProducer /\ QueueInv /\ [Next]_vars => QueueInv'
  <1> SUFFICES ASSUME SingleProducer, QueueInv, [Next]_vars PROVE QueueInv'
    OBVIOUS
  <1>0. TypeOK /\ TypeOK' /\ Size(head, tail) \in Nat
    <2>1. TypeOK /\ TypeOK'
      BY TypeOKStep DEF QueueInv
    <2>2. Size(head, tail) \in 0 .. Slots - 1
      BY <2>1, SizeChanges DEF TypeOK
    <2> QED BY <2>1, <2>2, SlotsAtLeastTwo
  <1> USE DEF QueueInv, PushProtocol, PopProtocol, AcceptedAccounted,
              PushAt, PopAt, pushVars, popVars, IsFull, IsEmpty
  <1>1. ASSUME NEW p \in Producers, LoadHead(p) PROVE QueueInv'
    BY <1>0, <1>1 DEF LoadHead, SingleProducer, TypeOK
  <1>2. ASSUME NEW p \in Producers, PushFull(p) PROVE QueueInv'
    BY <1>0, <1>2 DEF PushFull, SingleProducer, TypeOK
  <1>3. ASSUME NEW p \in Producers, PushNotFull(p) PROVE QueueInv'
    BY <1>0, <1>3 DEF PushNotFull, SingleProducer, TypeOK
  <1>4. ASSUME NEW p \in Producers, WriteSlot(p) PROVE QueueInv'
    BY <1>0, <1>4 DEF WriteSlot, SingleProducer, TypeOK
  <1>5. ASSUME NEW p \in Producers, PublishHead(p) PROVE QueueInv'
    <2>1. After(head) # tail /\ head' = After(head) /\ tail' = tail
      BY <1>5 DEF PublishHead
    <2>2. Size(head', tail') = Size(head, tail) + 1
      BY <1>0, <2>1, SizeChanges DEF TypeOK
    <2>3. Len(accepted') = Len(accepted) + 1 /\ delivered' = delivered
      BY <1>0, <1>5 DEF PublishHead, TypeOK
    <2>4. AcceptedAccounted'
      BY <1>0, <2>2, <2>3 DEF TypeOK
    <2>5. PushProtocol'
      BY <1>0, <1>5 DEF PublishHead, SingleProducer, TypeOK
    <2>6. popPc' # "idle" => curTail' = tail'
      BY <1>5 DEF PublishHead
    <2>7. popPc' \in {"move", "publish"} => tail' # head'
      BY <1>0, <1>5, <2>1 DEF PublishHead
    <2> QED BY <1>0, <2>4, <2>5, <2>6, <2>7
  <1>6. CASE LoadTail
    BY <1>0, <1>6 DEF LoadTail, TypeOK
  <1>7. CASE PopEmpty
    BY <1>0, <1>7 DEF PopEmpty, TypeOK
  <1>8. CASE PopFound
    BY <1>0, <1>8 DEF PopFound, TypeOK
  <1>9. CASE MoveSlot
    <2>1. tail # head /\ curTail = tail
      BY <1>9 DEF MoveSlot
    <2>2. \A p \in Producers : pushPc[p] = "publish" => buffer'[head] = message[p]
      BY <1>0, <1>9, <2>1 DEF MoveSlot, TypeOK
    <2> QED BY <1>0, <1>9, <2>1, <2>2 DEF MoveSlot, TypeOK
  <1>10. CASE PublishTail
    <2>1. tail # head /\ tail' = After(tail) /\ head' = head
      BY <1>10 DEF PublishTail
    <2>2. Size(head', tail') = Size(head, tail) - 1
      BY <1>0, <2>1, SizeChanges DEF TypeOK
    <2>3. Len(delivered') = Len(delivered) + 1 /\ accepted' = accepted
      BY <1>0, <1>10 DEF PublishTail, TypeOK
    <2>4. AcceptedAccounted'
      BY <1>0, <2>2, <2>3 DEF TypeOK
    <2>5. After(head) # tail'
      BY <1>0, <2>1, AfterInjective DEF TypeOK
    <2>6. PushProtocol'
      BY <1>0, <1>10, <2>1, <2>5 DEF PublishTail, TypeOK
    <2>7. PopProtocol'
      BY <1>10 DEF PublishTail
    <2> QED BY <1>0, <2>4, <2>6, <2>7
  <1>11. CASE UNCHANGED vars
    BY <1>11, <1>0 DEF vars
  <1> QED
    BY <1>1, <1>2, <1>3, <1>4, <1>5, <1>6, <1>7, <1>8, <1>9, <1>10, <1>11
       DEF Next, Push, Pop

\* The inductive invariant holds in every state of a queue with one producer.
THEOREM QueueInvHolds == SingleProducer => (Spec => []QueueInv)
  <1> SUFFICES ASSUME SingleProducer PROVE Spec => []QueueInv
    OBVIOUS
  <1>1. QueueInv /\ [Next]_vars => QueueInv'
    BY QueueInvStep
  <1> QED BY QueueInvInit, <1>1, PTL DEF Spec

\* With one producer, every push that returned true is delivered or waits in
\* the ring (the accounting of the test ConcurrentPushPop).
THEOREM AcceptedAccountedHolds == SingleProducer => (Spec => []AcceptedAccounted)
  <1> SUFFICES ASSUME SingleProducer PROVE Spec => []AcceptedAccounted
    OBVIOUS
  <1>1. QueueInv => AcceptedAccounted
    BY DEF QueueInv
  <1> QED BY QueueInvHolds, <1>1, PTL

\* With one producer, the assignment of try_push and the move of try_pop never
\* touch the same slot at the same time.
THEOREM NoSlotRaceHolds == SingleProducer => (Spec => []NoSlotRace)
  <1> SUFFICES ASSUME SingleProducer PROVE Spec => []NoSlotRace
    OBVIOUS
  <1>1. QueueInv => NoSlotRace
    BY DEF QueueInv, NoSlotRace, PushProtocol, PopProtocol, SingleProducer,
           IsEmpty
  <1> QED BY QueueInvHolds, <1>1, PTL

-----------------------------------------------------------------------------
(* The ring implements the bounded FIFO, with a single producer *)

\* Where the k-th waiting message is: in the ring, never in the slot that the
\* producer writes next, and only the first one in the slot at the tail.
LEMMA SlotOfWaiting ==
    ASSUME NEW h \in SlotIndex, NEW t \in SlotIndex
    PROVE  /\ SlotFrom(t, 1) = t
           /\ SlotFrom(t, Size(h, t) + 1) = h
           /\ \A k \in 1 .. Size(h, t) :
                  /\ SlotFrom(t, k) \in SlotIndex
                  /\ SlotFrom(t, k) # h
                  /\ k # 1 => /\ SlotFrom(t, k) # t
                             /\ SlotFrom(t, k) = SlotFrom(After(t), k - 1)
  <1>1. After(t) = IF t + 1 = Slots THEN 0 ELSE t + 1
    BY AfterWraps
  <1>2. h \in 0 .. Slots - 1 /\ t \in 0 .. Slots - 1
    BY DEF SlotIndex
  <1> QED
    BY <1>1, <1>2, SlotsAtLeastTwo DEF SlotFrom, Size, SlotIndex

\* The waiting messages form a sequence as long as the ring is occupied.
LEMMA WaitingIsSequence ==
    ASSUME TypeOK
    PROVE  /\ Waiting \in Seq(Messages \cup {NoMessage})
           /\ Len(Waiting) = Size(head, tail)
           /\ Size(head, tail) \in 0 .. Slots - 1
  <1>1. Size(head, tail) \in 0 .. Slots - 1
    BY SizeChanges DEF TypeOK
  <1>2. Size(head, tail) \in Nat
    BY <1>1, SlotsAtLeastTwo
  <1>3. \A k \in 1 .. Size(head, tail) :
           (IF k = 1 /\ popPc = "publish" THEN msg ELSE buffer[SlotFrom(tail, k)])
               \in Messages \cup {NoMessage}
    BY SlotOfWaiting DEF TypeOK
  <1> QED BY <1>1, <1>2, <1>3 DEF Waiting

LEMMA PromiseInit == Init => Promise!Init
  <1> SUFFICES ASSUME Init PROVE Promise!Init
    OBVIOUS
  <1>1. Size(head, tail) = 0
    BY TypeOKInit, SizeChanges DEF Init, TypeOK
  <1>2. Waiting = <<>>
    BY <1>1 DEF Waiting
  <1> QED BY <1>2 DEF Promise!Init, Init

\* A step that keeps the waiting messages, the deliveries and the drops is a
\* stutter of the abstract queue.
LEMMA PromiseStep ==
    ASSUME SingleProducer, QueueInv, [Next]_vars
    PROVE  [Promise!Next]_(Promise!qvars)
  <1>0. /\ TypeOK /\ TypeOK'
        /\ head \in SlotIndex /\ tail \in SlotIndex
    BY TypeOKStep DEF QueueInv, TypeOK
  <1>1. SUFFICES ASSUME ~UNCHANGED vars
                 PROVE  \/ Promise!Next
                        \/ Waiting' = Waiting /\ UNCHANGED <<delivered, dropped>>
    BY DEF Promise!qvars, vars, Waiting, popVars
  <1>w. ASSUME UNCHANGED <<head, tail, buffer>>,
               popPc' = "publish" <=> popPc = "publish",
               msg' = msg
        PROVE  Waiting' = Waiting
    BY <1>w DEF Waiting
  <1>2. ASSUME NEW p \in Producers, LoadHead(p)
        PROVE  Waiting' = Waiting /\ UNCHANGED <<delivered, dropped>>
    BY <1>2, <1>w DEF LoadHead, popVars
  <1>3. ASSUME NEW p \in Producers, PushFull(p) PROVE Promise!Discard
    <2>1. Waiting' = Waiting
      BY <1>3, <1>w DEF PushFull, popVars
    <2>2. Len(Waiting) = Slots - 1
      <3>1. After(head) = tail
        BY <1>3 DEF PushFull, PushAt, IsFull, QueueInv, PushProtocol
      <3> QED BY <1>0, <3>1, SizeChanges, WaitingIsSequence
    <2> QED
      BY <1>3, <2>1, <2>2, QueueConstants DEF PushFull, Promise!Discard, Slots
  <1>4. ASSUME NEW p \in Producers, PushNotFull(p)
        PROVE  Waiting' = Waiting /\ UNCHANGED <<delivered, dropped>>
    BY <1>4, <1>w DEF PushNotFull, popVars
  <1>5. ASSUME NEW p \in Producers, WriteSlot(p)
        PROVE  Waiting' = Waiting /\ UNCHANGED <<delivered, dropped>>
    <2>1. buffer' = [buffer EXCEPT ![head] = message[p]]
      BY <1>5 DEF WriteSlot, PushAt, QueueInv, PushProtocol
    <2>2. \A k \in 1 .. Size(head, tail) :
             buffer'[SlotFrom(tail, k)] = buffer[SlotFrom(tail, k)]
      BY <1>0, <2>1, SlotOfWaiting DEF TypeOK
    <2> QED BY <1>5, <2>2 DEF Waiting, WriteSlot, popVars
  <1>6. ASSUME NEW p \in Producers, PublishHead(p)
        PROVE  message[p] \in Messages /\ Promise!Accept(message[p])
    <2>1. /\ head' = After(head) /\ After(head) # tail
          /\ buffer[head] = message[p]
      BY <1>6 DEF PublishHead, PushAt, IsFull, QueueInv, PushProtocol
    <2>2. /\ Size(head', tail) = Size(head, tail) + 1
          /\ Size(head, tail) \in Nat
          /\ Size(head, tail) < Slots - 1
      BY <1>0, <2>1, SizeChanges, SlotsAtLeastTwo
    <2>3. Waiting' = Append(Waiting, message[p])
      <3>1. SlotFrom(tail, Size(head, tail) + 1) = head
        BY <1>0, SlotOfWaiting
      <3>2. Waiting' = [k \in 1 .. Size(head, tail) + 1 |->
                IF k = 1 /\ popPc = "publish" THEN msg ELSE buffer[SlotFrom(tail, k)]]
        BY <1>6, <2>1, <2>2 DEF Waiting, PublishHead, popVars
      <3>3. Size(head, tail) = 0 => popPc # "publish"
        BY <1>0, SizeChanges DEF QueueInv, PopProtocol, IsEmpty
      <3>4. Append(Waiting, message[p]) = [k \in 1 .. Size(head, tail) + 1 |->
                IF k = Size(head, tail) + 1 THEN message[p] ELSE Waiting[k]]
        BY <1>0, <2>2, WaitingIsSequence
      <3>5. \A k \in 1 .. Size(head, tail) + 1 :
               (IF k = 1 /\ popPc = "publish" THEN msg ELSE buffer[SlotFrom(tail, k)])
               = (IF k = Size(head, tail) + 1 THEN message[p] ELSE Waiting[k])
        BY <2>1, <2>2, <3>1, <3>3 DEF Waiting
      <3> QED BY <3>2, <3>4, <3>5
    <2>4. message[p] \in Messages
      BY <1>0, <1>6 DEF TypeOK, PublishHead, PushAt
    <2> QED BY <1>0, <1>6, <2>2, <2>3, <2>4, WaitingIsSequence, QueueConstants
            DEF PublishHead, Promise!Accept, Slots
  <1>7. ASSUME LoadTail \/ PopEmpty \/ PopFound
        PROVE  Waiting' = Waiting /\ UNCHANGED <<delivered, dropped>>
    BY <1>7, <1>w DEF LoadTail, PopEmpty, PopFound, PopAt
  <1>8. ASSUME MoveSlot
        PROVE  Waiting' = Waiting /\ UNCHANGED <<delivered, dropped>>
    <2>1. buffer' = [buffer EXCEPT ![tail] = NoMessage] /\ msg' = buffer[tail]
      BY <1>8 DEF MoveSlot, PopAt, QueueInv, PopProtocol
    <2>2. \A k \in 1 .. Size(head, tail) : k # 1 =>
             buffer'[SlotFrom(tail, k)] = buffer[SlotFrom(tail, k)]
      BY <1>0, <2>1, SlotOfWaiting DEF TypeOK
    <2>3. popPc = "move" /\ popPc' = "publish" /\ UNCHANGED <<head, tail>>
      BY <1>8 DEF MoveSlot, PopAt
    <2>4. SlotFrom(tail, 1) = tail
      BY <1>0, SlotOfWaiting
    <2> QED BY <1>8, <2>1, <2>2, <2>3, <2>4 DEF Waiting, MoveSlot
  <1>9. ASSUME PublishTail PROVE Promise!Deliver
    <2>1. /\ head # tail /\ tail' = After(tail) /\ UNCHANGED <<head, buffer, msg>>
          /\ popPc = "publish" /\ popPc' = "idle"
      BY <1>9 DEF PublishTail, PopAt, IsEmpty, QueueInv, PopProtocol
    <2>2. /\ Size(head', tail') = Size(head, tail) - 1
          /\ Size(head, tail) \in Nat /\ Size(head, tail) > 0
      BY <1>0, <2>1, SizeChanges, SlotsAtLeastTwo
    <2>3. Waiting # <<>> /\ Head(Waiting) = msg
      BY <1>0, <2>1, <2>2, WaitingIsSequence DEF Waiting
    <2>4. Waiting' = Tail(Waiting)
      <3>1. \A k \in 1 .. Size(head, tail) - 1 :
               SlotFrom(tail, k + 1) = SlotFrom(tail', k)
        BY <1>0, <2>1, <2>2, SlotOfWaiting
      <3>2. Waiting' = [k \in 1 .. Size(head, tail) - 1 |-> buffer[SlotFrom(tail', k)]]
        BY <2>1, <2>2 DEF Waiting
      <3>3. /\ Waiting \in Seq(Messages \cup {NoMessage})
            /\ Len(Waiting) = Size(head, tail)
        BY <1>0, WaitingIsSequence
      <3>4. /\ Tail(Waiting) \in Seq(Messages \cup {NoMessage})
            /\ Len(Tail(Waiting)) = Size(head, tail) - 1
            /\ \A k \in 1 .. Size(head, tail) - 1 : Tail(Waiting)[k] = Waiting[k + 1]
        BY <2>3, <3>3, HeadTailProperties
      <3>5. \A k \in 1 .. Size(head, tail) - 1 :
               Waiting[k + 1] = buffer[SlotFrom(tail', k)]
        BY <2>2, <3>1 DEF Waiting
      <3>6. /\ Waiting' \in Seq(Messages \cup {NoMessage})
            /\ Len(Waiting') = Size(head, tail) - 1
            /\ \A k \in 1 .. Size(head, tail) - 1 : Waiting'[k] = Tail(Waiting)[k]
        <4>1. \A k \in 1 .. Size(head, tail) - 1 :
                 Waiting[k + 1] \in Messages \cup {NoMessage}
          BY <2>2, <3>3
        <4> QED BY <2>2, <3>2, <3>4, <3>5, <4>1
      <3> QED BY <3>4, <3>6, SeqEqual
    <2> QED BY <1>9, <2>3, <2>4 DEF PublishTail, Promise!Deliver
  <1> QED
    BY <1>1, <1>2, <1>3, <1>4, <1>5, <1>6, <1>7, <1>8, <1>9
       DEF Next, Push, Pop, Promise!Next

\* With one producer, the ring buffer implements the bounded FIFO that
\* broadcast_queue.h promises: nothing accepted is lost, duplicated or
\* reordered, and a push is refused only while the queue is full.
THEOREM RingImplementsBoundedQueue ==
    SingleProducer => (Spec => ImplementsBoundedQueue)
  <1> SUFFICES ASSUME SingleProducer PROVE Spec => ImplementsBoundedQueue
    OBVIOUS
  <1>1. QueueInv /\ [Next]_vars => [Promise!Next]_(Promise!qvars)
    BY PromiseStep
  <1> QED
    BY QueueInvHolds, PromiseInit, <1>1, PTL
       DEF Spec, ImplementsBoundedQueue, Promise!Spec

-----------------------------------------------------------------------------
(* The seqlock of a book *)

USE DEF Sides

\* Parity, as arithmetic.
LEMMA EvenOrOdd ==
    ASSUME NEW n \in Nat
    PROVE  /\ ~Odd(n) => n \div 2 \in Nat /\ n = 2 * (n \div 2)
           /\ Odd(n) => \A v \in Nat : n # 2 * v
           /\ \A v \in Nat : n = 2 * v => ~Odd(n) /\ n \div 2 = v
           /\ \A v \in Nat : v > 0 /\ n = 2 * v - 1 => Odd(n)
  BY DEF Odd

LEMMA LesserOf ==
    ASSUME NEW a \in Nat, NEW b \in Nat
    PROVE  /\ Lesser(a, b) \in Nat /\ Lesser(a, b) <= a /\ Lesser(a, b) <= b
           /\ Lesser(a, b) \in 0 .. a /\ Lesser(a, b) \in 0 .. b
  BY DEF Lesser

LEMMA BookBounds ==
    /\ TopLevels \in Nat /\ TopLevels > 0 /\ Depth \in Nat
    /\ BookLevels \in Nat /\ MaxUpdates \in Nat
    /\ Room \in Nat /\ Room <= TopLevels
    /\ NoLevel \in Versions /\ 0 \in Versions
  BY BookConstants, LesserOf DEF Room, Versions, NoLevel

LEMMA NextVersion == \A n \in Nat : n < MaxUpdates => n + 1 \in Versions
  BY BookBounds DEF Versions

\* What the vector operations of snapshot() return.
LEMMA StoreOf ==
    ASSUME NEW vec \in Seq(Versions), NEW i \in Nat, NEW x \in Versions
    PROVE  /\ Store(vec, i, x) \in Seq(Versions)
           /\ Len(Store(vec, i, x)) = Len(vec)
           /\ \A j \in 1 .. Len(vec) :
                  Store(vec, i, x)[j] = IF j = i THEN x ELSE vec[j]
  <1>1. DOMAIN vec = 1 .. Len(vec)
    OBVIOUS
  <1> QED BY <1>1 DEF Store

LEMMA ResizeOf ==
    ASSUME NEW vec \in Seq(Versions), NEW n \in Nat
    PROVE  /\ Resize(vec, n) \in Seq(Versions)
           /\ Len(Resize(vec, n)) = n
           /\ \A j \in 1 .. n :
                  Resize(vec, n)[j] = IF j \in 1 .. Len(vec) THEN vec[j] ELSE NoLevel
  <1>1. DOMAIN vec = 1 .. Len(vec)
    OBVIOUS
  <1>2. \A j \in 1 .. n :
           (IF j \in DOMAIN vec THEN vec[j] ELSE NoLevel) \in Versions
    BY <1>1, BookBounds
  <1>3. Resize(vec, n) \in Seq(Versions) /\ Len(Resize(vec, n)) = n
    BY <1>2 DEF Resize
  <1> QED BY <1>1, <1>3 DEF Resize

\* The updates counted by TopCount have levels within the arrays, and later
\* updates do not change it.
LEMMA TopCountOf ==
    ASSUME BookTypeOK, NEW v \in 0 .. Len(updates), NEW s \in Sides
    PROVE  TopCount(v, s) \in 0 .. TopLevels
  <1>1. CASE v = 0
    BY <1>1, BookBounds DEF TopCount
  <1>2. CASE v # 0
    <2>1. updates[v][s] \in Nat
      BY <1>2, BookBounds DEF BookTypeOK
    <2>2. Lesser(TopLevels, updates[v][s]) \in 0 .. TopLevels
      BY <2>1, LesserOf, BookBounds
    <2> QED BY <1>2, <2>2 DEF TopCount
  <1> QED BY <1>1, <1>2

-----------------------------------------------------------------------------
LEMMA SeqlockInit == BookInit => SeqlockInv
  <1> SUFFICES ASSUME BookInit PROVE SeqlockInv
    OBVIOUS
  <1>2. Blank \in [Sides -> Seq(Versions)]
    <2>1. <<>> \in Seq(Versions)
      OBVIOUS
    <2>2. Resize(<<>>, Room) \in Seq(Versions)
      BY <2>1, BookBounds, ResizeOf
    <2> QED BY <2>2 DEF Blank
  <1>3. BookTypeOK
    <2>1. kept \in [Sides -> Nat]
      BY BookBounds DEF BookInit
    <2> QED BY <1>2, <2>1, BookBounds DEF BookInit, BookTypeOK, NoLevel
  <1>4. WriterInv
    BY DEF BookInit, WriterInv, ArrayHolds, TopCount
  <1>5. ReaderInv
    BY DEF BookInit, ReaderInv, ReadOf, Versions
  <1> QED BY <1>3, <1>4, <1>5 DEF SeqlockInv

LEMMA BookTypeStep == SeqlockInv /\ [BookNext]_bookVars => BookTypeOK'
  <1> SUFFICES ASSUME SeqlockInv, [BookNext]_bookVars PROVE BookTypeOK'
    OBVIOUS
  <1>w. wpc # "idle" => Len(updates) > 0
    BY DEF SeqlockInv, WriterInv
  <1>u. updates \in Seq([Sides -> 0 .. BookLevels]) /\ wside \in Sides /\ BookLevels \in Nat
    BY BookBounds DEF SeqlockInv, BookTypeOK
  <1> USE DEF SeqlockInv, BookTypeOK, WriterAt, ReaderAt, book, writer, reader, locals
  <1>0. /\ Len(updates) \in Versions /\ Len(updates) \in Nat
        /\ snap[rside] \in Seq(Versions)
        /\ rpos \in Nat /\ rcount \in Nat /\ num_top[rside] \in Nat
    BY BookBounds DEF Versions
  <1>1. ASSUME NEW sizes \in [Sides -> 0 .. BookLevels], UpdateBook(sizes)
        PROVE  BookTypeOK'
    <2>1. /\ Append(updates, sizes) \in Seq([Sides -> 0 .. BookLevels])
          /\ Len(Append(updates, sizes)) = Len(updates) + 1
      OBVIOUS
    <2>2. Len(updates) + 1 \in Versions
      <3>1. Len(updates) < MaxUpdates
        BY <1>1 DEF UpdateBook
      <3> QED BY <1>0, <3>1, NextVersion
    <2>3. updates' = Append(updates, sizes) /\ last_sequence_id' = Len(updates) + 1
      BY <1>1 DEF UpdateBook
    <2>4. Len(updates') <= MaxUpdates
      BY <1>0, <1>1, <2>1, <2>3, BookBounds DEF UpdateBook
    <2>5. wpc' = "enter"
          /\ UNCHANGED <<last_update_time, seqlock, num_top, top, wside, wpos, reader>>
      BY <1>1 DEF UpdateBook
    <2> QED BY <2>1, <2>2, <2>3, <2>4, <2>5
  <1>2. CASE Enter
    BY <1>2 DEF Enter
  <1>3. CASE SetTime
    BY <1>0, <1>3 DEF SetTime
  <1>4. CASE SyncCount
    <2>1. updates[Len(updates)][wside] \in Nat
      <3>1. wpc = "count"
        BY <1>4 DEF SyncCount
      <3> QED BY ONLY <1>w, <1>u, <3>1
    <2>2. Lesser(TopLevels, updates[Len(updates)][wside]) \in 0 .. TopLevels
      BY <2>1, LesserOf, BookBounds
    <2> QED BY <1>4, <2>2, BookBounds DEF SyncCount
  <1>5. CASE SyncLevel
    BY <1>0, <1>5, BookBounds DEF SyncLevel
  <1>6. CASE SyncNextSide
    BY <1>6 DEF SyncNextSide
  <1>7. CASE Leave
    BY <1>7 DEF Leave
  <1>8. CASE CallSnapshot
    <2>1. <<>> \in Seq(Versions)
      OBVIOUS
    <2>2. Resize(<<>>, Room) \in Seq(Versions)
      BY <2>1, BookBounds, ResizeOf
    <2>3. Blank \in [Sides -> Seq(Versions)]
      BY <2>2 DEF Blank
    <2> QED BY <1>8, <2>3, BookBounds DEF CallSnapshot
  <1>9. CASE LoadSeq
    BY <1>9 DEF LoadSeq
  <1>10. CASE ReadSequenceId
    BY <1>10 DEF ReadSequenceId
  <1>11. CASE ReadTime
    BY <1>11 DEF ReadTime
  <1>12. CASE ReadCount
    <2>1. /\ Lesser(Room, num_top[rside]) \in Nat
          /\ Lesser(Room, num_top[rside]) <= Room
      BY <1>0, LesserOf, BookBounds
    <2>2. kept' \in [Sides -> Nat]
      BY <1>0, <1>12 DEF ReadCount
    <2> QED BY <1>12, <2>1, <2>2, BookBounds DEF ReadCount
  <1>13. CASE ReadLevel
    <2>1. top[rside][rpos] \in Versions
      BY <1>13, BookBounds DEF ReadLevel
    <2>2. Store(snap[rside], rpos, top[rside][rpos]) \in Seq(Versions)
      BY <1>0, <2>1, StoreOf
    <2> QED BY <1>13, <2>2, BookBounds DEF ReadLevel
  <1>14. CASE ResizeSide
    <2>1. Resize(snap[rside], rcount) \in Seq(Versions)
      BY <1>0, ResizeOf
    <2> QED BY <1>14, <2>1 DEF ResizeSide
  <1>15. CASE Recheck
    BY <1>15 DEF Recheck
  <1>16. CASE UNCHANGED bookVars
    BY <1>16 DEF bookVars
  <1> QED
    BY <1>1, <1>2, <1>3, <1>4, <1>5, <1>6, <1>7, <1>8, <1>9, <1>10, <1>11,
       <1>12, <1>13, <1>14, <1>15, <1>16 DEF BookNext, Update, Snapshot

-----------------------------------------------------------------------------
(* The writer *)

\* Applying an update leaves the older ones as they are.
LEMMA TopCountStable ==
    ASSUME BookTypeOK,
           updates' = updates \/
               \E sizes \in [Sides -> 0 .. BookLevels] : updates' = Append(updates, sizes)
    PROVE  /\ Len(updates) <= Len(updates') /\ Len(updates) \in Nat
           /\ \A v \in 0 .. Len(updates), s \in Sides :
                  TopCount(v, s)' = TopCount(v, s)
  <1>0. updates \in Seq([Sides -> 0 .. BookLevels])
    BY DEF BookTypeOK
  <1>1. CASE updates' = updates
    BY <1>0, <1>1 DEF TopCount
  <1>2. ASSUME NEW sizes \in [Sides -> 0 .. BookLevels],
               updates' = Append(updates, sizes)
        PROVE  /\ Len(updates) <= Len(updates') /\ Len(updates) \in Nat
               /\ \A v \in 0 .. Len(updates), s \in Sides :
                      TopCount(v, s)' = TopCount(v, s)
    <2>1. Len(updates') = Len(updates) + 1 /\ Len(updates) \in Nat
      BY <1>0, <1>2
    <2>2. \A v \in 1 .. Len(updates) : updates'[v] = updates[v]
      BY <1>0, <1>2
    <2>3. ASSUME NEW v \in 0 .. Len(updates), NEW s \in Sides
          PROVE  TopCount(v, s)' = TopCount(v, s)
      <3>1. CASE v = 0
        BY <3>1 DEF TopCount
      <3>2. CASE v # 0
        <4>1. updates'[v] = updates[v]
          BY <2>1, <2>2, <2>3, <3>2
        <4> QED BY <3>2, <4>1 DEF TopCount
      <3> QED BY <3>1, <3>2
    <2> QED BY <2>1, <2>3
  <1> QED BY <1>1, <1>2

LEMMA WriterInvStep == SeqlockInv /\ [BookNext]_bookVars => WriterInv'
  <1> SUFFICES ASSUME SeqlockInv, [BookNext]_bookVars PROVE WriterInv'
    OBVIOUS
  <1>0. BookTypeOK /\ WriterInv /\ Len(updates) \in Nat
    BY DEF SeqlockInv, BookTypeOK
  <1> USE DEF WriterAt, ReaderAt, book, writer, reader, locals
  <1>1. ASSUME NEW sizes \in [Sides -> 0 .. BookLevels], UpdateBook(sizes)
        PROVE  WriterInv'
    <2>1. /\ Len(updates') = Len(updates) + 1
          /\ wpc = "idle" /\ wpc' = "enter"
          /\ last_sequence_id' = Len(updates')
          /\ UNCHANGED <<last_update_time, seqlock, num_top, top>>
      BY <1>0, <1>1 DEF UpdateBook, BookTypeOK
    <2>2. \A v \in 1 .. Len(updates) : updates'[v] = updates[v]
      BY <1>0, <1>1 DEF UpdateBook, BookTypeOK
    <2> QED BY <1>0, <2>1, <2>2 DEF WriterInv, ArrayHolds, TopCount
  <1>2. CASE Enter
    BY <1>0, <1>2 DEF Enter, WriterInv
  <1>3. CASE SetTime
    BY <1>0, <1>3 DEF SetTime, WriterInv
  <1>4. CASE SyncCount
    <2>1. /\ wpc = "count" /\ wpc' = "level" /\ wpos' = 1
          /\ wside' = wside /\ wside \in Sides /\ num_top \in [Sides -> Nat]
          /\ num_top' = [num_top EXCEPT ![wside] =
                             Lesser(TopLevels, updates[Len(updates)][wside])]
          /\ UNCHANGED <<updates, last_sequence_id, last_update_time, seqlock, top>>
      BY <1>0, <1>4 DEF SyncCount, BookTypeOK
    <2>2. Len(updates) > 0 /\ updates' = updates
      BY <1>0, <2>1 DEF WriterInv
    <2>3. num_top'[wside] = TopCount(Len(updates), wside)
      BY <2>1, <2>2 DEF TopCount
    <2>4. wside = "asks" => ArrayHolds("bids", Len(updates))'
      <3>1. ASSUME wside = "asks" PROVE num_top'["bids"] = num_top["bids"]
        BY <2>1, <3>1 DEF Sides
      <3> QED BY <1>0, <2>1, <3>1 DEF WriterInv, ArrayHolds, TopCount
    <2> QED BY <1>0, <2>1, <2>2, <2>3, <2>4 DEF WriterInv, TopCount
  <1>5. CASE SyncLevel
    <2>1. /\ wpc = "level" /\ wpc' = "level" /\ wpos' = wpos + 1 /\ wpos \in Nat
          /\ UNCHANGED <<updates, last_sequence_id, last_update_time, seqlock,
                         num_top, wside>>
      BY <1>0, <1>5 DEF SyncLevel, BookTypeOK
    <2>2. \A s \in Sides : \A i \in 1 .. TopLevels :
             top'[s][i] = IF s = wside /\ i = wpos THEN Len(updates) ELSE top[s][i]
      BY <1>0, <1>5 DEF SyncLevel, BookTypeOK
    <2>3. \A s \in Sides : num_top[s] \in Nat /\ num_top[s] <= TopLevels
      BY <1>0, BookBounds DEF BookTypeOK
    <2>4. \A i \in 1 .. num_top[wside] : i < wpos' => top'[wside][i] = Len(updates)
      <3>1. \A i \in 1 .. num_top[wside] : i < wpos => top[wside][i] = Len(updates)
        BY <1>0, <2>1 DEF WriterInv
      <3>2. wside \in Sides
        BY <1>0 DEF BookTypeOK
      <3> QED BY <2>1, <2>2, <2>3, <3>1, <3>2, BookBounds
    <2>5. wside = "asks" => \A i \in 1 .. num_top["bids"] : top'["bids"][i] = Len(updates)
      BY <1>0, <2>1, <2>2, <2>3, BookBounds DEF WriterInv, ArrayHolds
    <2> QED BY <1>0, <2>1, <2>4, <2>5 DEF WriterInv, ArrayHolds, TopCount
  <1>6. CASE SyncNextSide
    <2>1. /\ wpc = "level" /\ wpos > num_top[wside] /\ wside' = "asks"
          /\ wpc' = IF wside = "bids" THEN "count" ELSE "leave"
          /\ UNCHANGED book
      BY <1>6 DEF SyncNextSide
    <2>2. wside \in Sides /\ num_top[wside] \in Nat /\ wpos \in Nat
      BY <1>0, BookBounds DEF BookTypeOK
    <2>3. ArrayHolds(wside, Len(updates))
      BY <1>0, <2>1, <2>2 DEF WriterInv, ArrayHolds
    <2>4. wside = "asks" => ArrayHolds("bids", Len(updates))
      BY <1>0, <2>1 DEF WriterInv
    <2>5. \A s \in Sides : ArrayHolds(s, Len(updates))' <=> ArrayHolds(s, Len(updates))
      BY <2>1 DEF ArrayHolds, TopCount
    <2> QED BY <1>0, <2>1, <2>2, <2>3, <2>4, <2>5 DEF WriterInv
  <1>7. CASE Leave
    BY <1>0, <1>7 DEF Leave, WriterInv, TopCount, ArrayHolds
  <1>8. ASSUME Snapshot \/ UNCHANGED bookVars PROVE WriterInv'
    <2>1. UNCHANGED <<book, writer>>
      BY <1>8 DEF Snapshot, bookVars, CallSnapshot, LoadSeq, ReadSequenceId,
                  ReadTime, ReadCount, ReadLevel, ResizeSide, Recheck
    <2> QED BY <1>0, <2>1 DEF WriterInv, TopCount, ArrayHolds
  <1> QED
    BY <1>1, <1>2, <1>3, <1>4, <1>5, <1>6, <1>7, <1>8 DEF BookNext, Update

-----------------------------------------------------------------------------
(* The reader *)

\* What the writer's invariant says of an even seqlock.
LEMMA EvenIsPublished ==
    ASSUME SeqlockInv, NEW v \in Nat, seqlock = 2 * v
    PROVE  /\ v <= Len(updates) /\ last_update_time = v
           /\ last_sequence_id \in {v, v + 1}
           /\ \A s \in Sides : ArrayHolds(s, v)
  <1>1. BookTypeOK /\ WriterInv /\ Len(updates) \in Nat
    BY DEF SeqlockInv, BookTypeOK
  <1>2. wpc \in {"idle", "enter"}
    BY <1>1 DEF WriterInv, BookTypeOK
  <1>3. v = IF wpc = "enter" THEN Len(updates) - 1 ELSE Len(updates)
    BY <1>1, <1>2 DEF WriterInv
  <1> QED BY <1>1, <1>2, <1>3 DEF WriterInv

LEMMA ReaderInvStep == SeqlockInv /\ [BookNext]_bookVars => ReaderInv'
  <1> SUFFICES ASSUME SeqlockInv, [BookNext]_bookVars PROVE ReaderInv'
    OBVIOUS
  <1>a. BookTypeOK /\ ReaderInv
    BY DEF SeqlockInv
  <1>b. BookTypeOK'
    BY <1>a, BookTypeStep
  <1>c. rseq \in Nat /\ seqlock \in Nat /\ Len(updates) \in Nat
    BY <1>a DEF BookTypeOK
  <1>0. /\ BookTypeOK /\ BookTypeOK' /\ ReaderInv
        /\ rseq \in Nat /\ seqlock \in Nat /\ Len(updates) \in Nat
    BY <1>a, <1>b, <1>c
  <1> USE DEF WriterAt, ReaderAt, book, writer, reader, locals
  <1>1. ASSUME Update PROVE ReaderInv'
    <2>1. /\ UNCHANGED reader
          /\ seqlock' \in {seqlock, seqlock + 1}
          /\ \/ updates' = updates
             \/ \E sizes \in [Sides -> 0 .. BookLevels] :
                    updates' = Append(updates, sizes)
      BY <1>1 DEF Update, UpdateBook, Enter, SetTime, SyncCount, SyncLevel,
                  SyncNextSide, Leave
    <2>2. ASSUME NEW v \in Versions, rseq = 2 * v,
                 seqlock' = rseq \/ rpc = "done"
          PROVE  ReadOf(v)'
      <3>1. ReadOf(v)
        BY <1>0, <2>1, <2>2 DEF ReaderInv
      <3>2. CASE rpc \in {"idle", "load", "sequence"}
        BY <2>1, <3>2 DEF ReadOf
      <3>3. CASE rpc \in {"time", "count", "level", "recheck", "done"}
        <4>1. v \in 0 .. Len(updates) /\ v <= Len(updates')
          BY <1>0, <2>1, <3>1, <3>3, TopCountStable DEF ReadOf, Versions
        <4>2. \A s \in Sides : TopCount(v, s)' = TopCount(v, s)
          BY <1>0, <2>1, <4>1, TopCountStable
        <4>3. \A s \in Sides : SnapHolds(s, v)' <=> SnapHolds(s, v)
          BY <2>1, <4>2 DEF SnapHolds
        <4>4. rside \in Sides
          BY <1>0 DEF BookTypeOK
        <4> QED BY <2>1, <3>1, <4>1, <4>2, <4>3, <4>4 DEF ReadOf
      <3> QED BY <1>0, <3>2, <3>3 DEF BookTypeOK
    <2> QED BY <1>0, <2>1, <2>2 DEF ReaderInv
  <1>2. ASSUME Snapshot, UNCHANGED book PROVE ReaderInv'
    <2> USE <1>2
    <2>0. \A v \in Versions, s \in Sides :
             TopCount(v, s)' = TopCount(v, s) /\ v \in Nat
      BY DEF TopCount, Versions
    <2>1. CASE CallSnapshot
      BY <1>0, <2>1 DEF CallSnapshot, ReaderInv, ReadOf
    <2>2. CASE LoadSeq
      <3>1. \A v \in Versions : rseq' = 2 * v => rpc' = "sequence"
        BY <1>0, <2>0, <2>2, EvenOrOdd DEF LoadSeq
      <3> QED BY <1>0, <2>2, <3>1 DEF LoadSeq, ReaderInv, ReadOf
    <2>3. CASE ReadSequenceId
      <3>1. \A v \in Versions : seqlock = 2 * v =>
               v <= Len(updates) /\ last_sequence_id \in {v, v + 1}
        BY <2>0, EvenIsPublished
      <3> QED BY <1>0, <2>3, <3>1 DEF ReadSequenceId, ReaderInv, ReadOf
    <2>4. CASE ReadTime
      <3>1. \A v \in Versions : seqlock = 2 * v => last_update_time = v
        BY <2>0, EvenIsPublished
      <3> QED BY <1>0, <2>4, <3>1 DEF ReadTime, ReaderInv, ReadOf
    <2>5. CASE ReadCount
      <3>1. \A v \in Versions : seqlock = 2 * v =>
               num_top[rside] = TopCount(v, rside)
        BY <1>0, <2>0, EvenIsPublished DEF ArrayHolds, BookTypeOK
      <3>2. rpc = "count" /\ rpc' = "level" /\ rpos' = 1
            /\ rcount' = Lesser(Room, num_top[rside])
            /\ kept' = [kept EXCEPT ![rside] = Len(snap[rside])]
            /\ UNCHANGED <<snap, snap_id, snap_time, rseq, rside>>
        BY <2>5 DEF ReadCount
      <3>3. /\ kept'[rside] = Len(snap[rside])
            /\ rside = "asks" => kept'["bids"] = kept["bids"]
            /\ rside = "asks" =>
                   \A v \in Versions : SnapHolds("bids", v)' <=> SnapHolds("bids", v)
        BY <1>0, <2>0, <3>2 DEF SnapHolds, BookTypeOK
      <3>4. ASSUME NEW v \in Versions, rseq' = 2 * v, seqlock' = rseq'
            PROVE  ReadOf(v)'
        <4>1. ReadOf(v)
          BY <1>0, <3>2, <3>4 DEF ReaderInv
        <4>2. num_top[rside] = TopCount(v, rside)
          BY <3>1, <3>2, <3>4
        <4>3. rside \in Sides /\ TopCount(v, rside)' = TopCount(v, rside)
          BY <1>0, <2>0, <3>2 DEF BookTypeOK, TopCount
        <4> QED BY <1>0, <2>0, <3>2, <3>3, <4>1, <4>2, <4>3 DEF ReadOf
      <3> QED BY <1>0, <3>2, <3>4 DEF ReaderInv
    <2>6. CASE ReadLevel
      <3>1. /\ rpc = "level" /\ rpc' = "level" /\ rpos' = rpos + 1
            /\ rpos <= rcount
            /\ UNCHANGED <<snap_id, snap_time, rseq, rside, rcount, kept>>
            /\ snap' = [snap EXCEPT ![rside] = Store(@, rpos, top[rside][rpos])]
        BY <2>6 DEF ReadLevel
      <3>2. /\ rside \in Sides /\ rpos \in Nat /\ rpos > 0 /\ rcount \in Nat
            /\ rcount <= TopLevels
            /\ snap[rside] \in Seq(Versions) /\ top[rside][rpos] \in Versions
        BY <1>0, <3>1, BookBounds DEF BookTypeOK
      <3>3. /\ \A s \in Sides : s # rside => snap'[s] = snap[s]
            /\ snap'[rside] = Store(snap[rside], rpos, top[rside][rpos])
        BY <1>0, <3>1, <3>2 DEF BookTypeOK
      <3>4. /\ Len(snap'[rside]) = Len(snap[rside])
            /\ \A j \in 1 .. Len(snap[rside]) : snap'[rside][j] =
                   IF j = rpos THEN top[rside][rpos] ELSE snap[rside][j]
        <4> DEFINE vec == snap[rside]
                   x == top[rside][rpos]
        <4>1. vec \in Seq(Versions) /\ x \in Versions /\ rpos \in Nat
          BY <3>2
        <4> HIDE DEF vec, x
        <4>2. /\ Len(Store(vec, rpos, x)) = Len(vec)
              /\ \A j \in 1 .. Len(vec) :
                     Store(vec, rpos, x)[j] = IF j = rpos THEN x ELSE vec[j]
          <5>1. DOMAIN vec = 1 .. Len(vec)
            BY <4>1
          <5> QED BY ONLY <5>1, <4>1 DEF Store
        <4> QED BY <3>3, <4>2 DEF vec, x
      <3>5. ASSUME NEW v \in Versions, rseq' = 2 * v, seqlock' = rseq'
            PROVE  ReadOf(v)'
        <4>1. ReadOf(v)
          BY <1>0, <3>1, <3>5 DEF ReaderInv
        <4>2. ArrayHolds(rside, v)
          BY <2>0, <3>1, <3>2, <3>5, EvenIsPublished
        <4>3. rpos \in 1 .. num_top[rside]
          <5>1. num_top[rside] \in Nat /\ rcount = Lesser(Room, num_top[rside])
            BY <1>0, <3>1, <3>2, <4>1, <4>2, BookBounds DEF ReadOf, ArrayHolds, BookTypeOK
          <5>2. rcount <= num_top[rside]
            BY <5>1, LesserOf, BookBounds
          <5> QED BY <3>1, <3>2, <5>1, <5>2
        <4>4. top[rside][rpos] = v
          BY <4>2, <4>3 DEF ArrayHolds
        <4>5. \A i \in 1 .. Len(snap'[rside]) :
                 i < rpos' /\ i <= rcount => snap'[rside][i] = v
          <5>1. \A i \in 1 .. Len(snap[rside]) :
                   i < rpos /\ i <= rcount => snap[rside][i] = v
            BY <3>1, <4>1 DEF ReadOf
          <5> QED BY <3>1, <3>2, <3>4, <4>4, <5>1
        <4>6. rside = "asks" => SnapHolds("bids", v)'
          BY <2>0, <3>1, <3>3, <4>1 DEF ReadOf, SnapHolds
        <4>7. /\ rcount = Lesser(Room, TopCount(v, rside))
              /\ kept'[rside] = Len(snap'[rside])
          BY <3>1, <3>4, <4>1 DEF ReadOf
        <4>8. TopCount(v, rside)' = TopCount(v, rside)
          BY <3>1 DEF TopCount
        <4> QED BY <3>1, <4>1, <4>5, <4>6, <4>7, <4>8 DEF ReadOf
      <3> QED BY <1>0, <3>1, <3>5 DEF ReaderInv
    <2>7. CASE ResizeSide
      <3>1. /\ rpc = "level" /\ rpos > rcount /\ rside' = "asks"
            /\ rpc' = IF rside = "bids" THEN "count" ELSE "recheck"
            /\ UNCHANGED <<snap_id, snap_time, rseq, rpos, rcount, kept>>
            /\ snap' = [snap EXCEPT ![rside] = Resize(@, rcount)]
        BY <2>7 DEF ResizeSide
      <3>2. /\ rside \in Sides /\ rpos \in Nat /\ rcount \in Nat
            /\ snap[rside] \in Seq(Versions)
        BY <1>0, BookBounds DEF BookTypeOK
      <3>3. /\ \A s \in Sides : s # rside => snap'[s] = snap[s]
            /\ snap'[rside] = Resize(snap[rside], rcount)
        BY <1>0, <3>1, <3>2 DEF BookTypeOK
      <3>4. /\ Len(snap'[rside]) = rcount
            /\ \A j \in 1 .. rcount : snap'[rside][j] =
                   IF j \in 1 .. Len(snap[rside]) THEN snap[rside][j] ELSE NoLevel
        <4> DEFINE vec == snap[rside]
        <4>1. vec \in Seq(Versions) /\ rcount \in Nat
          BY <3>2
        <4> HIDE DEF vec
        <4>2. /\ Len(Resize(vec, rcount)) = rcount
              /\ \A j \in 1 .. rcount : Resize(vec, rcount)[j] =
                     IF j \in 1 .. Len(vec) THEN vec[j] ELSE NoLevel
          BY <4>1, ResizeOf
        <4> QED BY <3>3, <4>2 DEF vec
      <3>5. ASSUME NEW v \in Versions, rseq' = 2 * v, seqlock' = rseq'
            PROVE  ReadOf(v)'
        <4>1. ReadOf(v)
          BY <1>0, <3>1, <3>5 DEF ReaderInv
        <4>2. rcount = Lesser(Room, TopCount(v, rside))
          BY <3>1, <4>1 DEF ReadOf
        <4>3. \A j \in 1 .. rcount :
                 snap'[rside][j] = IF j <= kept[rside] THEN v ELSE NoLevel
          BY <3>1, <3>2, <3>4, <4>1 DEF ReadOf
        <4>4. ASSUME NEW s \in Sides, s = rside PROVE SnapHolds(s, v)'
          BY <2>0, <3>1, <3>4, <4>2, <4>3, <4>4 DEF SnapHolds
        <4>5. rside = "asks" => SnapHolds("bids", v)'
          BY <2>0, <3>1, <3>3, <4>1 DEF ReadOf, SnapHolds
        <4> QED BY <3>1, <3>2, <4>1, <4>4, <4>5 DEF ReadOf
      <3> QED BY <1>0, <3>1, <3>5 DEF ReaderInv
    <2>8. CASE Recheck
      BY <1>0, <2>0, <2>8 DEF Recheck, ReaderInv, ReadOf, SnapHolds
    <2> QED BY <2>1, <2>2, <2>3, <2>4, <2>5, <2>6, <2>7, <2>8 DEF Snapshot
  <1>3. CASE UNCHANGED bookVars
    BY <1>0, <1>3 DEF bookVars, ReaderInv, ReadOf, SnapHolds, TopCount
  <1>4. Snapshot => UNCHANGED book
    BY DEF Snapshot, CallSnapshot, LoadSeq, ReadSequenceId, ReadTime, ReadCount,
           ReadLevel, ResizeSide, Recheck
  <1> QED BY <1>1, <1>2, <1>3, <1>4 DEF BookNext

-----------------------------------------------------------------------------
(* The theorems about the seqlock *)

LEMMA SeqlockStep == SeqlockInv /\ [BookNext]_bookVars => SeqlockInv'
  BY BookTypeStep, WriterInvStep, ReaderInvStep DEF SeqlockInv

\* The inductive invariant of the seqlock holds in every state.
THEOREM SeqlockInvHolds == BookSpec => []SeqlockInv
  <1> QED BY SeqlockInit, SeqlockStep, PTL DEF BookSpec

\* Types are kept: no array of the book, and no vector of a snapshot, is
\* indexed outside its bounds but for the stores that Store drops.
THEOREM BookTypeCorrect == BookSpec => []BookTypeOK
  <1>1. SeqlockInv => BookTypeOK
    BY DEF SeqlockInv
  <1> QED BY SeqlockInvHolds, <1>1, PTL

\* Whenever the seqlock is even, the top-level arrays hold one whole update.
THEOREM PublishedIsWholeHolds == BookSpec => []PublishedIsWhole
  <1>1. ASSUME SeqlockInv PROVE PublishedIsWhole
    <2>1. seqlock \in Nat
      BY <1>1 DEF SeqlockInv, BookTypeOK
    <2> QED BY <1>1, <2>1, EvenOrOdd, EvenIsPublished DEF PublishedIsWhole
  <1> QED BY SeqlockInvHolds, <1>1, PTL

\* A snapshot() that leaves its loop on an even value is of one update, but for
\* the levels beyond an earlier pass's book, which are blank.
THEOREM ValidatedIsOfOneUpdateHolds == BookSpec => []ValidatedIsOfOneUpdate
  <1>1. ASSUME SeqlockInv PROVE ValidatedIsOfOneUpdate
    <2>1. /\ rseq \in Nat /\ seqlock \in Nat /\ rseq <= seqlock
          /\ Len(updates) \in Nat /\ Len(updates) <= MaxUpdates
          /\ ReaderInv
      BY <1>1 DEF SeqlockInv, BookTypeOK, ReaderInv
    <2>2. seqlock <= 2 * Len(updates)
      <3>1. WriterInv /\ wpc \in {"idle", "enter", "time", "count", "level", "leave"}
        BY <1>1 DEF SeqlockInv, BookTypeOK
      <3>2. CASE wpc \in {"idle", "enter"}
        BY <2>1, <3>1, <3>2 DEF WriterInv
      <3>3. CASE wpc \in {"time", "count", "level", "leave"}
        BY <2>1, <3>1, <3>3 DEF WriterInv
      <3> QED BY <3>1, <3>2, <3>3
    <2>3. ASSUME rpc = "done", ~Odd(rseq) PROVE ReadOf(rseq \div 2)
      <3>1. rseq \div 2 \in Nat /\ rseq = 2 * (rseq \div 2)
        BY <2>1, <2>3, EvenOrOdd
      <3>2. rseq \div 2 \in Versions
        BY <2>1, <2>2, <3>1, BookBounds DEF Versions
      <3> QED BY <2>1, <2>3, <3>1, <3>2 DEF ReaderInv
    <2> QED BY <2>3 DEF ValidatedIsOfOneUpdate, ReadOf
  <1> QED BY SeqlockInvHolds, <1>1, PTL
=============================================================================
