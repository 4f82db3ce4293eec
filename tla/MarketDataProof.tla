---------------------------- MODULE MarketDataProof ----------------------------
(***************************************************************************)
(* Proofs about what comes from the exchanges: of ExchangeWsClient, that   *)
(* its threads leave at most one link; of Feed, that the book of a pair is *)
(* the exchange's and its sides are sorted.  (The seqlock between the book *)
(* and the detector is in LockFreeProof.)                                  *)
(***************************************************************************)
EXTENDS Feed, ExchangeWsClient, SumTheorems, SequenceTheorems, TLAPS

-----------------------------------------------------------------------------
LEMMA LiveOnes == Live = {} <=> \A i \in Attempts : ~IsLive(i)
  BY DEF Live, IsLive

LEMMA Delays ==
    /\ InitialDelay \in InitialDelay .. MaxDelay
    /\ \A d \in InitialDelay .. MaxDelay :
           (IF 2 * d < MaxDelay THEN 2 * d ELSE MaxDelay) \in InitialDelay .. MaxDelay
  BY ClientConstants

\* An attempt is made of one that was none, after the last.
LEMMA NextAttempt ==
    ASSUME TypeOK, NewAttempt
    PROVE  /\ attempts' = attempts + 1 /\ attempts' \in Attempts /\ attempts' \in 0 .. MaxAttempts
           /\ conn' = [conn EXCEPT ![attempts'] = "pending"]
           /\ conn' \in [Attempts -> {"none", "pending", "open", "closing", "gone"}]
           /\ conn'[attempts'] = "pending"
           /\ \A i \in Attempts : i # attempts' => conn'[i] = conn[i]
  <1>1. /\ attempts' = attempts + 1 /\ attempts' \in Attempts /\ attempts' \in 0 .. MaxAttempts
    BY ClientConstants DEF TypeOK, NewAttempt, Attempts
  <1> QED BY <1>1 DEF TypeOK, NewAttempt

LEMMA LinkInit == Init => LinkInv /\ JoinInv
  <1> SUFFICES ASSUME Init PROVE LinkInv /\ JoinInv
    OBVIOUS
  <1>1. 0 \in 0 .. MaxAttempts
    BY ClientConstants
  <1>2. TypeOK
    BY <1>1, Delays DEF Init, TypeOK, PastType
  <1> QED BY <1>2 DEF Init, LinkInv, JoinInv, LastInv, FlagInv, UpInv, IsLive

\* The types
LEMMA PastTypeStep == TypeOK /\ LastInv /\ [Next]_vars => PastType'
  <1> SUFFICES ASSUME TypeOK, LastInv, [Next]_vars PROVE PastType'
    OBVIOUS
  <1>1. CASE Linger
    <2>1. attempts # 0
      BY <1>1 DEF Linger, RecAt, LastInv
    <2>2. attempts \in Attempts
      BY <2>1, ClientConstants DEF TypeOK, Attempts
    <2>3. overdue' \subseteq Attempts
      BY <1>1, <2>2 DEF Linger, TypeOK, PastType
    <2> QED BY <1>1, <2>3 DEF Linger, TypeOK, PastType
  <1>2. CASE Disconnect
    BY <1>2 DEF Disconnect, TypeOK, PastType
  <1>3. CASE Destroy
    BY <1>3 DEF Destroy, TypeOK, PastType
  <1>4. CASE UNCHANGED past
    BY <1>4 DEF past, TypeOK, PastType
  <1>5. \A i \in Attempts : OnOpen(i) \/ OnFail(i) \/ OnClose(i) => UNCHANGED past
    BY DEF OnOpen, OnFail, OnClose, Event
  <1>6. DecideReconnect \/ StartReconnect \/ IoExit => UNCHANGED past
    BY DEF DecideReconnect, StartReconnect, IoExit
  <1>7. CheckLoop \/ Wake \/ Reset \/ Reconnect \/ StartIo => UNCHANGED past
    BY DEF CheckLoop, Wake, Reset, Reconnect, StartIo
  <1>8. Connect \/ CloseLink \/ Stop \/ JoinIo \/ JoinReconnect \/ UNCHANGED vars
            => UNCHANGED past
    BY DEF Connect, CloseLink, Stop, JoinIo, JoinReconnect, vars
  <1> QED BY <1>1, <1>2, <1>3, <1>4, <1>5, <1>6, <1>7, <1>8
          DEF Next, IoStep, Handle, RecStep, Shutdown, Terminated

LEMMA LinkTypeStep == TypeOK /\ LastInv /\ [Next]_vars => TypeOK'
  <1> SUFFICES ASSUME TypeOK, LastInv, [Next]_vars PROVE TypeOK'
    OBVIOUS
  <1>0. PastType'
    BY PastTypeStep
  <1> USE <1>0 DEF TypeOK, flags, net
  <1>1. ASSUME NEW i \in Attempts, OnOpen(i) \/ OnFail(i) \/ OnClose(i) PROVE TypeOK'
    BY <1>1, Delays DEF OnOpen, OnFail, OnClose, Event
  <1>2. CASE DecideReconnect \/ StartReconnect
    BY <1>2 DEF DecideReconnect, StartReconnect
  <1>3. CASE IoExit
    BY <1>3 DEF IoExit
  <1>4. CASE CheckLoop \/ Reset
    BY <1>4 DEF CheckLoop, Reset, RecAt
  <1>5. CASE Wake
    BY <1>5, Delays DEF Wake, Backoff
  <1>6. CASE Reconnect
    BY <1>6, NextAttempt DEF Reconnect, RecAt
  <1>7. CASE Connect
    BY <1>7, Delays, NextAttempt DEF Connect, MainAt
  <1>8. CASE StartIo \/ Linger
    BY <1>8 DEF StartIo, Linger, RecAt
  <1>9. CASE Disconnect \/ Destroy
    BY <1>9 DEF Disconnect, Destroy, MainAt
  <1>10. CASE CloseLink \/ Stop
    BY <1>10 DEF CloseLink, Stop, MainAt
  <1>11. CASE JoinIo \/ JoinReconnect
    BY <1>11 DEF JoinIo, JoinReconnect, MainAt
  <1>12. CASE UNCHANGED vars
    BY <1>12 DEF vars
  <1> QED BY <1>1, <1>2, <1>3, <1>4, <1>5, <1>6, <1>7, <1>8, <1>9, <1>10, <1>11, <1>12
          DEF Next, IoStep, Handle, RecStep, Shutdown, Terminated

LEMMA LinkStep == LinkInv /\ [Next]_vars => LinkInv'
  <1> SUFFICES ASSUME LinkInv, [Next]_vars PROVE LinkInv'
    OBVIOUS
  <1>1. TypeOK'
    BY LinkTypeStep DEF LinkInv
  <1> USE <1>1 DEF LinkInv, LastInv, FlagInv, UpInv, IsLive, flags, net, past
  <1>2. ASSUME NEW i \in Attempts, OnOpen(i) PROVE LinkInv'
    BY <1>2 DEF OnOpen, Event, TypeOK
  <1>3. ASSUME NEW i \in Attempts, OnFail(i) \/ OnClose(i) PROVE LinkInv'
    BY <1>3 DEF OnFail, OnClose, Event, TypeOK
  <1>4. CASE DecideReconnect
    BY <1>4 DEF DecideReconnect, TypeOK
  <1>5. CASE StartReconnect
    BY <1>5 DEF StartReconnect, Ended, TypeOK
  <1>6. CASE IoExit
    BY <1>6, LiveOnes DEF IoExit, RunIsOver, TypeOK
  <1>7. CASE CheckLoop
    BY <1>7 DEF CheckLoop, TypeOK
  <1>8. CASE Wake
    BY <1>8, LiveOnes DEF Wake, SleepEnds, RunIsOver, TypeOK
  <1>9. CASE Reset
    BY <1>9 DEF Reset, RecAt, TypeOK
  <1>10. CASE Reconnect
    <2>1. /\ rec = "connect" /\ rec' = "join" /\ main # "new"
          /\ UNCHANGED <<stopped, main, io, past>> /\ NewAttempt
      BY <1>10 DEF Reconnect, RecAt
    <2>0. attempts' = attempts + 1 /\ attempts \in Nat /\ Attempts \subseteq Nat
      BY <2>1, NextAttempt, ClientConstants DEF TypeOK, Attempts
    <2>2. attempts' # 0 /\ \A i \in Attempts : IsLive(i) => i <= attempts'
      BY <2>0
    <2>3. \A i \in Attempts : IsLive(i)' => i <= attempts'
      BY <2>1, <2>2, NextAttempt DEF TypeOK, Attempts
    <2>4. LastInv'
      BY <2>1, <2>2, <2>3, NextAttempt
    <2> QED BY <1>10, <2>4, NextAttempt DEF Reconnect, RecAt, TypeOK
  <1>11. CASE StartIo
    BY <1>11 DEF StartIo, Ended, RecAt, TypeOK
  <1>12. CASE Linger
    BY <1>12 DEF Linger, RecAt, TypeOK
  <1>13. CASE Connect
    <2>1. attempts = 0 /\ \A i \in Attempts : ~IsLive(i)
      BY <1>13, ClientConstants DEF Connect, MainAt, TypeOK, Attempts
    <2>2. LastInv'
      BY <1>13, <2>1, NextAttempt DEF Connect, MainAt, TypeOK
    <2> QED BY <1>13, <2>1, <2>2, NextAttempt DEF Connect, MainAt, TypeOK
  <1>14. CASE Disconnect
    BY <1>14 DEF Disconnect, MainAt, TypeOK
  <1>15. CASE CloseLink \/ Stop
    BY <1>15 DEF CloseLink, Stop, MainAt, TypeOK
  <1>16. CASE JoinIo \/ JoinReconnect
    BY <1>16 DEF JoinIo, JoinReconnect, MainAt, TypeOK
  <1>18. CASE Destroy
    BY <1>18 DEF Destroy, MainAt, TypeOK
  <1>17. CASE UNCHANGED vars
    BY <1>17 DEF vars
  <1> QED BY <1>2, <1>3, <1>4, <1>5, <1>6, <1>7, <1>8, <1>9, <1>10, <1>11, <1>12, <1>13,
             <1>14, <1>15, <1>16, <1>17, <1>18
          DEF Next, IoStep, Handle, RecStep, Shutdown, Terminated

LEMMA JoinStep == LinkInv /\ JoinInv /\ [Next]_vars => JoinInv'
  <1> SUFFICES ASSUME LinkInv, JoinInv, [Next]_vars PROVE JoinInv'
    OBVIOUS
  <1> USE DEF LinkInv, FlagInv, JoinInv, TypeOK, flags, net, past
  <1>1. ASSUME NEW i \in Attempts, OnOpen(i) \/ OnFail(i) \/ OnClose(i) PROVE JoinInv'
    BY <1>1 DEF OnOpen, OnFail, OnClose, Event
  <1>2. CASE DecideReconnect \/ StartReconnect \/ IoExit
    BY <1>2 DEF DecideReconnect, StartReconnect, IoExit, RunIsOver
  <1>3. CASE RecStep
    BY <1>3 DEF RecStep, CheckLoop, Wake, Reset, Reconnect, NewAttempt, StartIo, Linger, RecAt
  <1>4. CASE Connect \/ Disconnect
    BY <1>4 DEF Connect, NewAttempt, Disconnect, MainAt
  <1>5. CASE Shutdown
    BY <1>5 DEF Shutdown, CloseLink, Stop, JoinIo, JoinReconnect, Destroy, MainAt, Ended
  <1>6. CASE UNCHANGED vars
    BY <1>6 DEF vars
  <1> QED BY <1>1, <1>2, <1>3, <1>4, <1>5, <1>6 DEF Next, IoStep, Handle, Terminated

-----------------------------------------------------------------------------
(* The theorems about the link *)

\* The strengthening is an invariant.
THEOREM LinkInvHolds == Spec => [](LinkInv /\ JoinInv)
  <1> QED BY LinkInit, LinkStep, JoinStep, PTL DEF Spec

\* The flags, the attempts and the threads' positions are well typed.
THEOREM LinkTypeCorrect == Spec => []TypeOK
  <1>1. LinkInv => TypeOK
    BY DEF LinkInv
  <1> QED BY <1>1, LinkInvHolds, PTL

\* Whatever attempts fail or outlast their 2 s, links are lost at once, and
\* disconnect() comes when: a live attempt has another live one after it only if
\* the handshake had not decided it when its 2 s were over.
THEOREM OneLinkHolds == Spec => []OneLink
  <1>1. LinkInv => OneLink
    BY ClientConstants DEF LinkInv, TypeOK, LastInv, Live, IsLive, Attempts, OneLink
  <1> QED BY <1>1, LinkInvHolds, PTL

\* The first disconnect() leaves no reconnect thread; unless it began between
\* the reset() of a reconnection and its next io_thread_, it leaves no thread and
\* no connected_ behind, and the destructor's call never does.
THEOREM DisconnectLeavesNothingHolds == Spec => []DisconnectLeavesNothing
  <1>1. JoinInv => DisconnectLeavesNothing
    BY DEF JoinInv, DisconnectLeavesNothing
  <1> QED BY <1>1, LinkInvHolds, PTL

-----------------------------------------------------------------------------
(* Sorted sides *)

LEMMA Numbers == Prices \subseteq Nat /\ IsFiniteSet(Prices) /\ IsFiniteSet(Pairs)
  BY FeedConstants

\* The order of a side is a strict total order of prices.
LEMMA AboveOrders ==
    ASSUME NEW d, NEW p \in Nat, NEW q \in Nat
    PROVE  /\ ~Above(d, p, p) /\ (Above(d, p, q) => ~Above(d, q, p))
           /\ p = q \/ Above(d, p, q) \/ Above(d, q, p)
           /\ \A r \in Nat : Above(d, p, q) /\ Above(d, q, r) => Above(d, p, r)
  BY DEF Above

\* The levels of a set above one of them, when no price comes twice.
Distinct(levels) == \A k, l \in levels : k.price = l.price => k = l
AboveIn(levels, l, d) == {k \in levels : Above(d, k.price, l.price)}

LEMMA RankGrows ==
    ASSUME NEW L \in SUBSET AllLevels, IsFiniteSet(L), NEW d, NEW k \in L, NEW l \in L,
           Above(d, k.price, l.price)
    PROVE  Cardinality(AboveIn(L, k, d)) < Cardinality(AboveIn(L, l, d))
  <1> DEFINE A == AboveIn(L, k, d)
             B == AboveIn(L, l, d)
  <1>1. \A m \in L : m.price \in Nat
    BY Numbers DEF AllLevels
  <1>2. A \subseteq B /\ k \in B /\ k \notin A
    BY <1>1, AboveOrders DEF AboveIn
  <1>3. IsFiniteSet(B)
    BY FS_Subset DEF AboveIn
  <1> HIDE DEF A, B
  <1>4. IsFiniteSet(A) /\ Cardinality(A) <= Cardinality(B) /\ A # B
    BY <1>2, <1>3, FS_Subset
  <1>5. Cardinality(A) # Cardinality(B)
    BY <1>2, <1>3, <1>4, FS_Subset
  <1>6. Cardinality(A) \in Nat /\ Cardinality(B) \in Nat
    BY <1>3, <1>4, FS_CardinalityType
  <1>7. Cardinality(A) < Cardinality(B)
    BY <1>4, <1>5, <1>6
  <1> QED BY <1>7 DEF A, B

LEMMA RankOf ==
    ASSUME NEW L \in SUBSET AllLevels, IsFiniteSet(L), NEW d, NEW l \in L
    PROVE  1 + Cardinality(AboveIn(L, l, d)) \in 1 .. Cardinality(L)
  <1> DEFINE A == AboveIn(L, l, d)
  <1>1. A \subseteq L /\ l \in L \ A
    BY Numbers, AboveOrders DEF AboveIn, AllLevels
  <1> HIDE DEF A
  <1>2. IsFiniteSet(A) /\ Cardinality(A) <= Cardinality(L) /\ Cardinality(A) # Cardinality(L)
    BY <1>1, FS_Subset
  <1>3. Cardinality(A) \in Nat /\ Cardinality(L) \in Nat
    BY <1>2, FS_CardinalityType
  <1>4. 1 + Cardinality(A) \in 1 .. Cardinality(L)
    BY <1>2, <1>3
  <1> QED BY <1>4 DEF A

\* Each place of the sorted side is of exactly one level.
LEMMA PlaceOf ==
    ASSUME NEW L \in SUBSET AllLevels, IsFiniteSet(L), Distinct(L), NEW d
    PROVE  /\ \A i \in 1 .. Cardinality(L) : \E l \in L : i = 1 + Cardinality(AboveIn(L, l, d))
           /\ \A k, l \in L :
                  Cardinality(AboveIn(L, k, d)) = Cardinality(AboveIn(L, l, d)) => k = l
  <1> DEFINE n == Cardinality(L)
             rank == [l \in L |-> 1 + Cardinality(AboveIn(L, l, d))]
  <1>1. n \in Nat /\ IsFiniteSet(1 .. n) /\ Cardinality(1 .. n) = n
    BY FS_CardinalityType, FS_Interval
  <1>2. \A k, l \in L :
            Cardinality(AboveIn(L, k, d)) = Cardinality(AboveIn(L, l, d)) => k = l
    <2> TAKE k \in L, l \in L
    <2>1. HAVE Cardinality(AboveIn(L, k, d)) = Cardinality(AboveIn(L, l, d))
    <2>2. k.price \in Nat /\ l.price \in Nat
      BY Numbers DEF AllLevels
    <2>3. ~Above(d, k.price, l.price) /\ ~Above(d, l.price, k.price)
      <3>1. IsFiniteSet(AboveIn(L, k, d)) /\ Cardinality(AboveIn(L, k, d)) \in Nat
        BY FS_Subset, FS_CardinalityType DEF AboveIn
      <3> QED BY <2>1, <3>1, RankGrows
    <2> QED BY <2>2, <2>3, AboveOrders DEF Distinct
  <1>3. rank \in [L -> 1 .. n]
    BY RankOf
  <1>4. rank \in Injection(L, 1 .. n)
    <2>1. \A k, l \in L : rank[k] = rank[l] => k = l
      <3> TAKE k \in L, l \in L
      <3>1. Cardinality(AboveIn(L, k, d)) \in Nat /\ Cardinality(AboveIn(L, l, d)) \in Nat
        BY FS_Subset, FS_CardinalityType DEF AboveIn
      <3> QED BY <1>2, <3>1
    <2> QED BY <1>3, <2>1 DEF Injection, IsInjective
  <1>5. rank \in Surjection(L, 1 .. n)
    <2> HIDE DEF rank
    <2> QED BY <1>1, <1>4, FS_Injection
  <1>6. \A i \in 1 .. n : \E l \in L : rank[l] = i
    <2> HIDE DEF rank
    <2> QED BY <1>5 DEF Surjection
  <1> QED BY <1>2, <1>6

LEMMA SortedOf ==
    ASSUME NEW L \in SUBSET AllLevels, IsFiniteSet(L), Distinct(L), NEW d
    PROVE  /\ Sorted(L, d) \in Seq(L) /\ Sorted(L, d) \in AllSides
           /\ Range(Sorted(L, d)) = L
           /\ \A i, j \in DOMAIN Sorted(L, d) :
                  i < j => Above(d, Sorted(L, d)[i].price, Sorted(L, d)[j].price)
  <1> DEFINE n == Cardinality(L)
             s == Sorted(L, d)
             At(i, l) == i = 1 + Cardinality(AboveIn(L, l, d))
  <1>1. n \in Nat
    BY FS_CardinalityType
  <1>2. s = [i \in 1 .. n |-> CHOOSE l \in L : At(i, l)]
    BY DEF Sorted, AboveIn
  <1>3. \A i \in 1 .. n : s[i] \in L /\ At(i, s[i])
    <2> TAKE i \in 1 .. n
    <2>1. \E l \in L : At(i, l)
      BY PlaceOf
    <2>2. s[i] = CHOOSE l \in L : At(i, l)
      BY <1>2
    <2> HIDE DEF s, At
    <2> QED BY <2>1, <2>2
  <1>4. s \in Seq(L) /\ Len(s) = n /\ DOMAIN s = 1 .. n
    <2> HIDE DEF s, n
    <2>1. s \in [1 .. n -> L]
      <3>1. s = [i \in 1 .. n |-> s[i]]
        BY <1>2
      <3> QED BY <1>3, <3>1
    <2> QED BY <1>1, <2>1
  <1>5. Range(s) = L
    <2>1. ASSUME NEW l \in L PROVE \E i \in 1 .. n : s[i] = l
      <3>1. PICK i \in 1 .. n : At(i, l)
        BY RankOf
      <3>2. At(i, s[i]) /\ s[i] \in L
        BY <1>3
      <3>3. Cardinality(AboveIn(L, s[i], d)) \in Nat /\ Cardinality(AboveIn(L, l, d)) \in Nat
        BY FS_Subset, FS_CardinalityType DEF AboveIn
      <3>4. Cardinality(AboveIn(L, s[i], d)) = Cardinality(AboveIn(L, l, d))
        BY <3>1, <3>2, <3>3
      <3>5. s[i] = l
        BY <3>2, <3>4, PlaceOf
      <3> QED BY <3>5
    <2> HIDE DEF s, n
    <2> QED BY <1>3, <1>4, <2>1 DEF Range
  <1>6. ASSUME NEW i \in 1 .. n, NEW j \in 1 .. n, i < j
        PROVE  Above(d, s[i].price, s[j].price)
    <2>1. s[i] \in L /\ s[j] \in L /\ At(i, s[i]) /\ At(j, s[j])
      BY <1>3
    <2> HIDE DEF s
    <2>2. /\ Cardinality(AboveIn(L, s[i], d)) \in Nat /\ Cardinality(AboveIn(L, s[j], d)) \in Nat
          /\ s[i].price \in Nat /\ s[j].price \in Nat
      BY <2>1, Numbers, FS_Subset, FS_CardinalityType DEF AboveIn, AllLevels
    <2>3. Cardinality(AboveIn(L, s[i], d)) < Cardinality(AboveIn(L, s[j], d))
      BY <1>6, <2>1, <2>2
    <2>4. CASE s[i].price = s[j].price
      BY <2>1, <2>2, <2>3, <2>4 DEF Distinct
    <2>5. CASE Above(d, s[j].price, s[i].price)
      BY <2>1, <2>2, <2>3, <2>5, RankGrows
    <2> QED BY <2>2, <2>4, <2>5, AboveOrders
  <1>7. s \in AllSides
    BY <1>4 DEF AllSides
  <1> QED BY <1>4, <1>5, <1>6, <1>7

\* A sequence of different elements has as many of them.
LEMMA DifferentOnes ==
    ASSUME NEW n \in Nat, NEW s, \A i, j \in 1 .. n : s[i] = s[j] => i = j,
           NEW T, T = {s[i] : i \in 1 .. n}
    PROVE  IsFiniteSet(T) /\ Cardinality(T) = n
  <1> DEFINE f == [i \in 1 .. n |-> s[i]]
  <1>1. f \in Bijection(1 .. n, T)
    BY DEF Bijection, Injection, Surjection, IsInjective
  <1>2. IsFiniteSet(1 .. n) /\ Cardinality(1 .. n) = n
    BY FS_Interval
  <1>3. ExistsBijection(1 .. n, T)
    <2> HIDE DEF f
    <2> QED BY <1>1 DEF ExistsBijection
  <1> QED BY <1>2, <1>3, FS_Bijection

LEMMA LevelsOfSide ==
    ASSUME NEW s \in AllSides
    PROVE  /\ Len(s) \in Nat /\ DOMAIN s = 1 .. Len(s)
           /\ Range(s) \in SUBSET AllLevels /\ IsFiniteSet(Range(s))
           /\ \A i \in 1 .. Len(s) : s[i] \in AllLevels /\ s[i] \in Range(s)
           /\ \A l \in AllLevels : l.price \in Nat /\ l.price \in Prices /\ l.quantity \in Nat
  <1>1. Len(s) \in Nat /\ DOMAIN s = 1 .. Len(s) /\ \A i \in 1 .. Len(s) : s[i] \in AllLevels
    BY DEF AllSides
  <1>2. \A i \in 1 .. Len(s) : s[i] \in Range(s)
    BY <1>1 DEF Range
  <1>3. Range(s) \in SUBSET AllLevels
    BY <1>1 DEF Range
  <1>4. \A l \in AllLevels : l.price \in Nat /\ l.price \in Prices /\ l.quantity \in Nat
    BY Numbers DEF AllLevels
  <1>5. IsFiniteSet(Range(s))
    <2> DEFINE f == [i \in 1 .. Len(s) |-> s[i]]
    <2>1. IsFiniteSet(1 .. Len(s))
      BY <1>1, FS_Interval
    <2>2. f \in Surjection(1 .. Len(s), Range(s))
      BY <1>1 DEF Surjection, Range
    <2> HIDE DEF f
    <2> QED BY <2>1, <2>2, FS_Surjection
  <1> QED BY <1>1, <1>2, <1>3, <1>4, <1>5

\* A sorted side is the only one of its levels.
LEMMA SideIsSorted ==
    ASSUME NEW s \in AllSides, NEW d,
           \A i, j \in DOMAIN s : i < j => Above(d, s[i].price, s[j].price)
    PROVE  /\ Distinct(Range(s)) /\ s = Sorted(Range(s), d)
           /\ \A i, j \in DOMAIN s : s[i].price = s[j].price => i = j
  <1> DEFINE L == Range(s)
             n == Len(s)
  <1>1. /\ n \in Nat /\ DOMAIN s = 1 .. n /\ L \in SUBSET AllLevels /\ IsFiniteSet(L)
        /\ \A i \in 1 .. n : s[i] \in L /\ s[i].price \in Nat
        /\ L = {s[i] : i \in 1 .. n}
    BY LevelsOfSide DEF Range
  <1>2. \A i, j \in 1 .. n : i < j => Above(d, s[i].price, s[j].price)
    BY <1>1
  <1>3. \A i, j \in 1 .. n : s[i].price = s[j].price => i = j
    <2> TAKE i \in 1 .. n, j \in 1 .. n
    <2>1. i < j \/ j < i \/ i = j
      BY <1>1
    <2> HIDE DEF L, n
    <2> QED BY <1>1, <1>2, <2>1, AboveOrders
  <1>4. Distinct(L)
    BY <1>1, <1>3 DEF Distinct
  <1>5. Cardinality(L) = n
    <2>1. \A i, j \in 1 .. n : s[i] = s[j] => i = j
      BY <1>3
    <2> HIDE DEF L, n
    <2> QED BY <1>1, <2>1, DifferentOnes
  <1>6. ASSUME NEW i \in 1 .. n
        PROVE  1 + Cardinality(AboveIn(L, s[i], d)) = i
    <2> DEFINE T == {s[j] : j \in 1 .. i - 1}
    <2>1. AboveIn(L, s[i], d) = T
      <3>1. ASSUME NEW j \in 1 .. n PROVE Above(d, s[j].price, s[i].price) <=> j < i
        <4>1. j < i \/ i < j \/ i = j
          BY <1>1
        <4> HIDE DEF L, n
        <4> QED BY <1>1, <1>2, <4>1, AboveOrders
      <3>2. \A j : j \in 1 .. i - 1 <=> j \in 1 .. n /\ j < i
        BY <1>1
      <3> HIDE DEF n, L
      <3> QED BY <1>1, <3>1, <3>2 DEF AboveIn
    <2>2. i \in Nat /\ i - 1 \in Nat
      <3> HIDE DEF L, n
      <3> QED BY <1>1
    <2>3. \A j, k \in 1 .. i - 1 : s[j] = s[k] => j = k
      <3> HIDE DEF L, n
      <3>1. \A j \in 1 .. i - 1 : j \in 1 .. n
        BY <1>1
      <3> QED BY <1>3, <3>1
    <2>4. Cardinality(T) = i - 1
      <3>1. PICK m \in Nat : m = i - 1
        BY <2>2
      <3> HIDE DEF T
      <3>2. T = {s[j] : j \in 1 .. m}
        BY <3>1 DEF T
      <3>3. \A j, k \in 1 .. m : s[j] = s[k] => j = k
        BY <2>3, <3>1
      <3>4. Cardinality(T) = m
        BY <3>2, <3>3, DifferentOnes
      <3> QED BY <3>1, <3>4
    <2> HIDE DEF L, n, T
    <2>5. Cardinality(AboveIn(L, s[i], d)) = i - 1
      BY <2>1, <2>4
    <2> QED BY <2>2, <2>5
  <1>7. ASSUME NEW i \in 1 .. n
        PROVE  s[i] = CHOOSE l \in L : i = 1 + Cardinality(AboveIn(L, l, d))
    <2>1. s[i] \in L /\ i = 1 + Cardinality(AboveIn(L, s[i], d))
      BY <1>1, <1>6
    <2>2. ASSUME NEW l \in L, i = 1 + Cardinality(AboveIn(L, l, d)) PROVE l = s[i]
      <3> HIDE DEF L, n
      <3>1. Cardinality(AboveIn(L, l, d)) \in Nat /\ Cardinality(AboveIn(L, s[i], d)) \in Nat
        BY <1>1, FS_Subset, FS_CardinalityType DEF AboveIn
      <3>2. Cardinality(AboveIn(L, l, d)) = Cardinality(AboveIn(L, s[i], d))
        BY <2>1, <2>2, <3>1
      <3> QED BY <1>1, <1>4, <2>1, <3>2, PlaceOf
    <2> HIDE DEF L, n
    <2> QED BY <2>1, <2>2
  <1>8. s = [i \in 1 .. n |-> s[i]]
    <2>1. s \in [1 .. n -> AllLevels]
      BY LevelsOfSide DEF AllSides
    <2> QED BY <2>1
  <1>9. Sorted(L, d) = [i \in 1 .. n |-> CHOOSE l \in L : i = 1 + Cardinality(AboveIn(L, l, d))]
    <2> HIDE DEF L, n
    <2> QED BY <1>5 DEF Sorted, AboveIn
  <1>10. s = Sorted(L, d)
    <2> HIDE DEF L, n
    <2> QED BY <1>7, <1>8, <1>9
  <1> QED BY <1>1, <1>3, <1>4, <1>10

-----------------------------------------------------------------------------
(* update_vec *)

\* What a sequence is with an element put in at a place.
IsInserted(t, S, s, i, e) ==
    /\ t \in Seq(S) /\ Len(t) = Len(s) + 1
    /\ \A j \in 1 .. Len(s) + 1 :
           /\ j < i => t[j] = s[j]
           /\ j = i => t[j] = e
           /\ i < j => t[j] = s[j - 1]

LEMMA InsertedAt ==
    ASSUME NEW S, NEW s \in Seq(S), NEW e \in S, NEW i \in 1 .. Len(s) + 1
    PROVE  IsInserted(InsertAt(s, i, e), S, s, i, e)
  <1> DEFINE a == SubSeq(s, 1, i - 1)
             b == SubSeq(s, i, Len(s))
             n == Len(s)
  <1>1. n \in Nat /\ i \in Nat /\ 1 <= i /\ i <= n + 1 /\ \A j \in 1 .. n : s[j] \in S
    OBVIOUS
  <1>2. a \in Seq(S) /\ Len(a) = i - 1 /\ \A j \in 1 .. i - 1 : a[j] = s[j]
    <2>1. \A j \in 1 .. i - 1 : s[j] \in S
      BY <1>1
    <2>2. 1 \in Int /\ i - 1 \in Int
      BY <1>1
    <2>3. /\ a \in Seq(S) /\ Len(a) = (IF 1 <= i - 1 THEN (i - 1) - 1 + 1 ELSE 0)
          /\ \A j \in 1 .. (i - 1) - 1 + 1 : a[j] = s[1 + j - 1]
      BY <2>1, <2>2, SubSeqProperties
    <2> HIDE DEF a
    <2> QED BY <1>1, <2>3
  <1>3. b \in Seq(S) /\ Len(b) = n + 1 - i /\ \A j \in 1 .. n + 1 - i : b[j] = s[i + j - 1]
    <2>1. \A j \in i .. n : s[j] \in S
      BY <1>1
    <2>2. i \in Int /\ n \in Int
      BY <1>1
    <2>3. /\ b \in Seq(S) /\ Len(b) = (IF i <= n THEN n - i + 1 ELSE 0)
          /\ \A j \in 1 .. n - i + 1 : b[j] = s[i + j - 1]
      BY <2>1, <2>2, SubSeqProperties
    <2> HIDE DEF b, n
    <2> QED BY <1>1, <2>3
  <1> DEFINE c == <<e>>
             ac == a \o c
  <1>4. c \in Seq(S) /\ Len(c) = 1 /\ c[1] = e
    OBVIOUS
  <1> HIDE DEF a, b, c, n
  <1>5. /\ ac \in Seq(S) /\ Len(ac) = i
        /\ \A j \in 1 .. i : ac[j] = IF j <= i - 1 THEN a[j] ELSE c[j - (i - 1)]
    <2>1. Len(a) + Len(c) = i /\ Len(a) = i - 1
      BY <1>1, <1>2, <1>4
    <2>2. /\ ac \in Seq(S) /\ Len(ac) = Len(a) + Len(c)
          /\ \A j \in 1 .. Len(a) + Len(c) : ac[j] = IF j <= Len(a) THEN a[j] ELSE c[j - Len(a)]
      BY <1>2, <1>4, ConcatProperties
    <2> HIDE DEF ac
    <2> QED BY <2>1, <2>2
  <1> HIDE DEF ac
  <1>6. \A j \in 1 .. i : ac[j] = IF j < i THEN s[j] ELSE e
    <2> TAKE j \in 1 .. i
    <2>1. CASE j < i
      BY <1>1, <1>2, <1>5, <2>1
    <2>2. CASE j = i
      <3>1. j - (i - 1) = 1 /\ ~(j <= i - 1) /\ ~(j < i)
        BY <1>1, <2>2
      <3>2. ac[j] = c[j - (i - 1)]
        BY <1>5, <3>1
      <3>3. ac[j] = e
        BY <1>4, <3>1, <3>2
      <3> QED BY <3>1, <3>3
    <2> QED BY <1>1, <2>1, <2>2
  <1> DEFINE r == ac \o b
  <1>7. /\ r \in Seq(S) /\ Len(r) = n + 1
        /\ \A j \in 1 .. n + 1 : r[j] = IF j <= i THEN ac[j] ELSE b[j - i]
    <2>1. Len(ac) + Len(b) = n + 1 /\ Len(ac) = i
      BY <1>1, <1>3, <1>5
    <2>2. /\ r \in Seq(S) /\ Len(r) = Len(ac) + Len(b)
          /\ \A j \in 1 .. Len(ac) + Len(b) : r[j] = IF j <= Len(ac) THEN ac[j] ELSE b[j - Len(ac)]
      BY <1>3, <1>5, ConcatProperties
    <2> HIDE DEF r
    <2> QED BY <2>1, <2>2
  <1> HIDE DEF r
  <1>8. \A j \in 1 .. n + 1 : /\ j < i => r[j] = s[j]
                              /\ j = i => r[j] = e
                              /\ i < j => r[j] = s[j - 1]
    <2> TAKE j \in 1 .. n + 1
    <2>1. CASE j <= i
      <3>1. j \in 1 .. i /\ ~(i < j) /\ (j = i => ~(j < i))
        BY <1>1, <2>1
      <3> QED BY <1>6, <1>7, <2>1, <3>1
    <2>2. CASE ~(j <= i)
      <3>1. j - i \in 1 .. n + 1 - i /\ i + (j - i) - 1 = j - 1 /\ ~(j < i) /\ j # i
        BY <1>1, <2>2
      <3> QED BY <1>3, <1>7, <2>2, <3>1
    <2> QED BY <2>1, <2>2
  <1>9. InsertAt(s, i, e) = r
    BY DEF InsertAt, r, ac, a, b, c
  <1> QED BY <1>7, <1>8, <1>9 DEF n, IsInserted

LEMMA RemovedAt ==
    ASSUME NEW S, NEW s \in Seq(S), NEW i \in 1 .. Len(s)
    PROVE  /\ RemoveAt(s, i) \in Seq(S) /\ Len(RemoveAt(s, i)) = Len(s) - 1
           /\ \A j \in 1 .. Len(s) - 1 :
                  RemoveAt(s, i)[j] = IF j < i THEN s[j] ELSE s[j + 1]
  <1> DEFINE a == SubSeq(s, 1, i - 1)
             b == SubSeq(s, i + 1, Len(s))
             n == Len(s)
  <1>1. n \in Nat /\ i \in Nat /\ 1 <= i /\ i <= n /\ \A j \in 1 .. n : s[j] \in S
    OBVIOUS
  <1>2. a \in Seq(S) /\ Len(a) = i - 1 /\ \A j \in 1 .. i - 1 : a[j] = s[j]
    <2>1. \A j \in 1 .. i - 1 : s[j] \in S
      BY <1>1
    <2>2. 1 \in Int /\ i - 1 \in Int
      BY <1>1
    <2>3. /\ a \in Seq(S) /\ Len(a) = (IF 1 <= i - 1 THEN (i - 1) - 1 + 1 ELSE 0)
          /\ \A j \in 1 .. (i - 1) - 1 + 1 : a[j] = s[1 + j - 1]
      BY <2>1, <2>2, SubSeqProperties
    <2> HIDE DEF a
    <2> QED BY <1>1, <2>3
  <1>3. b \in Seq(S) /\ Len(b) = n - i /\ \A j \in 1 .. n - i : b[j] = s[i + j]
    <2>1. \A j \in i + 1 .. n : s[j] \in S
      BY <1>1
    <2>2. i + 1 \in Int /\ n \in Int
      BY <1>1
    <2>3. /\ b \in Seq(S) /\ Len(b) = (IF i + 1 <= n THEN n - (i + 1) + 1 ELSE 0)
          /\ \A j \in 1 .. n - (i + 1) + 1 : b[j] = s[(i + 1) + j - 1]
      BY <2>1, <2>2, SubSeqProperties
    <2> HIDE DEF b, n
    <2>4. n - (i + 1) + 1 = n - i /\ \A j \in 1 .. n - i : (i + 1) + j - 1 = i + j
      BY <1>1
    <2> QED BY <1>1, <2>3, <2>4
  <1> HIDE DEF a, b, n
  <1> DEFINE r == a \o b
  <1>4. /\ r \in Seq(S) /\ Len(r) = n - 1
        /\ \A j \in 1 .. n - 1 : r[j] = IF j <= i - 1 THEN a[j] ELSE b[j - (i - 1)]
    <2>1. Len(a) + Len(b) = n - 1 /\ Len(a) = i - 1
      BY <1>1, <1>2, <1>3
    <2> QED BY <1>2, <1>3, <2>1, ConcatProperties
  <1> HIDE DEF r
  <1>5. \A j \in 1 .. n - 1 : r[j] = IF j < i THEN s[j] ELSE s[j + 1]
    <2> TAKE j \in 1 .. n - 1
    <2>1. CASE j < i
      BY <1>1, <1>2, <1>4, <2>1
    <2>2. CASE ~(j < i)
      <3>1. j - (i - 1) \in 1 .. n - i /\ i + (j - (i - 1)) = j + 1 /\ ~(j <= i - 1)
        BY <1>1, <2>2
      <3> QED BY <1>3, <1>4, <2>2, <3>1
    <2> QED BY <2>1, <2>2
  <1>6. RemoveAt(s, i) = r
    BY DEF RemoveAt, r, a, b
  <1> QED BY <1>4, <1>5, <1>6 DEF n

LEMMA LowerBoundOf ==
    ASSUME NEW s \in AllSides, NEW d, IsSide(s, d), NEW price \in Nat,
           NEW i, i = LowerBound(s, price, d)
    PROVE  /\ i \in 1 .. Len(s) + 1
           /\ \A j \in 1 .. Len(s) : j < i => Above(d, s[j].price, price)
           /\ \A j \in 1 .. Len(s) : i < j => Above(d, price, s[j].price)
           /\ i <= Len(s) /\ s[i].price # price => Above(d, price, s[i].price)
  <1> DEFINE n == Len(s)
             First(k) == /\ \A j \in 1 .. k - 1 : Above(d, s[j].price, price)
                         /\ k <= Len(s) => ~Above(d, s[k].price, price)
  <1>1. n \in Nat /\ \A j \in 1 .. n : s[j].price \in Nat
    BY LevelsOfSide
  <1>2. \A j, k \in 1 .. n : j < k => Above(d, s[j].price, s[k].price)
    BY LevelsOfSide DEF IsSide
  <1>3. \E k \in 1 .. n + 1 : First(k)
    <2> SUFFICES ASSUME \A k \in 1 .. n + 1 : ~First(k) PROVE FALSE
      OBVIOUS
    <2> DEFINE P == {m \in Nat : m <= n /\ \A j \in 1 .. m : Above(d, s[j].price, price)}
    <2>1. 0 \in P
      BY <1>1
    <2>2. ASSUME NEW m \in P PROVE m + 1 \in P
      <3>1. m \in Nat /\ m + 1 \in 1 .. n + 1 /\ (m + 1) - 1 = m
        BY <1>1
      <3>2. ~First(m + 1) /\ \A j \in 1 .. (m + 1) - 1 : Above(d, s[j].price, price)
        BY <3>1
      <3>3. m + 1 <= n /\ Above(d, s[m + 1].price, price)
        BY <3>2
      <3>4. \A j \in 1 .. m + 1 : Above(d, s[j].price, price)
        <4> TAKE j \in 1 .. m + 1
        <4>1. j \in 1 .. m \/ j = m + 1
          BY <3>1
        <4> QED BY <3>3, <4>1
      <3> QED BY <3>1, <3>3, <3>4
    <2>3. P = Nat
      <3>1. P \in SUBSET Nat
        OBVIOUS
      <3> HIDE DEF P
      <3> QED BY <2>1, <2>2, <3>1, NumberInduction
    <2>4. n + 1 \in P
      BY <1>1, <2>3
    <2> QED BY <1>1, <2>4
  <1>4. i \in 1 .. n + 1 /\ First(i)
    <2>1. i = CHOOSE k \in 1 .. n + 1 : First(k)
      BY DEF LowerBound
    <2> HIDE DEF n, First
    <2> QED BY <1>3, <2>1
  <1> HIDE DEF n
  <1>5. ASSUME NEW j \in 1 .. n, j < i PROVE Above(d, s[j].price, price)
    <2>1. j \in 1 .. i - 1
      BY <1>1, <1>4, <1>5
    <2> QED BY <1>4, <2>1
  <1>6. ASSUME i <= n, s[i].price # price PROVE Above(d, price, s[i].price)
    <2>1. i \in 1 .. n /\ s[i].price \in Nat /\ ~Above(d, s[i].price, price)
      BY <1>1, <1>4, <1>6 DEF n
    <2> QED BY <1>6, <2>1, AboveOrders
  <1>7. ASSUME NEW j \in 1 .. n, i < j PROVE Above(d, price, s[j].price)
    <2>1. i \in 1 .. n /\ i <= n
      BY <1>1, <1>4, <1>7
    <2>2. s[i].price \in Nat /\ s[j].price \in Nat /\ Above(d, s[i].price, s[j].price)
      BY <1>1, <1>2, <1>7, <2>1
    <2>3. s[i].price = price \/ Above(d, price, s[i].price)
      BY <1>6, <2>1
    <2>4. CASE s[i].price = price
      BY <2>2, <2>4
    <2>5. CASE Above(d, price, s[i].price)
      BY <2>2, <2>5 DEF Above
    <2> QED BY <2>3, <2>4, <2>5
  <1> QED BY <1>4, <1>5, <1>6, <1>7 DEF n

\* One change leaves the side sorted: the level is that of the change, or is
\* gone, and all the others stay.
Changes(s, r, L, d) ==
    /\ r \in AllSides /\ IsSide(r, d)
    /\ Range(r) = {k \in Range(s) : \A l \in L : k.price # l.price} \cup Positive(L)

LEMMA UpdateVec ==
    ASSUME NEW s \in AllSides, NEW d, IsSide(s, d), NEW l \in AllLevels
    PROVE  Changes(s, update_vec(s, l, d), {l}, d)
  <1> DEFINE n == Len(s)
             i == LowerBound(s, l.price, d)
             r == update_vec(s, l, d)
             Found == i <= n /\ s[i].price = l.price
             Others == {k \in Range(s) : k.price # l.price}
  <1>1. /\ n \in Nat /\ DOMAIN s = 1 .. n /\ l.price \in Nat /\ l.quantity \in Nat
        /\ \A j \in 1 .. n : s[j] \in AllLevels /\ s[j].price \in Nat /\ s[j].quantity > 0
        /\ Range(s) = {s[j] : j \in 1 .. n} /\ s \in Seq(AllLevels)
    BY LevelsOfSide DEF IsSide, Range, AllSides
  <1>2. \A j, k \in 1 .. n : j < k => Above(d, s[j].price, s[k].price)
    BY <1>1 DEF IsSide
  <1>3. /\ i \in 1 .. n + 1
        /\ \A j \in 1 .. n : j < i => Above(d, s[j].price, l.price)
        /\ \A j \in 1 .. n : i < j => Above(d, l.price, s[j].price)
        /\ i <= n /\ s[i].price # l.price => Above(d, l.price, s[i].price)
    BY <1>1, LowerBoundOf
  <1>4. /\ l.quantity = 0 /\ Found => r = RemoveAt(s, i)
        /\ l.quantity = 0 /\ ~Found => r = s
        /\ l.quantity # 0 /\ Found => r = [s EXCEPT ![i] = l]
        /\ l.quantity # 0 /\ ~Found => r = InsertAt(s, i, l)
    BY DEF update_vec
  <1>5. Positive({l}) = IF l.quantity = 0 THEN {} ELSE {l}
    BY <1>1 DEF Positive
  <1> HIDE DEF n, i, r
  <1>6. \A j \in 1 .. n : j # i => s[j].price # l.price
    <2> TAKE j \in 1 .. n
    <2>1. j < i \/ i < j \/ j = i
      BY <1>1, <1>3
    <2> QED BY <1>1, <1>3, <2>1, AboveOrders
  <1>7. /\ Found => i \in 1 .. n
        /\ ~Found => \A j \in 1 .. n : s[j].price # l.price
        /\ ~Found => \A j \in 1 .. n : i <= j => Above(d, l.price, s[j].price)
    BY <1>1, <1>3, <1>6
  <1>8. Changes(s, r, {l}, d) <=>
            r \in AllSides /\ IsSide(r, d) /\ Range(r) = Others \cup Positive({l})
    BY DEF Changes
  <1>9. CASE l.quantity = 0 /\ Found
    <2> DEFINE m == n - 1
    <2>1. /\ r \in Seq(AllLevels) /\ Len(r) = m
          /\ \A j \in 1 .. m : r[j] = IF j < i THEN s[j] ELSE s[j + 1]
      <3>1. i \in 1 .. Len(s) /\ r = RemoveAt(s, i)
        BY <1>4, <1>7, <1>9 DEF n
      <3> QED BY <1>1, <3>1, RemovedAt DEF n
    <2>2. m \in Nat /\ i \in 1 .. n /\ DOMAIN r = 1 .. m
      BY <1>1, <1>7, <1>9, <2>1
    <2>3. \A j \in 1 .. m : IF j < i THEN j \in 1 .. n ELSE j + 1 \in 1 .. n /\ j + 1 # i
      BY <1>1, <2>2
    <2>4. Range(r) = Others
      <3>1. ASSUME NEW j \in 1 .. m PROVE r[j] \in Others
        <4>1. PICK h \in 1 .. n : h # i /\ r[j] = s[h]
          BY <2>1, <2>2, <2>3
        <4> QED BY <1>1, <1>6, <4>1
      <3>2. ASSUME NEW k \in Others PROVE \E j \in 1 .. m : r[j] = k
        <4>1. PICK h \in 1 .. n : s[h] = k /\ h # i
          BY <1>1, <1>9
        <4>2. CASE h < i
          BY <1>1, <2>1, <2>2, <4>1, <4>2
        <4>3. CASE ~(h < i)
          <5>1. h - 1 \in 1 .. m /\ ~(h - 1 < i) /\ (h - 1) + 1 = h
            BY <1>1, <2>2, <4>1, <4>3
          <5> QED BY <2>1, <4>1, <5>1
        <4> QED BY <4>2, <4>3
      <3> QED BY <2>2, <3>1, <3>2 DEF Range
    <2>5. IsSide(r, d)
      <3>1. \A j \in 1 .. m : r[j].quantity > 0
        BY <1>1, <2>1, <2>3
      <3>2. ASSUME NEW j \in 1 .. m, NEW k \in 1 .. m, j < k
            PROVE  Above(d, r[j].price, r[k].price)
        <4>1. PICK g \in 1 .. n : r[j] = s[g] /\ g = IF j < i THEN j ELSE j + 1
          BY <2>1, <2>3
        <4>2. PICK h \in 1 .. n : r[k] = s[h] /\ h = IF k < i THEN k ELSE k + 1
          BY <2>1, <2>3
        <4>3. g < h
          BY <1>1, <2>2, <3>2, <4>1, <4>2
        <4> QED BY <1>2, <4>1, <4>2, <4>3
      <3> QED BY <2>2, <3>1, <3>2 DEF IsSide
    <2> HIDE DEF Others, Found
    <2>6. Range(r) = Others \cup Positive({l}) /\ r \in AllSides
      BY <1>5, <1>9, <2>1, <2>4 DEF AllSides
    <2> QED BY <1>8, <2>5, <2>6 DEF r
  <1>10. CASE l.quantity = 0 /\ ~Found
    <2>1. Range(s) = Others
      BY <1>1, <1>7, <1>10
    <2>2. r = s /\ Positive({l}) = {}
      BY <1>4, <1>5, <1>10
    <2> HIDE DEF Others, Found
    <2>3. Range(r) = Others \cup Positive({l}) /\ r \in AllSides /\ IsSide(r, d)
      BY <2>1, <2>2
    <2> QED BY <1>8, <2>3 DEF r
  <1>11. CASE l.quantity # 0 /\ Found
    <2>1. /\ r \in Seq(AllLevels) /\ Len(r) = n
          /\ \A j \in 1 .. n : r[j] = IF j = i THEN l ELSE s[j]
      BY <1>1, <1>4, <1>7, <1>11, ExceptSeq DEF n
    <2>2. i \in 1 .. n /\ DOMAIN r = 1 .. n
      BY <1>7, <1>11, <2>1
    <2>3. Range(r) = Others \cup {l}
      <3>1. ASSUME NEW j \in 1 .. n PROVE r[j] \in Others \cup {l}
        BY <1>1, <1>6, <2>1
      <3>2. ASSUME NEW k \in Others \cup {l} PROVE \E j \in 1 .. n : r[j] = k
        <4>1. CASE k = l
          BY <2>1, <2>2, <4>1
        <4>2. CASE k # l
          <5>1. PICK h \in 1 .. n : s[h] = k /\ h # i
            BY <1>1, <1>11, <4>2
          <5> QED BY <2>1, <5>1
        <4> QED BY <4>1, <4>2
      <3> QED BY <2>2, <3>1, <3>2 DEF Range
    <2>4. IsSide(r, d)
      <3>1. \A j \in 1 .. n : r[j].quantity > 0 /\ r[j].price = s[j].price
        BY <1>1, <1>11, <2>1
      <3> QED BY <1>2, <2>2, <3>1 DEF IsSide
    <2> HIDE DEF Others, Found
    <2>6. Range(r) = Others \cup Positive({l}) /\ r \in AllSides
      BY <1>5, <1>11, <2>1, <2>3 DEF AllSides
    <2> QED BY <1>8, <2>4, <2>6 DEF r
  <1>12. CASE l.quantity # 0 /\ ~Found
    <2> DEFINE m == n + 1
    <2>1. /\ r \in Seq(AllLevels) /\ Len(r) = m
          /\ \A j \in 1 .. m : /\ j < i => r[j] = s[j]
                               /\ j = i => r[j] = l
                               /\ i < j => r[j] = s[j - 1]
      <3>1. i \in 1 .. Len(s) + 1 /\ r = InsertAt(s, i, l)
        BY <1>3, <1>4, <1>12 DEF n
      <3>2. l \in AllLevels /\ s \in Seq(AllLevels)
        BY <1>1
      <3> DEFINE t == InsertAt(s, i, l)
      <3>3. IsInserted(t, AllLevels, s, i, l)
        BY <3>1, <3>2, InsertedAt
      <3>4. r = t /\ n = Len(s)
        BY <3>1 DEF n
      <3> HIDE DEF t
      <3> QED BY <3>3, <3>4 DEF IsInserted
    <2>2. m \in Nat /\ i \in 1 .. m /\ DOMAIN r = 1 .. m
      BY <1>1, <1>3, <2>1
    <2>3. \A j \in 1 .. m : /\ j < i => j \in 1 .. n
                            /\ i < j => j - 1 \in 1 .. n /\ i <= j - 1
                            /\ j < i \/ j = i \/ i < j
      BY <1>1, <2>2
    <2>4. Range(r) = Others \cup {l}
      <3>1. ASSUME NEW j \in 1 .. m PROVE r[j] \in Others \cup {l}
        <4>1. CASE j = i
          BY <2>1, <2>2, <4>1
        <4>2. CASE j # i
          <5>1. PICK h \in 1 .. n : r[j] = s[h]
            BY <2>1, <2>2, <2>3, <4>2
          <5> QED BY <1>1, <1>7, <1>12, <5>1
        <4> QED BY <4>1, <4>2
      <3>2. ASSUME NEW k \in Others \cup {l} PROVE \E j \in 1 .. m : r[j] = k
        <4>1. CASE k = l
          BY <2>1, <2>2, <4>1
        <4>2. CASE k # l
          <5>1. PICK h \in 1 .. n : s[h] = k
            BY <1>1, <4>2
          <5>2. CASE h < i
            BY <1>1, <2>1, <2>2, <5>1, <5>2
          <5>3. CASE ~(h < i)
            <6>1. h + 1 \in 1 .. m /\ i < h + 1 /\ (h + 1) - 1 = h
              BY <1>1, <2>2, <5>1, <5>3
            <6> QED BY <2>1, <5>1, <6>1
          <5> QED BY <5>2, <5>3
        <4> QED BY <4>1, <4>2
      <3> QED BY <2>2, <3>1, <3>2 DEF Range
    <2>5. IsSide(r, d)
      <3>1. \A j \in 1 .. m : r[j].quantity > 0
        BY <1>1, <1>12, <2>1, <2>2, <2>3
      <3>2. ASSUME NEW j \in 1 .. m, NEW k \in 1 .. m, j < k
            PROVE  Above(d, r[j].price, r[k].price)
        <4>1. CASE j < i /\ k < i
          BY <1>2, <2>1, <2>2, <2>3, <3>2, <4>1
        <4>2. CASE j < i /\ k = i
          BY <1>3, <2>1, <2>2, <2>3, <4>2
        <4>3. CASE j < i /\ i < k
          <5>1. j \in 1 .. n /\ k - 1 \in 1 .. n /\ j < k - 1
            BY <2>2, <2>3, <4>3
          <5>2. r[j] = s[j] /\ r[k] = s[k - 1]
            BY <2>1, <2>2, <4>3
          <5> QED BY <1>2, <5>1, <5>2
        <4>4. CASE j = i /\ i < k
          <5>1. k - 1 \in 1 .. n /\ i <= k - 1
            BY <2>3, <4>4
          <5>2. r[j] = l /\ r[k] = s[k - 1]
            BY <2>1, <2>2, <4>4
          <5> QED BY <1>7, <1>12, <5>1, <5>2
        <4>5. CASE i < j /\ i < k
          <5>1. j - 1 \in 1 .. n /\ k - 1 \in 1 .. n /\ j - 1 < k - 1
            BY <2>2, <2>3, <3>2, <4>5
          <5>2. r[j] = s[j - 1] /\ r[k] = s[k - 1]
            BY <2>1, <2>2, <4>5
          <5> QED BY <1>2, <5>1, <5>2
        <4> QED BY <2>2, <3>2, <4>1, <4>2, <4>3, <4>4, <4>5
      <3> QED BY <2>2, <3>1, <3>2 DEF IsSide
    <2> HIDE DEF Others, Found
    <2>6. Range(r) = Others \cup Positive({l}) /\ r \in AllSides
      BY <1>5, <1>12, <2>1, <2>4 DEF AllSides
    <2> QED BY <1>8, <2>5, <2>6 DEF r
  <1> QED BY <1>9, <1>10, <1>11, <1>12 DEF r

-----------------------------------------------------------------------------
(* The changes of a message *)

SidesOf(d) == {s \in AllSides : IsSide(s, d)}

\* The recursion over the changes has a solution, and Updated is the end of it.
LEMMA UpdatedRecurs ==
    ASSUME NEW d, NEW s \in SidesOf(d), NEW changed \in AllSides
    PROVE  \E done \in [0 .. Len(changed) -> SidesOf(d)] :
               /\ done[0] = s
               /\ \A i \in DOMAIN changed : done[i] = update_vec(done[i - 1], changed[i], d)
               /\ Updated(s, changed, d) = done[Len(changed)]
  <1> DEFINE S == SidesOf(d)
             n == Len(changed)
             step == [m \in Nat |-> [x \in S |->
                          IF m + 1 \in DOMAIN changed THEN update_vec(x, changed[m + 1], d) ELSE x]]
             Does(g) == g = [i \in 0 .. n |->
                                IF i = 0 THEN s ELSE update_vec(g[i - 1], changed[i], d)]
  <1>1. n \in Nat /\ DOMAIN changed = 1 .. n /\ \A i \in DOMAIN changed : changed[i] \in AllLevels
    BY LevelsOfSide
  <1>2. \A x \in S : \A i \in DOMAIN changed : update_vec(x, changed[i], d) \in S
    BY <1>1, UpdateVec DEF SidesOf, Changes
  <1>3. step \in [Nat -> [S -> S]]
    <2> HIDE DEF S, n
    <2> QED BY <1>2
  <1>4. PICK f \in [Nat -> S] : Follows(f, s, step)
    <2> HIDE DEF S, step
    <2>1. s \in S
      BY DEF S
    <2> QED BY <1>3, <2>1, NumberRecursion
  <1> DEFINE v == [i \in 0 .. n |-> f[i]]
  <1> HIDE DEF S, n
  <1>5. \A i \in DOMAIN changed : f[i] = update_vec(f[i - 1], changed[i], d)
    <2> TAKE i \in DOMAIN changed
    <2>1. i - 1 \in Nat /\ (i - 1) + 1 = i /\ f[i - 1] \in S
      BY <1>1
    <2>2. f[i] = step[i - 1][f[i - 1]]
      <3> HIDE DEF step
      <3>1. f[(i - 1) + 1] = step[i - 1][f[i - 1]]
        BY <1>4, <2>1 DEF Follows
      <3> QED BY <2>1, <3>1
    <2> QED BY <2>1, <2>2
  <1>6. Does(v)
    <2>1. \A i \in 0 .. n : f[i] = IF i = 0 THEN s ELSE update_vec(v[i - 1], changed[i], d)
      <3> TAKE i \in 0 .. n
      <3>1. CASE i = 0
        BY <1>4, <3>1 DEF Follows
      <3>2. CASE i # 0
        <4>1. i \in DOMAIN changed /\ i - 1 \in 0 .. n
          BY <1>1, <3>2
        <4>2. v[i - 1] = f[i - 1]
          BY <4>1
        <4> HIDE DEF v
        <4> QED BY <1>5, <3>2, <4>1, <4>2
      <3> QED BY <3>1, <3>2
    <2> HIDE DEF step
    <2> QED BY <2>1
  <1> DEFINE done == CHOOSE g : Does(g)
  <1>7. Does(done)
    <2> HIDE DEF Does, v
    <2> QED BY <1>6
  <1>8. Updated(s, changed, d) = done[n]
    BY DEF Updated, n
  <1> HIDE DEF done
  <1>9. done[0] = s /\ \A i \in DOMAIN changed : done[i] = update_vec(done[i - 1], changed[i], d)
    BY <1>1, <1>7
  <1>10. done \in [0 .. n -> S]
    <2> DEFINE P == {i \in Nat : i <= n => done[i] \in S}
    <2>1. 0 \in P
      BY <1>9 DEF S
    <2>2. ASSUME NEW m \in P PROVE m + 1 \in P
      <3> SUFFICES ASSUME m + 1 <= n PROVE done[m + 1] \in S
        OBVIOUS
      <3>1. m \in Nat /\ m <= n /\ m + 1 \in DOMAIN changed /\ (m + 1) - 1 = m
        BY <1>1
      <3>2. done[m] \in S
        BY <3>1
      <3>3. done[m + 1] = update_vec(done[m], changed[m + 1], d)
        BY <1>9, <3>1
      <3> QED BY <1>2, <3>1, <3>2, <3>3
    <2>3. P \in SUBSET Nat
      OBVIOUS
    <2>4. P = Nat
      <3> HIDE DEF P
      <3> QED BY <2>1, <2>2, <2>3, NumberInduction
    <2>5. \A i \in 0 .. n : done[i] \in S
      BY <1>1, <2>4
    <2> QED BY <1>7, <2>5
  <1> QED BY <1>8, <1>9, <1>10 DEF S, n

LEMMA UpdatedSide ==
    ASSUME NEW d, NEW s \in SidesOf(d), NEW changed \in AllSides, Distinct(Range(changed))
    PROVE  Changes(s, Updated(s, changed, d), Range(changed), d)
  <1> DEFINE n == Len(changed)
             Kept(i) == {k \in Range(s) : \A j \in 1 .. i : k.price # changed[j].price}
             Put(i) == {l \in Range(changed) : l.quantity > 0 /\ \E j \in 1 .. i : changed[j] = l}
  <1>1. PICK done \in [0 .. n -> SidesOf(d)] :
            /\ done[0] = s
            /\ \A i \in DOMAIN changed : done[i] = update_vec(done[i - 1], changed[i], d)
            /\ Updated(s, changed, d) = done[n]
    BY UpdatedRecurs
  <1>2. /\ n \in Nat /\ DOMAIN changed = 1 .. n
        /\ \A i \in 1 .. n : changed[i] \in AllLevels /\ changed[i] \in Range(changed)
        /\ Range(changed) = {changed[i] : i \in 1 .. n}
    BY LevelsOfSide DEF Range
  <1> HIDE DEF n
  <1> DEFINE P == {i \in Nat : i <= n => Range(done[i]) = Kept(i) \cup Put(i)}
  <1>3. 0 \in P
    <2>1. Kept(0) = Range(s) /\ Put(0) = {}
      OBVIOUS
    <2> HIDE DEF Kept, Put
    <2> QED BY <1>1, <2>1
  <1>4. ASSUME NEW m \in P PROVE m + 1 \in P
    <2> SUFFICES ASSUME m + 1 <= n PROVE Range(done[m + 1]) = Kept(m + 1) \cup Put(m + 1)
      OBVIOUS
    <2> DEFINE c == changed[m + 1]
    <2>1. m \in Nat /\ m \in 0 .. n /\ m + 1 \in 1 .. n /\ (m + 1) - 1 = m
      <3> HIDE DEF Kept, Put
      <3> QED BY <1>2
    <2>2. Range(done[m]) = Kept(m) \cup Put(m)
      <3> HIDE DEF Kept, Put
      <3> QED BY <2>1
    <2>3. done[m + 1] = update_vec(done[m], c, d) /\ done[m] \in SidesOf(d) /\ c \in AllLevels
      BY <1>1, <1>2, <2>1
    <2>4. Range(done[m + 1]) = {k \in Range(done[m]) : k.price # c.price} \cup Positive({c})
      <3> HIDE DEF c
      <3>1. Changes(done[m], done[m + 1], {c}, d)
        BY <2>3, UpdateVec DEF SidesOf
      <3>2. {k \in Range(done[m]) : \A l \in {c} : k.price # l.price}
                = {k \in Range(done[m]) : k.price # c.price}
        OBVIOUS
      <3> QED BY <3>1, <3>2 DEF Changes
    <2>5. Kept(m + 1) = {k \in Kept(m) : k.price # c.price}
      <3>1. \A j : j \in 1 .. m + 1 <=> j \in 1 .. m \/ j = m + 1
        BY <2>1
      <3> QED BY <3>1
    <2>6. Put(m + 1) = {k \in Put(m) : k.price # c.price} \cup Positive({c})
      <3>1. \A j : j \in 1 .. m + 1 <=> j \in 1 .. m \/ j = m + 1
        BY <2>1
      <3>2. c \in Range(changed)
        BY <1>2, <2>1
      <3>3. \A l \in Range(changed) : l.price = c.price => l = c
        BY <3>2 DEF Distinct
      <3>4. \A l : l \in Positive({c}) <=> l = c /\ c.quantity > 0
        BY DEF Positive
      <3>5. \A l : l \in Put(m + 1) <=> l \in Put(m) \/ (l = c /\ c.quantity > 0)
        <4> HIDE DEF c
        <4>1. changed[m + 1] = c
          BY DEF c
        <4> QED BY <3>1, <3>2, <4>1
      <3>6. \A l \in Put(m) : l \in Range(changed) /\ l.quantity > 0
        OBVIOUS
      <3> HIDE DEF Put, c
      <3> QED BY <3>3, <3>4, <3>5, <3>6
    <2> HIDE DEF Kept, Put, c, P
    <2> QED BY <2>2, <2>4, <2>5, <2>6
  <1>5. n \in P
    <2>1. P \in SUBSET Nat
      OBVIOUS
    <2>2. P = Nat
      <3> HIDE DEF P
      <3> QED BY <1>3, <1>4, <2>1, NumberInduction
    <2> QED BY <1>2, <2>2
  <1>6. Range(done[n]) = Kept(n) \cup Put(n)
    <2> HIDE DEF Kept, Put
    <2> QED BY <1>2, <1>5
  <1>7. /\ Kept(n) = {k \in Range(s) : \A l \in Range(changed) : k.price # l.price}
        /\ Put(n) = Positive(Range(changed))
    BY <1>2 DEF Positive
  <1>8. done[n] \in SidesOf(d)
    BY <1>1, <1>2
  <1> HIDE DEF Kept, Put
  <1> QED BY <1>1, <1>6, <1>7, <1>8 DEF Changes, SidesOf

-----------------------------------------------------------------------------
(* Levels, messages and what the adapters make of them *)

LEMMA SortedIsSide ==
    ASSUME NEW L \in SUBSET AllLevels, IsFiniteSet(L), Distinct(L), NEW d
    PROVE  /\ Sorted(Positive(L), d) \in SidesOf(d) /\ Sorted(Positive(L), d) \in AllSides
           /\ Range(Sorted(Positive(L), d)) = Positive(L)
  <1> DEFINE T == Positive(L)
             s == Sorted(T, d)
  <1>1. T \in SUBSET AllLevels /\ IsFiniteSet(T) /\ Distinct(T) /\ \A l \in T : l.quantity > 0
    <2>1. T \subseteq L /\ \A l \in T : l.quantity > 0
      BY DEF Positive
    <2> HIDE DEF T
    <2> QED BY <2>1, FS_Subset DEF Distinct
  <1> HIDE DEF T
  <1>2. /\ s \in Seq(T) /\ s \in AllSides /\ Range(s) = T
        /\ \A i, j \in DOMAIN s : i < j => Above(d, s[i].price, s[j].price)
    BY <1>1, SortedOf
  <1> HIDE DEF s
  <1>3. \A i \in DOMAIN s : s[i] \in T
    BY <1>2
  <1>4. IsSide(s, d)
    BY <1>1, <1>2, <1>3 DEF IsSide
  <1> QED BY <1>2, <1>4 DEF SidesOf, s, T

LEMMA LevelsOf ==
    ASSUME NEW side \in [Prices -> Nat], NEW xs \in SUBSET Prices
    PROVE  /\ Levels(side, xs) \in SUBSET AllLevels /\ IsFiniteSet(Levels(side, xs))
           /\ Distinct(Levels(side, xs))
           /\ \A l \in AllLevels : l \in Levels(side, xs) <=>
                                      l.price \in xs /\ l.quantity = side[l.price]
  <1>1. Levels(side, xs) \in SUBSET AllLevels
    BY DEF Levels, Level, AllLevels
  <1>2. \A l \in AllLevels : l \in Levels(side, xs) <=>
                                      l.price \in xs /\ l.quantity = side[l.price]
    BY DEF Levels, Level, AllLevels
  <1>3. Distinct(Levels(side, xs))
    BY DEF Levels, Level, Distinct
  <1>4. IsFiniteSet(Levels(side, xs))
    <2> DEFINE f == [x \in xs |-> Level(x, side[x])]
    <2>1. f \in Surjection(xs, Levels(side, xs))
      BY DEF Surjection, Levels
    <2>2. IsFiniteSet(xs)
      BY Numbers, FS_Subset
    <2> HIDE DEF f
    <2> QED BY <2>1, <2>2, FS_Surjection
  <1> QED BY <1>1, <1>2, <1>3, <1>4

\* What a change does to a side, if it lists all prices that have changed.
LEMMA ChangedLevels ==
    ASSUME NEW old \in [Prices -> Nat], NEW new \in [Prices -> Nat]
    PROVE  {k \in Positive(Levels(old, Prices)) :
                \A l \in Levels(new, Changed(old, new)) : k.price # l.price}
               \cup Positive(Levels(new, Changed(old, new))) = Positive(Levels(new, Prices))
  <1> DEFINE xs == Changed(old, new)
             A == Positive(Levels(old, Prices))
             B == Levels(new, xs)
             C == Positive(Levels(new, Prices))
  <1>1. xs \in SUBSET Prices /\ \A x \in Prices : x \in xs <=> old[x] # new[x]
    BY DEF Changed
  <1> HIDE DEF xs
  <1>2. A \subseteq AllLevels /\ \A l \in AllLevels :
            l \in A <=> l.price \in Prices /\ l.quantity = old[l.price] /\ l.quantity > 0
    BY LevelsOf DEF Positive
  <1>3. B \subseteq AllLevels /\ \A l \in AllLevels :
            l \in B <=> l.price \in xs /\ l.quantity = new[l.price]
    BY <1>1, LevelsOf
  <1>4. C \subseteq AllLevels /\ \A l \in AllLevels :
            l \in C <=> l.price \in Prices /\ l.quantity = new[l.price] /\ l.quantity > 0
    BY LevelsOf DEF Positive
  <1> HIDE DEF A, B, C
  <1>5. Positive(B) \subseteq AllLevels /\ \A l \in AllLevels :
            l \in Positive(B) <=> l \in B /\ l.quantity > 0
    BY <1>3 DEF Positive
  <1>6. \A k \in AllLevels : (\A l \in B : k.price # l.price) <=> k.price \notin xs
    <2> TAKE k \in AllLevels
    <2>1. ASSUME k.price \in xs PROVE \E l \in B : k.price = l.price
      <3> DEFINE l == [price |-> k.price, quantity |-> new[k.price]]
      <3>1. l \in AllLevels
        BY <1>1, <2>1 DEF AllLevels
      <3>2. l \in B
        BY <1>3, <2>1, <3>1
      <3> QED BY <3>2
    <2> QED BY <1>3, <2>1
  <1>7. \A k \in AllLevels : k.price \in Prices /\ k.quantity \in Nat
    BY DEF AllLevels
  <1>8. {k \in A : \A l \in B : k.price # l.price} = {k \in A : k.price \notin xs}
    BY <1>2, <1>6
  <1>9. {k \in A : k.price \notin xs} \cup Positive(B) = C
    BY <1>1, <1>2, <1>3, <1>4, <1>5, <1>7
  <1> QED BY <1>8, <1>9 DEF A, B, C, xs

LEMMA ListOf ==
    ASSUME NEW side \in [Prices -> Nat], NEW xs \in SUBSET Prices, NEW rising
    PROVE  List(side, xs, rising) \in AllSides /\ Range(List(side, xs, rising)) = Levels(side, xs)
  BY LevelsOf, SortedOf DEF List

LEMMA WholeBookOf ==
    ASSUME NEW p \in Pairs, NEW of \in AllMarkets, NEW id \in Nat, NEW rising
    PROVE  /\ WholeBook(p, of, id, rising) \in AllMessages
           /\ WholeBook(p, of, id, rising).pair = p
           /\ WholeBook(p, of, id, rising).of = of
           /\ ~WholeBook(p, of, id, rising).is_delta
           /\ Lists(WholeBook(p, of, id, rising), Prices, Prices)
  <1>1. of.bids \in [Prices -> Nat] /\ of.asks \in [Prices -> Nat]
    BY DEF AllMarkets
  <1> DEFINE b == List(of.bids, Prices, rising)
             a == List(of.asks, Prices, rising)
  <1>2. /\ b \in AllSides /\ Range(b) = Levels(of.bids, Prices)
        /\ a \in AllSides /\ Range(a) = Levels(of.asks, Prices)
    BY <1>1, ListOf
  <1>3. WholeBook(p, of, id, rising) =
            [pair |-> p, is_delta |-> FALSE, sequence_id |-> id, of |-> of, bids |-> b, asks |-> a]
    BY DEF WholeBook
  <1> HIDE DEF a, b
  <1> QED BY <1>2, <1>3 DEF AllMessages, Lists

LEMMA DeltaOf ==
    ASSUME NEW p \in Pairs, NEW of \in AllMarkets, NEW id \in Nat, NEW rising
    PROVE  /\ Delta(p, of, id, rising) \in AllMessages
           /\ Delta(p, of, id, rising).pair = p
           /\ Delta(p, of, id, rising).of = of
           /\ Delta(p, of, id, rising).is_delta
           /\ Changed(market[p].bids, of.bids) \in SUBSET Prices
           /\ Changed(market[p].asks, of.asks) \in SUBSET Prices
           /\ Lists(Delta(p, of, id, rising), Changed(market[p].bids, of.bids),
                                              Changed(market[p].asks, of.asks))
  <1> DEFINE xs == Changed(market[p].bids, of.bids)
             ys == Changed(market[p].asks, of.asks)
             b == List(of.bids, xs, rising)
             a == List(of.asks, ys, rising)
  <1>1. of.bids \in [Prices -> Nat] /\ of.asks \in [Prices -> Nat]
    BY DEF AllMarkets
  <1>2. xs \in SUBSET Prices /\ ys \in SUBSET Prices
    BY DEF Changed
  <1> HIDE DEF xs, ys
  <1>3. /\ b \in AllSides /\ Range(b) = Levels(of.bids, xs)
        /\ a \in AllSides /\ Range(a) = Levels(of.asks, ys)
    BY <1>1, <1>2, ListOf
  <1>4. Delta(p, of, id, rising) =
            [pair |-> p, is_delta |-> TRUE, sequence_id |-> id, of |-> of, bids |-> b, asks |-> a]
    BY DEF Delta, xs, ys
  <1> HIDE DEF a, b
  <1> QED BY <1>2, <1>3, <1>4 DEF AllMessages, Lists, xs, ys

\* An adapter gives all that a message of its exchange lists, in whatever order.
LEMMA ParseOf ==
    ASSUME NEW m \in AllMessages, kind \in Adapters, m.is_delta => SendsDeltas,
           NEW xs \in SUBSET Prices, NEW ys \in SUBSET Prices, Lists(m, xs, ys)
    PROVE  /\ Parse(m) \in AllMessages
           /\ Parse(m).pair = m.pair /\ Parse(m).of = m.of /\ Parse(m).is_delta = m.is_delta
           /\ Positive(Range(Parse(m).bids)) = Positive(Range(m.bids))
           /\ Positive(Range(Parse(m).asks)) = Positive(Range(m.asks))
           /\ m.is_delta => /\ Range(Parse(m).bids) = Range(m.bids)
                            /\ Range(Parse(m).asks) = Range(m.asks)
  <1> DEFINE B == Range(m.bids)
             A == Range(m.asks)
  <1>1. m.of.bids \in [Prices -> Nat] /\ m.of.asks \in [Prices -> Nat]
    BY DEF AllMessages, AllMarkets
  <1>2. /\ B \in SUBSET AllLevels /\ IsFiniteSet(B) /\ Distinct(B)
        /\ A \in SUBSET AllLevels /\ IsFiniteSet(A) /\ Distinct(A)
    BY <1>1, LevelsOf DEF Lists
  <1> DEFINE pb == Sorted(Positive(B), TRUE)
             pa == Sorted(Positive(A), FALSE)
             sb == Sorted(B, TRUE)
             sa == Sorted(A, FALSE)
  <1>3. /\ pb \in AllSides /\ Range(pb) = Positive(B)
        /\ pa \in AllSides /\ Range(pa) = Positive(A)
    BY <1>2, SortedIsSide
  <1>4. sb \in AllSides /\ Range(sb) = B /\ sa \in AllSides /\ Range(sa) = A
    BY <1>2, SortedOf
  <1>5. Positive(Positive(B)) = Positive(B) /\ Positive(Positive(A)) = Positive(A)
    BY DEF Positive
  <1>6. /\ Whole(m) = [m EXCEPT !.bids = pb, !.asks = pa]
        /\ ParseBybit(m) = IF m.is_delta THEN m ELSE [m EXCEPT !.bids = sb, !.asks = sa]
        /\ ParseGateio(m) = IF m.is_delta THEN [m EXCEPT !.bids = sb, !.asks = sa] ELSE Whole(m)
        /\ ParseMexc(m) = [Whole(m) EXCEPT !.sequence_id = 0]
    BY DEF Whole, ParseBybit, ParseGateio, ParseMexc
  <1> HIDE DEF A, B, pb, pa, sb, sa
  <1> DEFINE w == [m EXCEPT !.bids = pb, !.asks = pa]
             s == [m EXCEPT !.bids = sb, !.asks = sa]
             x == [w EXCEPT !.sequence_id = 0]
  <1>7. /\ w \in AllMessages /\ w.pair = m.pair /\ w.of = m.of /\ w.is_delta = m.is_delta
        /\ w.bids = pb /\ w.asks = pa
    BY <1>3 DEF AllMessages
  <1>8. /\ s \in AllMessages /\ s.pair = m.pair /\ s.of = m.of /\ s.is_delta = m.is_delta
        /\ s.bids = sb /\ s.asks = sa
    BY <1>4 DEF AllMessages
  <1> HIDE DEF w, s
  <1>9. /\ x \in AllMessages /\ x.pair = w.pair /\ x.of = w.of /\ x.is_delta = w.is_delta
        /\ x.bids = w.bids /\ x.asks = w.asks
    BY <1>7 DEF AllMessages
  <1> HIDE DEF x
  <1>10. \/ Parse(m) = m /\ m.is_delta
         \/ Parse(m) = s
         \/ Parse(m) \in {w, x} /\ ~m.is_delta
    <2>1. ~m.is_delta \/ kind \in {"bybit", "gateio"}
      BY DEF SendsDeltas
    <2>2. kind = "binance" => Parse(m) = w
      BY <1>6 DEF Parse, ParseBinance, w
    <2>3. kind = "okx" => Parse(m) = w
      BY <1>6 DEF Parse, ParseOkx, w
    <2>4. kind = "mexc" => Parse(m) = x
      BY <1>6 DEF Parse, x, w
    <2>5. kind = "bybit" => Parse(m) = IF m.is_delta THEN m ELSE s
      BY <1>6 DEF Parse, s
    <2>6. kind = "gateio" => Parse(m) = IF m.is_delta THEN s ELSE w
      BY <1>6 DEF Parse, s, w
    <2> QED BY <2>1, <2>2, <2>3, <2>4, <2>5, <2>6 DEF Adapters
  <1> QED BY <1>3, <1>4, <1>5, <1>7, <1>8, <1>9, <1>10 DEF A, B

-----------------------------------------------------------------------------
(* The messages on their way *)

LEMMA SetToSeqOf ==
    ASSUME NEW ps \in SUBSET Pairs
    PROVE  /\ Cardinality(ps) \in Nat /\ SetToSeq(ps) \in [1 .. Cardinality(ps) -> ps]
           /\ \A p \in ps : \E i \in 1 .. Cardinality(ps) : SetToSeq(ps)[i] = p
  <1> DEFINE n == Cardinality(ps)
             s == SetToSeq(ps)
             One(f) == IsInjective(f)
  <1>1. IsFiniteSet(ps) /\ n \in Nat /\ IsFiniteSet(1 .. n) /\ Cardinality(1 .. n) = n
    <2>1. IsFiniteSet(ps)
      BY Numbers, FS_Subset
    <2>2. n \in Nat
      BY <2>1, FS_CardinalityType
    <2> HIDE DEF n
    <2> QED BY <2>1, <2>2, FS_Interval
  <1>2. \E f \in [1 .. n -> ps] : One(f)
    <2>1. ExistsBijection(1 .. n, ps)
      BY <1>1, FS_CardinalityType
    <2> QED BY <2>1 DEF ExistsBijection, Bijection, Injection
  <1>3. s = CHOOSE f \in [1 .. n -> ps] : One(f)
    BY DEF SetToSeq
  <1>4. s \in [1 .. n -> ps] /\ One(s)
    <2> HIDE DEF s, One, n
    <2> QED BY <1>2, <1>3
  <1>5. s \in Surjection(1 .. n, ps)
    <2>1. s \in Injection(1 .. n, ps)
      BY <1>4 DEF Injection
    <2> HIDE DEF s, One
    <2> QED BY <1>1, <2>1, FS_Injection
  <1>6. \A p \in ps : \E i \in 1 .. n : s[i] = p
    <2> HIDE DEF s, n
    <2> QED BY <1>5 DEF Surjection
  <1> QED BY <1>1, <1>4, <1>6

\* What Serve puts on the wire.
AreBooks(sent, ps) ==
    /\ sent \in Seq(AllMessages)
    /\ \A i \in 1 .. Len(sent) :
           /\ sent[i].pair \in ps /\ ~sent[i].is_delta
           /\ sent[i].of = market[sent[i].pair] /\ Lists(sent[i], Prices, Prices)
    /\ \A p \in ps : \E i \in 1 .. Len(sent) : sent[i].pair = p

LEMMA ServedBooks ==
    ASSUME FeedTypeOK, NEW ps \in SUBSET Pairs, NEW rising
    PROVE  AreBooks(Answers(ps, rising), ps)
  <1> DEFINE n == Cardinality(ps)
             sent == Answers(ps, rising)
             order == SetToSeq(ps)
  <1>0. sent = [i \in DOMAIN order |-> WholeBook(order[i], market[order[i]], serial, rising)]
    BY DEF Answers
  <1>1. /\ n \in Nat /\ order \in [1 .. n -> ps]
        /\ \A p \in ps : \E i \in 1 .. n : order[i] = p
    BY SetToSeqOf
  <1> HIDE DEF n, order, sent
  <1>2. ASSUME NEW i \in 1 .. n
        PROVE  /\ sent[i] = WholeBook(order[i], market[order[i]], serial, rising)
               /\ order[i] \in ps /\ order[i] \in Pairs
               /\ market[order[i]] \in AllMarkets /\ serial \in Nat
    BY <1>0, <1>1 DEF FeedTypeOK
  <1>3. \A i \in 1 .. n : /\ sent[i] \in AllMessages /\ sent[i].pair = order[i]
                          /\ ~sent[i].is_delta /\ sent[i].of = market[order[i]]
                          /\ Lists(sent[i], Prices, Prices)
    BY <1>2, WholeBookOf
  <1>4. sent \in Seq(AllMessages) /\ Len(sent) = n
    <2>1. sent \in [1 .. n -> AllMessages]
      <3>1. DOMAIN order = 1 .. n
        BY <1>1
      <3>2. sent = [i \in 1 .. n |-> sent[i]]
        BY <1>0, <3>1
      <3> QED BY <1>3, <3>2
    <2> QED BY <1>1, <2>1
  <1>5. ASSUME NEW p \in ps PROVE \E i \in 1 .. Len(sent) : sent[i].pair = p
    <2>1. PICK i \in 1 .. n : order[i] = p
      BY <1>1
    <2> QED BY <1>3, <1>4, <2>1
  <1>6. ASSUME NEW i \in 1 .. Len(sent)
        PROVE  /\ sent[i].pair \in ps /\ ~sent[i].is_delta
               /\ sent[i].of = market[sent[i].pair] /\ Lists(sent[i], Prices, Prices)
    BY <1>2, <1>3, <1>4
  <1> QED BY <1>4, <1>5, <1>6 DEF AreBooks, sent

\* The first message of a wire is gone; the pair that it was of has its market
\* as the last one received, or has missed a change.
LEMMA ChainOfTail ==
    ASSUME NEW w \in Seq(AllMessages), w # <<>>, NEW v, v = Tail(w),
           NEW last, NEW last1, NEW missed, NEW missed1,
           \A q \in Pairs : IF q = Head(w).pair THEN missed1[q] \/ last1[q] = Head(w).of
                           ELSE (missed1[q] <=> missed[q]) /\ last1[q] = last[q],
           Chain(w, last, missed),
           NEW to \in SUBSET Pairs, NEW current, UpToDate(w, last, missed, to, current)
    PROVE  Chain(v, last1, missed1) /\ UpToDate(v, last1, missed1, to, current)
  <1> DEFINE n == Len(w)
             h == Head(w)
             Was(m, i, q, j) ==
                 /\ LastBefore(w, m, q, j + 1)
                 /\ m = 0 /\ missed[q] => i = 0 /\ missed1[q]
                 /\ \/ i = 0 /\ missed1[q]
                    \/ Known(w, last, m, q) = Known(v, last1, i, q)
  <1>1. /\ n \in Nat /\ n > 0 /\ DOMAIN w = 1 .. n
        /\ \A j \in 1 .. n : w[j] \in AllMessages /\ w[j].pair \in Pairs
        /\ h = w[1] /\ h.pair \in Pairs
    <2>1. n \in Nat /\ n > 0 /\ DOMAIN w = 1 .. n /\ h = w[1]
      OBVIOUS
    <2>2. \A j \in 1 .. n : w[j] \in AllMessages
      OBVIOUS
    <2>3. \A m \in AllMessages : m.pair \in Pairs
      BY DEF AllMessages
    <2> HIDE DEF n, h
    <2>4. 1 \in 1 .. n
      BY <2>1
    <2> QED BY <2>1, <2>2, <2>3, <2>4
  <1>2. /\ v \in Seq(AllMessages) /\ Len(v) = n - 1 /\ DOMAIN v = 1 .. n - 1
        /\ \A j \in 1 .. n - 1 : v[j] = w[j + 1]
    BY <1>1, HeadTailProperties
  <1> HIDE DEF n, h
  <1>3. \A j \in 1 .. n - 1 : j + 1 \in 1 .. n
    BY <1>1
  <1>4. \A q \in Pairs : IF q = h.pair THEN missed1[q] \/ last1[q] = h.of
                         ELSE (missed1[q] <=> missed[q]) /\ last1[q] = last[q]
    BY DEF h
  <1>5. ASSUME NEW q \in Pairs, NEW i \in 0 .. n - 1, NEW j \in 1 .. n, i < j,
               LastBefore(v, i, q, j)
        PROVE  \E m \in 0 .. j : Was(m, i, q, j)
    <2>1. /\ i > 0 => v[i].pair = q
          /\ \A k \in i + 1 .. j - 1 : v[k].pair # q
      BY <1>5 DEF LastBefore
    <2>2. CASE i > 0
      <3>1. i \in 1 .. n - 1 /\ i + 1 \in 0 .. j /\ i + 1 > 0 /\ i + 1 # 0 /\ i # 0
        BY <1>1, <1>5, <2>2
      <3>2. v[i] = w[i + 1]
        BY <1>2, <3>1
      <3>3. \A k \in (i + 1) + 1 .. (j + 1) - 1 : w[k].pair # q
        <4> TAKE k \in (i + 1) + 1 .. (j + 1) - 1
        <4>1. k - 1 \in i + 1 .. j - 1 /\ k - 1 \in 1 .. n - 1 /\ (k - 1) + 1 = k
          BY <1>1, <3>1
        <4>2. v[k - 1] = w[k]
          BY <1>2, <4>1
        <4> QED BY <2>1, <4>1, <4>2
      <3>4. LastBefore(w, i + 1, q, j + 1)
        BY <2>1, <2>2, <3>2, <3>3 DEF LastBefore
      <3>5. Known(w, last, i + 1, q) = Known(v, last1, i, q)
        BY <3>1, <3>2 DEF Known
      <3> QED BY <3>1, <3>4, <3>5
    <2>3. CASE i = 0
      <3>1. \A k \in 2 .. j : w[k].pair # q
        <4> TAKE k \in 2 .. j
        <4>1. k - 1 \in i + 1 .. j - 1 /\ k - 1 \in 1 .. n - 1 /\ (k - 1) + 1 = k
          BY <1>1, <2>3
        <4>2. v[k - 1] = w[k]
          BY <1>2, <4>1
        <4> QED BY <2>1, <4>1, <4>2
      <3>2. CASE h.pair = q
        <4>1. LastBefore(w, 1, q, j + 1)
          <5>1. \A k \in 1 + 1 .. (j + 1) - 1 : w[k].pair # q
            BY <3>1
          <5> QED BY <1>1, <3>2, <5>1 DEF LastBefore
        <4>2. Known(w, last, 1, q) = h.of
          BY <1>1 DEF Known
        <4>3. missed1[q] \/ last1[q] = h.of
          BY <1>4, <3>2
        <4>4. missed1[q] \/ Known(w, last, 1, q) = Known(v, last1, i, q)
          BY <2>3, <4>2, <4>3 DEF Known
        <4>5. 1 \in 0 .. j
          BY <1>5
        <4> QED BY <2>3, <4>1, <4>4, <4>5
      <3>3. CASE h.pair # q
        <4>1. LastBefore(w, 0, q, j + 1)
          <5>1. \A k \in 0 + 1 .. (j + 1) - 1 : w[k].pair # q
            <6> TAKE k \in 0 + 1 .. (j + 1) - 1
            <6>1. k = 1 \/ k \in 2 .. j
              BY <1>5
            <6> QED BY <1>1, <3>1, <3>3, <6>1
          <5> QED BY <5>1 DEF LastBefore
        <4>2. (missed1[q] <=> missed[q]) /\ last1[q] = last[q]
          BY <1>4, <3>3
        <4>3. Known(w, last, 0, q) = Known(v, last1, i, q)
          BY <2>3, <4>2 DEF Known
        <4>4. 0 \in 0 .. j
          BY <1>5
        <4> QED BY <2>3, <4>1, <4>2, <4>3, <4>4
      <3> QED BY <3>2, <3>3
    <2>4. i > 0 \/ i = 0
      BY <1>1
    <2> QED BY <2>2, <2>3, <2>4
  <1>6. ASSUME NEW j \in 1 .. n - 1, NEW i \in 0 .. j - 1, NEW q, q = v[j].pair,
               LastBefore(v, i, q, j), v[j].is_delta
        PROVE  \/ i = 0 /\ missed1[q]
               \/ Lists(v[j], Changed(Known(v, last1, i, q).bids, v[j].of.bids),
                              Changed(Known(v, last1, i, q).asks, v[j].of.asks))
    <2>1. /\ v[j] = w[j + 1] /\ j + 1 \in 1 .. n /\ q \in Pairs
          /\ i \in 0 .. n - 1 /\ j \in 1 .. n /\ i < j /\ (j + 1) - 1 = j
      BY <1>1, <1>2, <1>3, <1>6
    <2>2. PICK m \in 0 .. j : Was(m, i, q, j)
      BY <1>5, <1>6, <2>1
    <2>3. m \in 0 .. (j + 1) - 1 /\ q \in {w[j + 1].pair} /\ w[j + 1].is_delta
      BY <1>6, <2>1
    <2>4. \/ m = 0 /\ missed[q]
          \/ Lists(w[j + 1], Changed(Known(w, last, m, q).bids, w[j + 1].of.bids),
                             Changed(Known(w, last, m, q).asks, w[j + 1].of.asks))
      BY <1>1, <2>1, <2>2, <2>3 DEF Chain
    <2> QED BY <2>1, <2>2, <2>4
  <1>7. ASSUME NEW q \in to, NEW i \in 0 .. n - 1, LastBefore(v, i, q, n)
        PROVE  (i = 0 /\ missed1[q]) \/ current[q] = Known(v, last1, i, q)
    <2>1. q \in Pairs /\ n \in 1 .. n /\ i < n
      BY <1>1
    <2>2. PICK m \in 0 .. n : Was(m, i, q, n)
      BY <1>5, <1>7, <2>1
    <2>3. (m = 0 /\ missed[q]) \/ current[q] = Known(w, last, m, q)
      BY <2>2 DEF UpToDate, n
    <2> QED BY <2>2, <2>3
  <1>8. Chain(v, last1, missed1)
    BY <1>2, <1>6 DEF Chain
  <1>9. UpToDate(v, last1, missed1, to, current)
    <2>1. Len(v) + 1 = n /\ 0 .. Len(v) = 0 .. n - 1
      BY <1>1, <1>2
    <2> QED BY <1>7, <2>1 DEF UpToDate
  <1> QED BY <1>8, <1>9

\* A wire that is longer: its first messages are those of the shorter one, what
\* is new is of the market as it is, and a change needs a book before it.
Longer(w, v) ==
    /\ w \in Seq(AllMessages) /\ v \in Seq(AllMessages)
    /\ Len(w) <= Len(v) /\ \A j \in 1 .. Len(w) : v[j] = w[j]
NewOnesAreOf(w, v, current) ==
    \A j \in Len(w) + 1 .. Len(v) : v[j].of = current[v[j].pair]
AllAreCovered(w, v, to, current, to1, current1) ==
    \A q \in to1 : \/ q \in to /\ current1[q] = current[q]
                  \/ \E j \in Len(w) + 1 .. Len(v) : v[j].pair = q
ChangesFollow(w, v, to, current) ==
    \A j \in Len(w) + 1 .. Len(v) : v[j].is_delta =>
        /\ j = Len(w) + 1 /\ v[j].pair \in to
        /\ Lists(v[j], Changed(current[v[j].pair].bids, v[j].of.bids),
                       Changed(current[v[j].pair].asks, v[j].of.asks))

LEMMA LastBeforeKept ==
    ASSUME NEW w, NEW v, Longer(w, v), NEW last
    PROVE  \A i \in 0 .. Len(w) : \A j \in 1 .. Len(w) + 1 : \A q :
               i < j => /\ LastBefore(v, i, q, j) <=> LastBefore(w, i, q, j)
                        /\ Known(v, last, i, q) = Known(w, last, i, q)
  <1> SUFFICES ASSUME NEW i \in 0 .. Len(w), NEW j \in 1 .. Len(w) + 1, NEW q, i < j
               PROVE  /\ LastBefore(v, i, q, j) <=> LastBefore(w, i, q, j)
                      /\ Known(v, last, i, q) = Known(w, last, i, q)
    OBVIOUS
  <1>1. Len(w) \in Nat
    BY DEF Longer
  <1>2. i > 0 => v[i] = w[i]
    BY <1>1 DEF Longer
  <1>3. \A k \in i + 1 .. j - 1 : v[k] = w[k]
    BY <1>1 DEF Longer
  <1>4. i = 0 \/ i > 0
    BY <1>1
  <1> QED BY <1>2, <1>3, <1>4 DEF LastBefore, Known

\* A change goes to a wire with a book of its pair at the end of it.
LEMMA ChainOfLonger ==
    ASSUME NEW w, NEW v, Longer(w, v),
           NEW last, NEW missed, Chain(w, last, missed),
           NEW to, NEW current, UpToDate(w, last, missed, to, current),
           ChangesFollow(w, v, to, current)
    PROVE  Chain(v, last, missed)
  <1>0. \A i \in 0 .. Len(w) : \A j \in 1 .. Len(w) + 1 : \A q :
            i < j => /\ LastBefore(v, i, q, j) <=> LastBefore(w, i, q, j)
                     /\ Known(v, last, i, q) = Known(w, last, i, q)
    BY LastBeforeKept
  <1>d. DOMAIN v = 1 .. Len(v)
    BY DEF Longer
  <1> SUFFICES ASSUME NEW j \in DOMAIN v, NEW i \in 0 .. j - 1, NEW q \in {v[j].pair},
                      LastBefore(v, i, q, j) /\ v[j].is_delta
               PROVE  \/ i = 0 /\ missed[q]
                      \/ Lists(v[j], Changed(Known(v, last, i, q).bids, v[j].of.bids),
                                     Changed(Known(v, last, i, q).asks, v[j].of.asks))
    BY Zenon DEF Chain
  <1>q. j \in 1 .. Len(v) /\ q = v[j].pair
    BY <1>d
  <1>1. /\ Len(w) \in Nat /\ Len(v) \in Nat /\ i \in Nat /\ j \in Nat /\ i < j
        /\ DOMAIN w = 1 .. Len(w)
    BY DEF Longer
  <1>2. CASE j <= Len(w)
    <2>1. j \in 1 .. Len(w) /\ i \in 0 .. Len(w) /\ j \in 1 .. Len(w) + 1 /\ v[j] = w[j]
      BY <1>1, <1>2 DEF Longer
    <2>2. LastBefore(w, i, q, j) /\ Known(v, last, i, q) = Known(w, last, i, q)
      BY <1>0, <1>1, <2>1
    <2>3. \/ i = 0 /\ missed[q]
          \/ Lists(w[j], Changed(Known(w, last, i, q).bids, w[j].of.bids),
                         Changed(Known(w, last, i, q).asks, w[j].of.asks))
      BY <1>1, <2>1, <2>2 DEF Chain
    <2> QED BY <2>1, <2>2, <2>3
  <1>3. CASE ~(j <= Len(w))
    <2>1. /\ j = Len(w) + 1 /\ q \in to
          /\ Lists(v[j], Changed(current[q].bids, v[j].of.bids),
                         Changed(current[q].asks, v[j].of.asks))
      BY <1>1, <1>3 DEF ChangesFollow
    <2>2. i \in 0 .. Len(w) /\ j \in 1 .. Len(w) + 1
      BY <1>1, <2>1
    <2>3. LastBefore(w, i, q, j) /\ Known(v, last, i, q) = Known(w, last, i, q)
      BY <1>0, <1>1, <2>2
    <2>4. (i = 0 /\ missed[q]) \/ current[q] = Known(w, last, i, q)
      BY <2>1, <2>2, <2>3 DEF UpToDate
    <2> QED BY <2>1, <2>3, <2>4
  <1> QED BY <1>2, <1>3

\* Books or a change are sent of the market as it now is.
LEMMA UpToDateOfLonger ==
    ASSUME NEW w, NEW v, Longer(w, v), NEW last, NEW missed,
           NEW to, NEW current, UpToDate(w, last, missed, to, current),
           NEW to1, NEW current1, NewOnesAreOf(w, v, current1),
           AllAreCovered(w, v, to, current, to1, current1)
    PROVE  UpToDate(v, last, missed, to1, current1)
  <1>0. \A i \in 0 .. Len(w) : \A j \in 1 .. Len(w) + 1 : \A q :
            i < j => /\ LastBefore(v, i, q, j) <=> LastBefore(w, i, q, j)
                     /\ Known(v, last, i, q) = Known(w, last, i, q)
    BY LastBeforeKept
  <1> SUFFICES ASSUME NEW q \in to1, NEW i \in 0 .. Len(v), LastBefore(v, i, q, Len(v) + 1)
               PROVE  (i = 0 /\ missed[q]) \/ current1[q] = Known(v, last, i, q)
    BY DEF UpToDate
  <1>1. Len(w) \in Nat /\ Len(v) \in Nat /\ i \in Nat /\ Len(w) <= Len(v)
    BY DEF Longer
  <1>2. CASE i > Len(w)
    <2>1. i \in Len(w) + 1 .. Len(v) /\ i > 0 /\ i # 0
      BY <1>1, <1>2
    <2>2. v[i].pair = q
      BY <2>1 DEF LastBefore
    <2> QED BY <2>1, <2>2 DEF Known, NewOnesAreOf
  <1>3. CASE ~(i > Len(w))
    <2>1. i \in 0 .. Len(w) /\ Len(w) + 1 \in 1 .. Len(w) + 1 /\ i < Len(w) + 1
      BY <1>1, <1>3
    <2>2. \A j \in Len(w) + 1 .. Len(v) : j \in i + 1 .. (Len(v) + 1) - 1
      BY <1>1, <2>1
    <2>3. q \in to /\ current1[q] = current[q]
      BY <2>2 DEF LastBefore, AllAreCovered
    <2>4. LastBefore(v, i, q, Len(w) + 1)
      <3>1. \A k \in i + 1 .. (Len(w) + 1) - 1 : k \in i + 1 .. (Len(v) + 1) - 1
        BY <1>1
      <3> QED BY <3>1 DEF LastBefore
    <2>5. LastBefore(w, i, q, Len(w) + 1) /\ Known(v, last, i, q) = Known(w, last, i, q)
      BY <1>0, <2>1, <2>4
    <2>6. (i = 0 /\ missed[q]) \/ current[q] = Known(w, last, i, q)
      BY <2>1, <2>3, <2>5 DEF UpToDate
    <2> QED BY <2>3, <2>5, <2>6
  <1> QED BY <1>2, <1>3

-----------------------------------------------------------------------------
(* The invariant of the feed *)

LEMMA Given == Kinds \subseteq Adapters /\ Markets \subseteq AllMarkets /\ Markets # {}
  BY FeedConstants DEF AllMarkets

LEMMA FeedInitInv == FeedInit => FeedInv
  <1> SUFFICES ASSUME FeedInit PROVE FeedInv
    OBVIOUS
  <1> DEFINE none == [x \in Prices |-> 0]
             zero == [bids |-> none, asks |-> none]
  <1>1. zero \in AllMarkets /\ seen = [p \in Pairs |-> zero]
    BY DEF FeedInit, AllMarkets
  <1>2. (CHOOSE m \in Markets : TRUE) \in AllMarkets
    BY Given
  <1>3. NoBook \in [bids : AllSides, asks : AllSides]
    BY DEF NoBook, AllSides
  <1> HIDE DEF zero
  <1>4. FeedTypeOK
    <2>1. market \in [Pairs -> AllMarkets]
      BY <1>2 DEF FeedInit
    <2>2. wire \in Seq(AllMessages)
      BY DEF FeedInit
    <2>3. book \in [Pairs -> [bids : AllSides, asks : AllSides]]
      BY <1>3 DEF FeedInit
    <2>4. seen \in [Pairs -> AllMarkets] /\ gap \in [Pairs -> BOOLEAN]
      BY <1>1 DEF FeedInit
    <2>5. /\ kind \in Kinds /\ callbacks \subseteq Pairs /\ pending_subs \subseteq Pairs
          /\ link = "off" /\ links = 0 /\ asked = {} /\ served = {}
          /\ serial = 1 /\ changes = 0 /\ drops = 0 /\ last_sequence_id \in [Pairs -> Nat]
      BY DEF FeedInit
    <2>6. 0 \in 0 .. MaxLinks /\ 0 \in 0 .. MaxChanges /\ 0 \in 0 .. MaxDrops
      BY FeedConstants
    <2> QED BY <2>1, <2>2, <2>3, <2>4, <2>5, <2>6 DEF FeedTypeOK
  <1>5. BooksSorted
    <2>1. \A d : IsSide(<<>>, d)
      BY DEF IsSide
    <2> QED BY <2>1 DEF FeedInit, BooksSorted, NoBook
  <1>6. BookIsCurrent
    <2>1. Positive(Levels(none, Prices)) = {}
      BY DEF Positive, Levels, Level
    <2>2. \A d : Sorted({}, d) = <<>>
      <3> TAKE d
      <3>1. Cardinality({}) = 0
        BY FS_EmptySet
      <3> QED BY <3>1 DEF Sorted
    <2>3. zero.bids = none /\ zero.asks = none
      BY DEF zero
    <2> HIDE DEF none
    <2>4. BookOf(zero) = NoBook
      BY <2>1, <2>2, <2>3 DEF BookOf, NoBook
    <2> QED BY <1>1, <2>4 DEF FeedInit, BookIsCurrent
  <1>7. MessageInv /\ ChainInv
    BY DEF FeedInit, MessageInv, ChainInv, Chain, UpToDate
  <1> QED BY <1>4, <1>5, <1>6, <1>7 DEF FeedInv

\* What does not touch a book leaves what is known of it.
LEMMA BooksKept ==
    ASSUME BooksSorted, BookIsCurrent, UNCHANGED books
    PROVE  BooksSorted' /\ BookIsCurrent'
  BY DEF BooksSorted, BookIsCurrent, books

\* Subscribing, a new link and a lost one.
LEMMA SessionStep ==
    ASSUME FeedInv,
           \/ \E p \in Pairs : Subscribe(p)
           \/ FirstLink \/ NextLink \/ Lose
    PROVE  FeedInv'
  <1> USE DEF FeedInv
  <1>1. UNCHANGED <<kind, market, serial, changes, drops, books>>
    BY DEF Subscribe, FirstLink, NextLink, Open, Lose, exchange
  <1>2. BooksSorted' /\ BookIsCurrent'
    BY <1>1, BooksKept
  <1>3. CASE \E p \in Pairs : Subscribe(p)
    <2>1. UNCHANGED <<wire, served, link, links, asked>> /\ callbacks' \subseteq Pairs /\ pending_subs' \subseteq Pairs
      BY <1>3 DEF Subscribe, exchange, FeedTypeOK
    <2>2. FeedTypeOK'
      BY <1>1, <2>1 DEF FeedTypeOK, books
    <2>3. MessageInv' /\ ChainInv'
      BY <1>1, <2>1 DEF MessageInv, ChainInv, SendsDeltas, books
    <2> QED BY <1>2, <2>2, <2>3
  <1>4. CASE FirstLink \/ NextLink
    <2>1. UNCHANGED <<wire, served, callbacks, pending_subs>> /\ link' = "up" /\ links' = links + 1 /\ links < MaxLinks
          /\ asked' = OnConnected \cup Streams
      BY <1>4 DEF FirstLink, NextLink, Open, exchange, client
    <2>2. OnConnected \cup Streams \subseteq SUBSET Pairs
      <3>1. pending_subs \in SUBSET Pairs /\ kind \in Adapters
        BY Given DEF FeedTypeOK
      <3>2. OnConnected \subseteq SUBSET Pairs
        BY <3>1 DEF OnConnected, OnConnectedBinance, OnConnectedOkx, OnConnectedBybit,
                    OnConnectedMexc, OnConnectedGateio, Adapters
      <3>3. Streams \subseteq SUBSET Pairs
        BY <3>1 DEF Streams
      <3> QED BY <3>2, <3>3
    <2>3. FeedTypeOK'
      <3>1. links' \in 0 .. MaxLinks
        BY <2>1, FeedConstants DEF FeedTypeOK
      <3> QED BY <1>1, <2>1, <2>2, <3>1 DEF FeedTypeOK, books
    <2>4. MessageInv' /\ ChainInv'
      BY <1>1, <2>1 DEF MessageInv, ChainInv, SendsDeltas, books
    <2> QED BY <1>2, <2>3, <2>4
  <1>5. CASE Lose
    <2>1. UNCHANGED <<callbacks, pending_subs, links>> /\ link' = "down"
          /\ asked' = {} /\ served' = {} /\ wire' = <<>>
      BY <1>5 DEF Lose, client
    <2>2. FeedTypeOK'
      <3>1. wire' \in Seq(AllMessages)
        BY <2>1
      <3> QED BY <1>1, <2>1, <3>1 DEF FeedTypeOK, books
    <2>3. MessageInv' /\ ChainInv'
      BY <2>1 DEF MessageInv, ChainInv, Chain, UpToDate
    <2> QED BY <1>2, <2>2, <2>3
  <1> QED BY <1>3, <1>4, <1>5

LEMMA ServeStep ==
    ASSUME FeedInv, Serve
    PROVE  FeedInv'
  <1> USE DEF FeedInv
  <1>1. PICK ps \in asked, rising \in BOOLEAN :
            /\ asked' = asked \ {ps} /\ served' = served \cup ps
            /\ wire' = wire \o Answers(ps, rising)
            /\ UNCHANGED <<kind, client, link, links, market, serial, changes, drops, books>>
    BY DEF Serve
  <1> DEFINE sent == Answers(ps, rising)
  <1>2. wire' = wire \o sent /\ ps \in SUBSET Pairs /\ wire \in Seq(AllMessages)
    BY <1>1 DEF FeedTypeOK
  <1>3. /\ sent \in Seq(AllMessages)
        /\ \A i \in 1 .. Len(sent) :
               /\ sent[i].pair \in ps /\ ~sent[i].is_delta
               /\ sent[i].of = market[sent[i].pair] /\ Lists(sent[i], Prices, Prices)
        /\ \A p \in ps : \E i \in 1 .. Len(sent) : sent[i].pair = p
    <2>1. FeedTypeOK
      OBVIOUS
    <2>2. AreBooks(sent, ps)
      BY <1>2, <2>1, ServedBooks
    <2> HIDE DEF sent
    <2> QED BY <2>2 DEF AreBooks
  <1> HIDE DEF sent
  <1> DEFINE n == Len(wire)
             m == Len(wire')
  <1>4. /\ n \in Nat /\ Len(sent) \in Nat /\ m = n + Len(sent) /\ n <= m
        /\ wire' \in Seq(AllMessages) /\ DOMAIN wire' = 1 .. m /\ DOMAIN wire = 1 .. n
        /\ \A j \in 1 .. n : wire'[j] = wire[j]
        /\ \A j \in n + 1 .. m : j - n \in 1 .. Len(sent) /\ wire'[j] = sent[j - n]
    <2>1. /\ wire' \in Seq(AllMessages) /\ Len(wire') = Len(wire) + Len(sent)
          /\ \A j \in 1 .. Len(wire) + Len(sent) :
                 wire'[j] = IF j <= Len(wire) THEN wire[j] ELSE sent[j - Len(wire)]
      BY <1>2, <1>3, ConcatProperties
    <2>2. n \in Nat /\ Len(sent) \in Nat /\ DOMAIN wire' = 1 .. m /\ DOMAIN wire = 1 .. n
      BY <1>2, <1>3, <2>1
    <2> QED BY <2>1, <2>2
  <1>5. \A j \in n + 1 .. m :
            /\ wire'[j].pair \in ps /\ ~wire'[j].is_delta
            /\ wire'[j].of = market[wire'[j].pair] /\ Lists(wire'[j], Prices, Prices)
    BY <1>3, <1>4
  <1>6. \A p \in ps : \E j \in n + 1 .. m : wire'[j].pair = p
    <2> TAKE p \in ps
    <2>1. PICK i \in 1 .. Len(sent) : sent[i].pair = p
      BY <1>3
    <2>2. n + i \in n + 1 .. m /\ (n + i) - n = i
      BY <1>4
    <2> QED BY <1>4, <2>1, <2>2
  <1>7. BooksSorted' /\ BookIsCurrent'
    BY <1>1, BooksKept
  <1>8. FeedTypeOK'
    BY <1>1, <1>4 DEF FeedTypeOK, books, client
  <1>9. MessageInv'
    <2> SUFFICES ASSUME NEW j \in 1 .. m
                 PROVE  /\ \E bids, asks \in SUBSET Prices : Lists(wire'[j], bids, asks)
                        /\ IF wire'[j].is_delta THEN SendsDeltas ELSE Lists(wire'[j], Prices, Prices)
      BY <1>1, <1>4 DEF MessageInv, SendsDeltas
    <2>1. CASE j <= n
      <3>1. j \in 1 .. n
        BY <1>4, <2>1
      <3> QED BY <1>4, <3>1 DEF MessageInv
    <2>2. CASE ~(j <= n)
      <3>1. j \in n + 1 .. m
        BY <1>4, <2>2
      <3> QED BY <1>5, <3>1
    <2> QED BY <2>1, <2>2
  <1>10. Chain(wire', seen, gap)
    <2>1. ChangesFollow(wire, wire', served, market)
      BY <1>5 DEF ChangesFollow
    <2>2. Longer(wire, wire')
      BY <1>2, <1>4 DEF Longer
    <2>3. Chain(wire, seen, gap) /\ UpToDate(wire, seen, gap, served, market)
      BY DEF ChainInv
    <2> QED BY <2>1, <2>2, <2>3, ChainOfLonger
  <1>11. UpToDate(wire', seen, gap, served', market)
    <2>1. NewOnesAreOf(wire, wire', market)
      BY <1>5 DEF NewOnesAreOf
    <2>2. AllAreCovered(wire, wire', served, market, served', market)
      BY <1>1, <1>6 DEF AllAreCovered
    <2>3. UpToDate(wire, seen, gap, served, market)
      BY DEF ChainInv
    <2>4. Longer(wire, wire')
      BY <1>2, <1>4 DEF Longer
    <2> QED BY <2>1, <2>2, <2>3, <2>4, UpToDateOfLonger
  <1>12. ChainInv'
    BY <1>1, <1>10, <1>11 DEF ChainInv, books
  <1> QED BY <1>7, <1>8, <1>9, <1>12

LEMMA ChangeStep ==
    ASSUME FeedInv, NEW p \in Pairs, NEW new \in Markets, Change(p, new)
    PROVE  FeedInv'
  <1> USE DEF FeedInv
  <1>1. /\ changes < MaxChanges /\ changes' = changes + 1
        /\ market' = [market EXCEPT ![p] = new]
        /\ UNCHANGED <<kind, client, link, links, asked, served, drops, books>>
        /\ new \in AllMarkets
    BY Given DEF Change
  <1>2. PICK id \in Ids :
            /\ serial' = id
            /\ IF p \notin served THEN UNCHANGED wire
               ELSE \E rising \in BOOLEAN :
                        wire' = Append(wire, IF SendsDeltas THEN Delta(p, new, id, rising)
                                             ELSE WholeBook(p, new, id, rising))
    BY DEF Change
  <1>3. id \in Nat
    BY DEF Ids, FeedTypeOK
  <1>4. /\ market' \in [Pairs -> AllMarkets] /\ market'[p] = new
        /\ \A q \in Pairs : q # p => market'[q] = market[q]
        /\ changes' \in 0 .. MaxChanges /\ SendsDeltas' = SendsDeltas
    <2>1. changes' \in 0 .. MaxChanges
      BY <1>1, FeedConstants DEF FeedTypeOK
    <2>2. SendsDeltas' = SendsDeltas
      BY <1>1 DEF SendsDeltas
    <2> QED BY <1>1, <2>1, <2>2 DEF FeedTypeOK
  <1>5. BooksSorted' /\ BookIsCurrent'
    BY <1>1, BooksKept
  <1>6. CASE p \notin served
    <2>1. wire' = wire
      BY <1>2, <1>6
    <2>2. FeedTypeOK'
      BY <1>1, <1>2, <1>3, <1>4, <2>1 DEF FeedTypeOK, books, client
    <2>3. MessageInv'
      BY <1>4, <2>1 DEF MessageInv
    <2>4. \A q \in served : market'[q] = market[q]
      BY <1>4, <1>6 DEF FeedTypeOK
    <2>5. ChainInv'
      BY <1>1, <2>1, <2>4 DEF ChainInv, UpToDate, books
    <2> QED BY <1>5, <2>2, <2>3, <2>5
  <1>7. CASE p \in served
    <2>1. PICK rising \in BOOLEAN :
              wire' = Append(wire, IF SendsDeltas THEN Delta(p, new, id, rising)
                                   ELSE WholeBook(p, new, id, rising))
      BY <1>2, <1>7
    <2> DEFINE m == IF SendsDeltas THEN Delta(p, new, id, rising) ELSE WholeBook(p, new, id, rising)
               n == Len(wire)
               xs == Changed(market[p].bids, new.bids)
               ys == Changed(market[p].asks, new.asks)
    <2>2. /\ m \in AllMessages /\ m.pair = p /\ m.of = new /\ (m.is_delta <=> SendsDeltas)
          /\ IF SendsDeltas THEN Lists(m, xs, ys) ELSE Lists(m, Prices, Prices)
          /\ xs \in SUBSET Prices /\ ys \in SUBSET Prices
      <3>1. CASE SendsDeltas
        BY <1>1, <1>3, <3>1, DeltaOf
      <3>2. CASE ~SendsDeltas
        <4>1. xs \in SUBSET Prices /\ ys \in SUBSET Prices
          BY DEF Changed
        <4> QED BY <1>1, <1>3, <3>2, <4>1, WholeBookOf
      <3> QED BY <3>1, <3>2
    <2>3. wire' = Append(wire, m)
      BY <2>1
    <2> HIDE DEF m, xs, ys
    <2>4. /\ n \in Nat /\ wire \in Seq(AllMessages) /\ wire' \in Seq(AllMessages)
          /\ Len(wire') = n + 1 /\ DOMAIN wire' = 1 .. n + 1 /\ DOMAIN wire = 1 .. n
          /\ \A j \in 1 .. n : wire'[j] = wire[j]
          /\ wire'[n + 1] = m
      <3>1. wire \in Seq(AllMessages) /\ n \in Nat /\ DOMAIN wire = 1 .. n
        BY DEF FeedTypeOK
      <3> QED BY <2>2, <2>3, <3>1, AppendProperties
    <2>5. FeedTypeOK'
      BY <1>1, <1>2, <1>3, <1>4, <2>4 DEF FeedTypeOK, books, client
    <2>6. MessageInv'
      <3> SUFFICES ASSUME NEW j \in 1 .. n + 1
                   PROVE  /\ \E bids, asks \in SUBSET Prices : Lists(wire'[j], bids, asks)
                          /\ IF wire'[j].is_delta THEN SendsDeltas ELSE Lists(wire'[j], Prices, Prices)
        BY <1>4, <2>4 DEF MessageInv
      <3>1. CASE j = n + 1
        BY <2>2, <2>4, <3>1
      <3>2. CASE j # n + 1
        <4>1. j \in 1 .. n
          BY <2>4, <3>2
        <4> QED BY <2>4, <4>1 DEF MessageInv
      <3> QED BY <3>1, <3>2
    <2>7. \A j \in n + 1 .. n + 1 : j = n + 1 /\ wire'[j] = m
      BY <2>4
    <2>8. Longer(wire, wire') /\ Chain(wire, seen, gap) /\ UpToDate(wire, seen, gap, served, market)
      BY <2>4 DEF Longer, ChainInv
    <2>9. Chain(wire', seen, gap)
      <3>1. ChangesFollow(wire, wire', served, market)
        BY <1>7, <2>2, <2>4, <2>7 DEF xs, ys, ChangesFollow
      <3> QED BY <2>8, <3>1, ChainOfLonger
    <2>10. UpToDate(wire', seen, gap, served, market')
      <3>1. NewOnesAreOf(wire, wire', market')
        BY <1>4, <2>2, <2>4, <2>7 DEF NewOnesAreOf
      <3>2. AllAreCovered(wire, wire', served, market, served, market')
        <4>1. n + 1 \in Len(wire) + 1 .. Len(wire') /\ wire'[n + 1].pair = p
          BY <2>2, <2>4
        <4>2. \A q \in served : q = p \/ market'[q] = market[q]
          BY <1>4 DEF FeedTypeOK
        <4> QED BY <4>1, <4>2 DEF AllAreCovered
      <3> QED BY <2>8, <3>1, <3>2, UpToDateOfLonger
    <2>11. ChainInv'
      BY <1>1, <2>9, <2>10 DEF ChainInv, books
    <2> QED BY <1>5, <2>5, <2>6, <2>11
  <1> QED BY <1>6, <1>7

\* A side that was of one market is of the next one when all of its prices that
\* have changed were listed.
LEMMA SideIsCurrent ==
    ASSUME NEW d, NEW old \in [Prices -> Nat], NEW new \in [Prices -> Nat],
           NEW changed \in AllSides, Range(changed) = Levels(new, Changed(old, new)),
           NEW s \in SidesOf(d), s = Sorted(Positive(Levels(old, Prices)), d)
    PROVE  Updated(s, changed, d) = Sorted(Positive(Levels(new, Prices)), d)
  <1> DEFINE r == Updated(s, changed, d)
  <1>1. Changed(old, new) \in SUBSET Prices
    BY DEF Changed
  <1>2. Distinct(Range(changed))
    BY <1>1, LevelsOf
  <1>3. Changes(s, r, Range(changed), d)
    BY <1>2, UpdatedSide
  <1>4. Range(s) = Positive(Levels(old, Prices))
    BY LevelsOf, SortedIsSide
  <1> HIDE DEF r
  <1>5. Range(r) = Positive(Levels(new, Prices))
    BY <1>3, <1>4, ChangedLevels DEF Changes
  <1>6. r = Sorted(Range(r), d)
    BY <1>3, SideIsSorted DEF Changes, IsSide
  <1> QED BY <1>5, <1>6 DEF r

\* What is known of the message that is taken next.
LEMMA HeadOf ==
    ASSUME FeedInv, wire # <<>>, NEW h, h = Head(wire)
    PROVE  /\ h \in AllMessages /\ h.pair \in Pairs /\ h.of \in AllMarkets
           /\ kind \in Adapters /\ (h.is_delta => SendsDeltas)
           /\ \E xs, ys \in SUBSET Prices : Lists(h, xs, ys)
           /\ ~h.is_delta => Lists(h, Prices, Prices)
           /\ h.is_delta /\ ~gap[h.pair] =>
                 Lists(h, Changed(seen[h.pair].bids, h.of.bids), Changed(seen[h.pair].asks, h.of.asks))
  <1> USE DEF FeedInv
  <1>1. wire \in Seq(AllMessages) /\ 1 \in DOMAIN wire /\ h = wire[1]
    BY DEF FeedTypeOK
  <1>2. h \in AllMessages
    BY <1>1
  <1>3. h.pair \in Pairs /\ h.of \in AllMarkets
    BY <1>2 DEF AllMessages
  <1>4. kind \in Adapters
    BY Given DEF FeedTypeOK
  <1>5. /\ \E xs, ys \in SUBSET Prices : Lists(h, xs, ys)
        /\ IF h.is_delta THEN SendsDeltas ELSE Lists(h, Prices, Prices)
    BY <1>1 DEF MessageInv
  <1>6. ASSUME h.is_delta, ~gap[h.pair]
        PROVE  Lists(h, Changed(seen[h.pair].bids, h.of.bids), Changed(seen[h.pair].asks, h.of.asks))
    <2> DEFINE q == h.pair
    <2>1. LastBefore(wire, 0, q, 1)
      BY DEF LastBefore
    <2>2. Known(wire, seen, 0, q) = seen[q]
      BY DEF Known
    <2>3. Chain(wire, seen, gap) /\ 0 \in 0 .. 1 - 1
      BY DEF ChainInv
    <2>4. \/ 0 = 0 /\ gap[q]
          \/ Lists(wire[1], Changed(Known(wire, seen, 0, q).bids, wire[1].of.bids),
                            Changed(Known(wire, seen, 0, q).asks, wire[1].of.asks))
      BY <1>1, <1>6, <2>1, <2>3 DEF Chain
    <2> QED BY <1>1, <1>6, <2>2, <2>4
  <1> QED BY <1>2, <1>3, <1>4, <1>5, <1>6

\* Both ways to take a message leave the rest of the wire as it was.
LEMMA RestOfWire ==
    ASSUME FeedInv, wire # <<>>, wire' = Tail(wire), UNCHANGED <<kind, served, market>>,
           \A q \in Pairs : IF q = Head(wire).pair THEN gap'[q] \/ seen'[q] = Head(wire).of
                           ELSE (gap'[q] <=> gap[q]) /\ seen'[q] = seen[q]
    PROVE  wire' \in Seq(AllMessages) /\ MessageInv' /\ ChainInv'
  <1> USE DEF FeedInv
  <1>1. wire \in Seq(AllMessages) /\ served \in SUBSET Pairs
    BY DEF FeedTypeOK
  <1>2. /\ wire' \in Seq(AllMessages) /\ Len(wire') = Len(wire) - 1
        /\ \A j \in 1 .. Len(wire') : wire'[j] = wire[j + 1]
    BY <1>1, HeadTailProperties
  <1>3. MessageInv'
    <2>1. SendsDeltas' = SendsDeltas
      BY DEF SendsDeltas
    <2> SUFFICES ASSUME NEW j \in 1 .. Len(wire')
                 PROVE  /\ \E bids, asks \in SUBSET Prices : Lists(wire'[j], bids, asks)
                        /\ IF wire'[j].is_delta THEN SendsDeltas ELSE Lists(wire'[j], Prices, Prices)
      BY <1>2, <2>1 DEF MessageInv
    <2>2. j + 1 \in DOMAIN wire /\ wire'[j] = wire[j + 1]
      BY <1>1, <1>2
    <2> QED BY <2>2 DEF MessageInv
  <1>4. ChainInv'
    <2>1. Chain(wire, seen, gap) /\ UpToDate(wire, seen, gap, served, market)
      BY DEF ChainInv
    <2>2. Chain(wire', seen', gap') /\ UpToDate(wire', seen', gap', served, market)
      BY <1>1, <2>1, ChainOfTail, Zenon
    <2> QED BY <2>2 DEF ChainInv
  <1> QED BY <1>2, <1>3, <1>4

LEMMA DropStep ==
    ASSUME FeedInv, Drop
    PROVE  FeedInv'
  <1> USE DEF FeedInv
  <1> DEFINE p == Head(wire).pair
  <1>1. /\ wire # <<>> /\ wire' = Tail(wire) /\ drops < MaxDrops /\ drops' = drops + 1
        /\ gap' = [gap EXCEPT ![p] = TRUE]
        /\ UNCHANGED <<kind, callbacks, pending_subs, link, links, asked, served, market, serial, changes>>
        /\ UNCHANGED <<book, last_sequence_id, seen>>
    BY DEF Drop, client, exchange
  <1>2. p \in Pairs
    BY <1>1, HeadOf
  <1> HIDE DEF p
  <1>3. gap' \in [Pairs -> BOOLEAN] /\ gap'[p] /\ \A q \in Pairs : q # p => gap'[q] = gap[q]
    BY <1>1, <1>2 DEF FeedTypeOK
  <1>4. wire' \in Seq(AllMessages) /\ MessageInv' /\ ChainInv'
    BY <1>1, <1>3, RestOfWire DEF p
  <1>5. FeedTypeOK'
    <2>1. drops' \in 0 .. MaxDrops
      BY <1>1, FeedConstants DEF FeedTypeOK
    <2> QED BY <1>1, <1>3, <1>4, <2>1 DEF FeedTypeOK
  <1>6. BooksSorted'
    BY <1>1 DEF BooksSorted
  <1>7. BookIsCurrent'
    <2> SUFFICES ASSUME NEW q \in Pairs, ~gap'[q] PROVE book'[q] = BookOf(seen'[q])
      BY DEF BookIsCurrent
    <2>1. ~gap[q]
      BY <1>3
    <2> QED BY <1>1, <2>1 DEF BookIsCurrent
  <1> QED BY <1>4, <1>5, <1>6, <1>7

LEMMA ReceiveStep ==
    ASSUME FeedInv, Receive
    PROVE  FeedInv'
  <1> USE DEF FeedInv
  <1> DEFINE h == Head(wire)
             m == Parse(h)
             p == h.pair
  <1>1. /\ wire # <<>> /\ wire' = Tail(wire)
        /\ UNCHANGED <<kind, callbacks, pending_subs, link, links, asked, served, market, serial, changes, drops>>
        /\ IF m.is_delta THEN apply_delta(m.pair, m) ELSE apply_snapshot(m.pair, m)
        /\ seen' = [seen EXCEPT ![m.pair] = m.of]
        /\ gap' = [gap EXCEPT ![m.pair] = m.is_delta /\ (gap[m.pair] \/ Stale(m.pair, m))]
    <2> HIDE DEF m
    <2>1. m = Parse(Head(wire))
      BY DEF m
    <2> QED BY <2>1 DEF Receive, client, exchange
  <1>2. /\ h \in AllMessages /\ p \in Pairs /\ h.of \in AllMarkets
        /\ kind \in Adapters /\ (h.is_delta => SendsDeltas)
        /\ \E xs, ys \in SUBSET Prices : Lists(h, xs, ys)
        /\ ~h.is_delta => Lists(h, Prices, Prices)
        /\ h.is_delta /\ ~gap[p] =>
              Lists(h, Changed(seen[p].bids, h.of.bids), Changed(seen[p].asks, h.of.asks))
    BY <1>1, HeadOf
  <1>3. /\ m \in AllMessages /\ m.pair = p /\ m.of = h.of /\ m.is_delta = h.is_delta
        /\ Positive(Range(m.bids)) = Positive(Range(h.bids))
        /\ Positive(Range(m.asks)) = Positive(Range(h.asks))
        /\ h.is_delta => Range(m.bids) = Range(h.bids) /\ Range(m.asks) = Range(h.asks)
    <2> HIDE DEF h
    <2> QED BY <1>2, ParseOf
  <1> HIDE DEF m, p, h
  <1> DEFINE missed == m.is_delta /\ (gap[p] \/ Stale(p, m))
  <1>4. /\ seen' = [seen EXCEPT ![p] = h.of]
        /\ gap' = [gap EXCEPT ![p] = missed]
        /\ m.bids \in AllSides /\ m.asks \in AllSides /\ m.sequence_id \in Nat
        /\ m.is_delta \in BOOLEAN
    BY <1>1, <1>3 DEF AllMessages
  <1>5. /\ seen' \in [Pairs -> AllMarkets] /\ seen'[p] = h.of
        /\ \A q \in Pairs : q # p => seen'[q] = seen[q]
    BY <1>2, <1>4 DEF FeedTypeOK
  <1>6. missed \in BOOLEAN
    BY <1>4 DEF FeedTypeOK, Stale
  <1>7. /\ gap' \in [Pairs -> BOOLEAN] /\ (gap'[p] <=> missed)
        /\ \A q \in Pairs : q # p => gap'[q] = gap[q]
    <2> HIDE DEF missed
    <2> QED BY <1>2, <1>4, <1>6 DEF FeedTypeOK
  <1>8. wire' \in Seq(AllMessages) /\ MessageInv' /\ ChainInv'
    BY <1>1, <1>5, <1>7, RestOfWire DEF p, h
  <1>9. /\ book[p] \in [bids : AllSides, asks : AllSides]
        /\ book[p].bids \in SidesOf(TRUE) /\ book[p].asks \in SidesOf(FALSE)
    BY <1>2 DEF FeedTypeOK, BooksSorted, SidesOf
  <1> DEFINE Good(b, s) ==
                 /\ book' = [book EXCEPT ![p] = b]
                 /\ last_sequence_id' \in [Pairs -> Nat]
                 /\ b \in [bids : AllSides, asks : AllSides]
                 /\ IsSide(b.bids, TRUE) /\ IsSide(b.asks, FALSE)
                 /\ ~gap'[p] => b = BookOf(h.of)
  <1>10. \E b : Good(b, h)
    <2>1. last_sequence_id' \in [Pairs -> Nat]
      BY <1>1, <1>2, <1>3, <1>4 DEF FeedTypeOK, apply_delta, apply_snapshot
    <2>2. h.of.bids \in [Prices -> Nat] /\ h.of.asks \in [Prices -> Nat]
      BY <1>2 DEF AllMarkets
    <2>3. CASE ~m.is_delta
      <3> DEFINE b == BookOf(h.of)
      <3>1. book' = [book EXCEPT ![p] = [bids |-> Sorted(Positive(Range(m.bids)), TRUE),
                                         asks |-> Sorted(Positive(Range(m.asks)), FALSE)]]
        BY <1>1, <1>3, <2>3 DEF apply_snapshot
      <3>2. Range(h.bids) = Levels(h.of.bids, Prices) /\ Range(h.asks) = Levels(h.of.asks, Prices)
        BY <1>2, <1>3, <2>3 DEF Lists
      <3>3. book' = [book EXCEPT ![p] = b]
        BY <1>3, <3>1, <3>2 DEF BookOf
      <3>4. /\ b.bids \in SidesOf(TRUE) /\ b.asks \in SidesOf(FALSE)
            /\ b \in [bids : AllSides, asks : AllSides]
        BY <2>2, LevelsOf, SortedIsSide DEF BookOf
      <3> HIDE DEF b
      <3>5. Good(b, h)
        BY <2>1, <3>3, <3>4 DEF SidesOf, b
      <3> QED BY <3>5
    <2>4. CASE m.is_delta /\ Stale(p, m)
      <3>1. book' = book /\ gap'[p]
        BY <1>1, <1>3, <1>7, <2>4 DEF apply_delta
      <3>2. book' = [book EXCEPT ![p] = book[p]]
        BY <1>2, <3>1 DEF FeedTypeOK
      <3>3. Good(book[p], h)
        BY <1>9, <2>1, <3>1, <3>2 DEF SidesOf
      <3> QED BY <3>3
    <2>5. CASE m.is_delta /\ ~Stale(p, m)
      <3> DEFINE bids == Updated(book[p].bids, m.bids, TRUE)
                 asks == Updated(book[p].asks, m.asks, FALSE)
                 b == [bids |-> bids, asks |-> asks]
      <3>1. book' = [book EXCEPT ![p] = b] /\ (gap'[p] <=> gap[p])
        BY <1>1, <1>2, <1>3, <1>7, <2>5 DEF apply_delta, FeedTypeOK
      <3>2. Distinct(Range(m.bids)) /\ Distinct(Range(m.asks))
        <4>1. PICK xs, ys \in SUBSET Prices : Lists(h, xs, ys)
          BY <1>2
        <4> QED BY <1>3, <2>2, <2>5, <4>1, LevelsOf DEF Lists
      <3>3. bids \in SidesOf(TRUE) /\ asks \in SidesOf(FALSE)
        BY <1>4, <1>9, <3>2, UpdatedSide DEF Changes, SidesOf
      <3>4. ASSUME ~gap[p] PROVE b = BookOf(h.of)
        <4> DEFINE old == seen[p]
        <4>1. old.bids \in [Prices -> Nat] /\ old.asks \in [Prices -> Nat]
          BY <1>2 DEF FeedTypeOK, AllMarkets
        <4>2. book[p] = BookOf(old)
          BY <1>2, <3>4 DEF BookIsCurrent
        <4>3. /\ Range(m.bids) = Levels(h.of.bids, Changed(old.bids, h.of.bids))
              /\ Range(m.asks) = Levels(h.of.asks, Changed(old.asks, h.of.asks))
          BY <1>2, <1>3, <2>5, <3>4 DEF Lists
        <4>4. /\ book[p].bids = Sorted(Positive(Levels(old.bids, Prices)), TRUE)
              /\ book[p].asks = Sorted(Positive(Levels(old.asks, Prices)), FALSE)
          BY <4>2 DEF BookOf
        <4> HIDE DEF old
        <4>5. bids = Sorted(Positive(Levels(h.of.bids, Prices)), TRUE)
          <5>1. /\ book[p].bids \in SidesOf(TRUE) /\ m.bids \in AllSides
                /\ old.bids \in [Prices -> Nat] /\ h.of.bids \in [Prices -> Nat]
                /\ Range(m.bids) = Levels(h.of.bids, Changed(old.bids, h.of.bids))
                /\ book[p].bids = Sorted(Positive(Levels(old.bids, Prices)), TRUE)
            BY <1>4, <1>9, <2>2, <4>1, <4>3, <4>4
          <5> QED BY <5>1, SideIsCurrent, Zenon
        <4>6. asks = Sorted(Positive(Levels(h.of.asks, Prices)), FALSE)
          <5>1. /\ book[p].asks \in SidesOf(FALSE) /\ m.asks \in AllSides
                /\ old.asks \in [Prices -> Nat] /\ h.of.asks \in [Prices -> Nat]
                /\ Range(m.asks) = Levels(h.of.asks, Changed(old.asks, h.of.asks))
                /\ book[p].asks = Sorted(Positive(Levels(old.asks, Prices)), FALSE)
            BY <1>4, <1>9, <2>2, <4>1, <4>3, <4>4
          <5> QED BY <5>1, SideIsCurrent, Zenon
        <4> QED BY <4>5, <4>6 DEF BookOf
      <3> HIDE DEF bids, asks
      <3>5. b.bids = bids /\ b.asks = asks /\ b \in [bids : AllSides, asks : AllSides]
        BY <3>3 DEF SidesOf
      <3> HIDE DEF b
      <3>6. Good(b, h)
        BY <2>1, <3>1, <3>3, <3>4, <3>5 DEF SidesOf
      <3> QED BY <3>6
    <2> QED BY <1>4, <2>3, <2>4, <2>5
  <1>11. PICK b : Good(b, h)
    BY <1>10
  <1>12. /\ book' \in [Pairs -> [bids : AllSides, asks : AllSides]] /\ book'[p] = b
         /\ \A q \in Pairs : q # p => book'[q] = book[q]
    BY <1>2, <1>11 DEF FeedTypeOK
  <1>13. FeedTypeOK'
    BY <1>1, <1>5, <1>7, <1>8, <1>11, <1>12 DEF FeedTypeOK
  <1>14. BooksSorted'
    <2> SUFFICES ASSUME NEW q \in Pairs
                 PROVE  IsSide(book'[q].bids, TRUE) /\ IsSide(book'[q].asks, FALSE)
      BY DEF BooksSorted
    <2>1. CASE q = p
      BY <1>11, <1>12, <2>1
    <2>2. CASE q # p
      BY <1>12, <2>2 DEF BooksSorted
    <2> QED BY <2>1, <2>2
  <1>15. BookIsCurrent'
    <2> SUFFICES ASSUME NEW q \in Pairs, ~gap'[q] PROVE book'[q] = BookOf(seen'[q])
      BY DEF BookIsCurrent
    <2>1. CASE q = p
      BY <1>5, <1>11, <1>12, <2>1
    <2>2. CASE q # p
      BY <1>5, <1>7, <1>12, <2>2 DEF BookIsCurrent
    <2> QED BY <2>1, <2>2
  <1> QED BY <1>8, <1>13, <1>14, <1>15

LEMMA FeedStep == FeedInv /\ [FeedNext]_feedVars => FeedInv'
  <1> SUFFICES ASSUME FeedInv, [FeedNext]_feedVars PROVE FeedInv'
    OBVIOUS
  <1>1. CASE \E p \in Pairs : Subscribe(p)
    BY <1>1, SessionStep
  <1>2. ASSUME NEW p \in Pairs, NEW new \in Markets, Change(p, new) PROVE FeedInv'
    BY <1>2, ChangeStep
  <1>3. CASE FirstLink \/ NextLink \/ Lose
    BY <1>3, SessionStep
  <1>4. CASE Serve
    BY <1>4, ServeStep
  <1>5. CASE Receive
    BY <1>5, ReceiveStep
  <1>6. CASE Drop
    BY <1>6, DropStep
  <1>7. CASE UNCHANGED feedVars
    <2>1. UNCHANGED <<kind, callbacks, pending_subs, link, links, asked, served, market,
                      serial, changes, wire, drops, book, last_sequence_id, seen, gap>>
      BY <1>7 DEF feedVars, client, exchange, books
    <2>2. FeedTypeOK'
      BY <2>1 DEF FeedInv, FeedTypeOK
    <2>3. BooksSorted' /\ BookIsCurrent'
      BY <2>1, BooksKept DEF FeedInv, books
    <2>4. MessageInv' /\ ChainInv'
      BY <2>1 DEF FeedInv, MessageInv, ChainInv, SendsDeltas
    <2> QED BY <2>2, <2>3, <2>4 DEF FeedInv
  <1> QED BY <1>1, <1>2, <1>3, <1>4, <1>5, <1>6, <1>7 DEF FeedNext

\* The chain of messages, on which the two theorems below rest: a change is one
\* since the message before it, on the wire or received, unless one was missed.
THEOREM FeedInvHolds == FeedSpec => []FeedInv
  <1>1. FeedInit => FeedInv
    BY FeedInitInv
  <1>2. FeedInv /\ [FeedNext]_feedVars => FeedInv'
    BY FeedStep
  <1> QED BY <1>1, <1>2, PTL DEF FeedSpec

\* Of any number of pairs, prices, links and changes of the market: the book of a
\* pair is the exchange's as of the last message of apply_snapshot or
\* apply_delta, unless a change was missed since the last whole book.
THEOREM BookIsCurrentHolds == FeedSpec => []BookIsCurrent
  <1>1. FeedInv => BookIsCurrent
    BY DEF FeedInv
  <1> QED BY <1>1, FeedInvHolds, PTL

\* Also with changes missed, update_vec leaves each side strictly sorted and
\* without an empty level.
THEOREM SidesSortedHolds == FeedSpec => []SidesSorted
  <1>1. FeedInv => SidesSorted
    <2> SUFFICES ASSUME FeedInv, NEW p \in Pairs, NEW side \in {"bids", "asks"}
                 PROVE  /\ \A i \in DOMAIN book[p][side] : book[p][side][i].quantity > 0
                        /\ \A i \in 1 .. Len(book[p][side]) - 1 :
                               Above(side = "bids", book[p][side][i].price, book[p][side][i + 1].price)
      BY DEF SidesSorted
    <2>1. ASSUME NEW s \in AllSides, NEW d, IsSide(s, d)
          PROVE  /\ \A i \in DOMAIN s : s[i].quantity > 0
                 /\ \A i \in 1 .. Len(s) - 1 : Above(d, s[i].price, s[i + 1].price)
      <3>1. DOMAIN s = 1 .. Len(s) /\ Len(s) \in Nat
        BY LevelsOfSide
      <3>2. \A i \in 1 .. Len(s) - 1 : i \in DOMAIN s /\ i + 1 \in DOMAIN s /\ i < i + 1
        BY <3>1
      <3> QED BY <2>1, <3>2 DEF IsSide
    <2>2. /\ book[p] \in [bids : AllSides, asks : AllSides]
          /\ IsSide(book[p].bids, TRUE) /\ IsSide(book[p].asks, FALSE)
      BY DEF FeedInv, FeedTypeOK, BooksSorted
    <2>3. CASE side = "bids"
      <3>1. (side = "bids") = TRUE /\ book[p][side] = book[p].bids
        BY <2>3
      <3> QED BY <2>1, <2>2, <3>1
    <2>4. CASE side = "asks"
      <3>1. (side = "bids") = FALSE /\ book[p][side] = book[p].asks
        BY <2>4
      <3> QED BY <2>1, <2>2, <3>1
    <2> QED BY <2>3, <2>4
  <1> QED BY <1>1, FeedInvHolds, PTL
=============================================================================
