----------------------------- MODULE DepthTheorems -----------------------------
(***************************************************************************)
(* Theorems about the functions of DepthAnalyzer, for the proofs about the *)
(* detector and the backtest: a walk ends at the price of the last level   *)
(* it needs and has the best total that the side allows, a smaller         *)
(* quantity has no worse an average, and so the search halves the range of *)
(* what clears.                                                            *)
(***************************************************************************)
EXTENDS DepthAnalyzer, SumTheorems, TLAPS

-----------------------------------------------------------------------------
(* The walk over the levels of a side *)

Walked == [remaining : Nat, cost : Nat]

LEMMA TakenType ==
    ASSUME NEW w \in Walked, NEW level \in Levels
    PROVE  /\ Taken(w, level) \in Walked
           /\ LET fill == Least(w.remaining, level.quantity)
              IN  /\ fill \in 0 .. w.remaining /\ fill <= level.quantity
                  /\ Taken(w, level).remaining = w.remaining - fill
                  /\ Taken(w, level).cost = w.cost + fill * level.price
                  /\ Taken(w, level).remaining > 0 => fill = level.quantity
  <1> DEFINE fill == Least(w.remaining, level.quantity)
  <1>1. w.remaining \in Nat /\ w.cost \in Nat /\ level.quantity \in Nat /\ level.price \in Nat
    BY DEF Walked, Levels
  <1>2. fill \in 0 .. w.remaining /\ fill <= level.quantity
    BY <1>1 DEF Least
  <1>3. w.remaining - fill > 0 => fill = level.quantity
    BY <1>1 DEF Least
  <1>4. /\ Taken(w, level).remaining = w.remaining - fill
        /\ Taken(w, level).cost = w.cost + fill * level.price
    BY DEF Taken
  <1> HIDE DEF fill
  <1>5. fill \in Nat /\ w.remaining - fill \in Nat
    BY <1>1, <1>2
  <1>6. fill * level.price \in Nat
    BY <1>1, <1>5
  <1>7. w.cost + fill * level.price \in Nat
    BY <1>1, <1>6
  <1>8. Taken(w, level) = [remaining |-> w.remaining - fill, cost |-> w.cost + fill * level.price]
    BY DEF Taken, fill
  <1>9. Taken(w, level) \in Walked
    BY <1>5, <1>7, <1>8 DEF Walked
  <1> QED BY <1>2, <1>3, <1>4, <1>9 DEF fill

\* The recursion of the walk has a solution, and Walk is the end of it.
LEMMA WalkRecurs ==
    ASSUME NEW levels \in Seq(Levels), NEW quantity \in Nat
    PROVE  \E w \in [0 .. Len(levels) -> Walked] :
               /\ w[0] = [remaining |-> quantity, cost |-> 0]
               /\ \A i \in DOMAIN levels : w[i] = Taken(w[i - 1], levels[i])
               /\ Walk(levels, quantity) = w[Len(levels)]
  <1> DEFINE start == [remaining |-> quantity, cost |-> 0]
             step == [n \in Nat |-> [x \in Walked |->
                          IF n + 1 \in DOMAIN levels THEN Taken(x, levels[n + 1]) ELSE x]]
             Walks(w) == w = [i \in 0 .. Len(levels) |->
                                  IF i = 0 THEN [remaining |-> quantity, cost |-> 0]
                                  ELSE Taken(w[i - 1], levels[i])]
  <1>1. start \in Walked
    BY DEF Walked
  <1>2. \A i \in DOMAIN levels : levels[i] \in Levels
    OBVIOUS
  <1>3. step \in [Nat -> [Walked -> Walked]]
    BY <1>2, TakenType
  <1>4. PICK f \in [Nat -> Walked] : Follows(f, start, step)
    <2> HIDE DEF start, step
    <2> QED BY <1>1, <1>3, NumberRecursion
  <1> DEFINE v == [i \in 0 .. Len(levels) |-> f[i]]
  <1>5. Len(levels) \in Nat /\ DOMAIN levels = 1 .. Len(levels)
    OBVIOUS
  <1>6. \A i \in DOMAIN levels : f[i] = Taken(f[i - 1], levels[i])
    <2> TAKE i \in DOMAIN levels
    <2>1. i - 1 \in Nat /\ (i - 1) + 1 = i /\ f[i - 1] \in Walked
      BY <1>5
    <2>2. f[i] = step[i - 1][f[i - 1]]
      BY <1>4, <2>1 DEF Follows
    <2> QED BY <2>1, <2>2
  <1>7. Walks(v)
    <2>1. \A i \in 0 .. Len(levels) :
              f[i] = IF i = 0 THEN start ELSE Taken(v[i - 1], levels[i])
      <3> TAKE i \in 0 .. Len(levels)
      <3>1. CASE i = 0
        BY <1>4, <3>1 DEF Follows
      <3>2. CASE i # 0
        <4>1. i \in DOMAIN levels /\ i - 1 \in 0 .. Len(levels)
          BY <1>5, <3>2
        <4>2. v[i - 1] = f[i - 1]
          BY <4>1
        <4> HIDE DEF v
        <4> QED BY <1>6, <3>2, <4>1, <4>2
      <3> QED BY <3>1, <3>2
    <2> HIDE DEF start, step
    <2> QED BY <2>1 DEF start
  <1> DEFINE w == CHOOSE u : Walks(u)
  <1>8. Walks(w)
    <2> HIDE DEF Walks, v
    <2> QED BY <1>7
  <1>9. Walk(levels, quantity) = w[Len(levels)]
    BY DEF Walk
  <1> HIDE DEF w
  <1>10. w[0] = start /\ \A i \in DOMAIN levels : w[i] = Taken(w[i - 1], levels[i])
    BY <1>5, <1>8
  <1>11. w \in [0 .. Len(levels) -> Walked]
    <2> DEFINE P == {i \in Nat : i <= Len(levels) => w[i] \in Walked}
    <2>1. 0 \in P
      BY <1>1, <1>10
    <2>2. ASSUME NEW n \in P PROVE n + 1 \in P
      <3> SUFFICES ASSUME n + 1 <= Len(levels) PROVE w[n + 1] \in Walked
        OBVIOUS
      <3>1. n \in Nat /\ n <= Len(levels) /\ n + 1 \in DOMAIN levels /\ (n + 1) - 1 = n
        BY <1>5
      <3>2. w[n] \in Walked
        BY <3>1
      <3>3. w[n + 1] = Taken(w[n], levels[n + 1])
        BY <1>10, <3>1
      <3>4. Taken(w[n], levels[n + 1]) \in Walked
        BY <1>2, <3>1, <3>2, TakenType
      <3> QED BY <3>3, <3>4
    <2>3. P \in SUBSET Nat
      OBVIOUS
    <2>4. P = Nat
      <3> HIDE DEF P
      <3> QED BY <2>1, <2>2, <2>3, NumberInduction
    <2>5. \A i \in 0 .. Len(levels) : w[i] \in Walked
      BY <1>5, <2>4
    <2> QED BY <1>8, <2>5
  <1> QED BY <1>9, <1>10, <1>11

-----------------------------------------------------------------------------
(* What the walk takes *)

LEMMA LevelsOf ==
    ASSUME NEW levels \in Seq(Levels)
    PROVE  /\ DOMAIN levels = 1 .. Len(levels) /\ Len(levels) \in Nat
           /\ IsFiniteSet(DOMAIN levels)
           /\ \A i \in DOMAIN levels :
                  levels[i].quantity \in Nat /\ levels[i].price \in Nat
  <1>1. DOMAIN levels = 1 .. Len(levels) /\ Len(levels) \in Nat
    OBVIOUS
  <1>2. \A i \in DOMAIN levels : levels[i] \in Levels
    OBVIOUS
  <1>3. IsFiniteSet(1 .. Len(levels))
    BY <1>1, FS_Interval
  <1> QED BY <1>1, <1>2, <1>3 DEF Levels

\* An allocation that the walk makes: level after level, none before the one
\* above it is used up.
Greedy(levels, quantity, g) ==
    /\ g \in [DOMAIN levels -> 0 .. quantity]
    /\ \A i \in DOMAIN levels : g[i] <= levels[i].quantity
    /\ Walk(levels, quantity).remaining = quantity - SumFunction(g)
    /\ Walk(levels, quantity).cost = Value(levels, g)
    /\ \A i, j \in DOMAIN levels : i < j /\ g[j] > 0 => g[i] = levels[i].quantity
    /\ Walk(levels, quantity).remaining > 0 =>
           \A i \in DOMAIN levels : g[i] = levels[i].quantity

LEMMA GreedyExists ==
    ASSUME NEW levels \in Seq(Levels), NEW quantity \in Nat
    PROVE  /\ Walk(levels, quantity) \in Walked
           /\ \E g : Greedy(levels, quantity, g)
  <1> DEFINE n == Len(levels)
             Q(i) == levels[i].quantity
             p(i) == levels[i].price
  <1>1. /\ DOMAIN levels = 1 .. n /\ n \in Nat
        /\ \A i \in 1 .. n : Q(i) \in Nat /\ p(i) \in Nat /\ levels[i] \in Levels
    BY LevelsOf
  <1>2. PICK w \in [0 .. n -> Walked] :
            /\ w[0] = [remaining |-> quantity, cost |-> 0]
            /\ \A i \in 1 .. n : w[i] = Taken(w[i - 1], levels[i])
            /\ Walk(levels, quantity) = w[n]
    BY <1>1, WalkRecurs
  <1> DEFINE g == [i \in 1 .. n |-> w[i - 1].remaining - w[i].remaining]
             f == [i \in 1 .. n |-> g[i] * p(i)]
  <1>3. \A i \in 0 .. n : w[i].remaining \in Nat /\ w[i].cost \in Nat
    BY <1>2 DEF Walked
  <1>4. ASSUME NEW i \in 1 .. n
        PROVE  /\ g[i] \in Nat /\ g[i] <= w[i - 1].remaining /\ g[i] <= Q(i)
               /\ w[i].remaining = w[i - 1].remaining - g[i]
               /\ w[i].cost = w[i - 1].cost + f[i]
               /\ w[i].remaining > 0 => g[i] = Q(i)
               /\ f[i] \in Nat
    <2>0. i - 1 \in 0 .. n /\ i \in 0 .. n
      BY <1>1
    <2>1. i - 1 \in 0 .. n /\ i \in 0 .. n /\ w[i - 1] \in Walked
      BY <1>2, <2>0
    <2> DEFINE fill == Least(w[i - 1].remaining, Q(i))
    <2>2. /\ fill \in 0 .. w[i - 1].remaining /\ fill <= Q(i)
          /\ w[i].remaining = w[i - 1].remaining - fill
          /\ w[i].cost = w[i - 1].cost + fill * p(i)
          /\ w[i].remaining > 0 => fill = Q(i)
      <3>1. levels[i] \in Levels /\ w[i] = Taken(w[i - 1], levels[i])
        BY <1>1, <1>2
      <3> DEFINE v == w[i - 1]
                 level == levels[i]
      <3>2. v \in Walked /\ level \in Levels /\ w[i] = Taken(v, level)
        BY <2>1, <3>1
      <3>3. /\ fill = Least(v.remaining, level.quantity)
            /\ Q(i) = level.quantity /\ p(i) = level.price
        OBVIOUS
      <3> HIDE DEF v, level, fill, n, Q, p, g, f
      <3>4. LET u == Least(v.remaining, level.quantity)
            IN  /\ u \in 0 .. v.remaining /\ u <= level.quantity
                /\ Taken(v, level).remaining = v.remaining - u
                /\ Taken(v, level).cost = v.cost + u * level.price
                /\ Taken(v, level).remaining > 0 => u = level.quantity
        BY <3>2, TakenType
      <3> QED BY <3>2, <3>3, <3>4 DEF v
    <2> HIDE DEF fill
    <2>3. w[i - 1].remaining \in Nat /\ fill \in Nat /\ p(i) \in Nat
      BY <1>1, <1>3, <2>1, <2>2
    <2>4. g[i] = fill
      BY <2>2, <2>3
    <2>5. f[i] = fill * p(i) /\ fill * p(i) \in Nat
      BY <2>3, <2>4
    <2> QED BY <2>2, <2>3, <2>4, <2>5
  <1>5. \A i \in 1 .. n : g[i] \in Int /\ f[i] \in Int
    BY <1>4
  <1> HIDE DEF g, f
  <1> DEFINE Holds(k) ==
                 /\ w[k].remaining = quantity - SumFunctionOnSet(g, 1 .. k)
                 /\ w[k].cost = SumFunctionOnSet(f, 1 .. k)
                 /\ w[k].remaining <= quantity
                 /\ w[k].remaining > 0 => \A i \in 1 .. k : g[i] = Q(i)
             P == {k \in Nat : k <= n => Holds(k)}
  <1>6. 0 \in P
    <2>1. 1 .. 0 = {}
      OBVIOUS
    <2>2. Holds(0)
      BY <1>2, <2>1, SumOfNone
    <2> QED BY <2>2
  <1>7. ASSUME NEW k \in P PROVE k + 1 \in P
    <2> SUFFICES ASSUME k + 1 <= n PROVE Holds(k + 1)
      OBVIOUS
    <2>1. /\ k \in Nat /\ k + 1 \in 1 .. n /\ (k + 1) - 1 = k /\ k \in 0 .. n
          /\ 1 .. k + 1 = (1 .. k) \cup {k + 1} /\ k + 1 \notin 1 .. k
          /\ 1 .. k \subseteq 1 .. n
      BY <1>1
    <2>2. IsFiniteSet(1 .. k)
      BY <2>1, FS_Interval
    <2>3. Holds(k)
      BY <1>1, <2>1
    <2> HIDE DEF P
    <2>4. SumFunctionOnSet(g, 1 .. k + 1) = g[k + 1] + SumFunctionOnSet(g, 1 .. k)
      BY <1>5, <2>1, <2>2, SumWith
    <2>5. SumFunctionOnSet(f, 1 .. k + 1) = f[k + 1] + SumFunctionOnSet(f, 1 .. k)
      BY <1>5, <2>1, <2>2, SumWith
    <2>6. SumFunctionOnSet(g, 1 .. k) \in Int /\ SumFunctionOnSet(f, 1 .. k) \in Int
      BY <1>5, <2>1, <2>2, SumType
    <2>7. /\ g[k + 1] \in Nat /\ f[k + 1] \in Nat
          /\ w[k + 1].remaining = w[k].remaining - g[k + 1]
          /\ w[k + 1].cost = w[k].cost + f[k + 1]
          /\ w[k + 1].remaining > 0 => g[k + 1] = Q(k + 1)
          /\ w[k].remaining \in Nat /\ w[k].cost \in Nat
      BY <1>3, <1>4, <2>1
    <2>8. w[k + 1].remaining = quantity - SumFunctionOnSet(g, 1 .. k + 1)
      BY <2>3, <2>4, <2>6, <2>7
    <2>9. w[k + 1].cost = SumFunctionOnSet(f, 1 .. k + 1)
      BY <2>3, <2>5, <2>6, <2>7
    <2>10. w[k + 1].remaining <= quantity
      BY <2>3, <2>7
    <2>11. w[k + 1].remaining > 0 => \A i \in 1 .. k + 1 : g[i] = Q(i)
      BY <2>1, <2>3, <2>7
    <2> QED BY <2>8, <2>9, <2>10, <2>11
  <1>8. ASSUME NEW k \in 0 .. n PROVE Holds(k)
    <2>1. P \in SUBSET Nat
      OBVIOUS
    <2>2. P = Nat
      <3> HIDE DEF P
      <3> QED BY <1>6, <1>7, <2>1, NumberInduction
    <2>3. k \in Nat /\ k <= n
      BY <1>1
    <2> HIDE DEF Holds
    <2> QED BY <2>2, <2>3
  <1>9. n \in 0 .. n
    BY <1>1
  <1>10. g \in [1 .. n -> 0 .. quantity]
    <2>1. \A i \in 1 .. n : i - 1 \in 0 .. n
      BY <1>1
    <2>2. \A i \in 1 .. n : g[i] \in 0 .. quantity
      <3> TAKE i \in 1 .. n
      <3>1. i - 1 \in 0 .. n
        BY <2>1
      <3>2. g[i] \in Nat /\ g[i] <= w[i - 1].remaining
        BY <1>4
      <3>3. w[i - 1].remaining <= quantity /\ w[i - 1].remaining \in Nat
        BY <1>3, <1>8, <3>1
      <3> QED BY <3>2, <3>3
    <2>3. g = [i \in 1 .. n |-> g[i]]
      BY DEF g
    <2> QED BY <2>2, <2>3
  <1>11. Walk(levels, quantity).remaining = quantity - SumFunction(g)
    BY <1>2, <1>8, <1>9, <1>10, SumIsOnDomain
  <1>12. Walk(levels, quantity).cost = Value(levels, g)
    <2>1. f = [i \in DOMAIN levels |-> g[i] * levels[i].price] /\ DOMAIN f = 1 .. n
      BY <1>1 DEF f
    <2> QED BY <1>2, <1>8, <1>9, <2>1, SumIsOnDomain DEF Value
  <1>13. ASSUME NEW i \in 1 .. n, NEW j \in 1 .. n, i < j, g[j] > 0
         PROVE  g[i] = Q(i)
    <2>1. j - 1 \in 0 .. n /\ i \in 1 .. j - 1
      BY <1>1, <1>13
    <2>2. w[j - 1].remaining > 0
      BY <1>3, <1>4, <1>13, <2>1
    <2> QED BY <1>8, <2>1, <2>2
  <1>14. Greedy(levels, quantity, g)
    BY <1>1, <1>2, <1>4, <1>8, <1>9, <1>10, <1>11, <1>12, <1>13 DEF Greedy
  <1> QED BY <1>2, <1>9, <1>14

LEMMA DepthType ==
    ASSUME NEW levels \in Seq(Levels)
    PROVE  Depth(levels) \in Nat
  <1> DEFINE S == DOMAIN levels
             q == [i \in S |-> levels[i].quantity]
  <1>1. IsFiniteSet(S) /\ \A i \in S : q[i] \in Nat
    BY LevelsOf
  <1>2. SumFunctionOnSet(q, S) \in Nat
    <2> HIDE DEF q, S
    <2> QED BY <1>1, SumOfNaturals
  <1> QED BY <1>2, SumIsOnDomain DEF Depth

\* A quantity is filled when the levels have as much.
LEMMA FillableOf ==
    ASSUME NEW levels \in Seq(Levels), NEW quantity \in Nat
    PROVE  FullyFillable(Walk(levels, quantity)) <=> quantity <= Depth(levels)
  <1> DEFINE S == DOMAIN levels
             q == [i \in S |-> levels[i].quantity]
             remaining == Walk(levels, quantity).remaining
  <1>1. PICK g : Greedy(levels, quantity, g)
    BY GreedyExists
  <1>2. remaining \in Nat
    <2>1. Walk(levels, quantity) \in Walked
      BY GreedyExists
    <2> QED BY <2>1 DEF Walked
  <1>3. IsFiniteSet(S) /\ \A i \in S : q[i] \in Nat
    BY LevelsOf
  <1>4. /\ g \in [S -> Nat] /\ \A i \in S : g[i] <= q[i]
        /\ remaining = quantity - SumFunction(g)
        /\ remaining > 0 => \A i \in S : g[i] = q[i]
    BY <1>1 DEF Greedy
  <1>5. Depth(levels) = SumFunctionOnSet(q, S) /\ SumFunction(g) = SumFunctionOnSet(g, S)
    <2>1. DOMAIN q = S /\ DOMAIN g = S
      BY <1>4
    <2> QED BY <2>1, SumIsOnDomain DEF Depth
  <1> HIDE DEF q, S, remaining
  <1>6. SumFunctionOnSet(q, S) \in Int /\ SumFunctionOnSet(g, S) \in Int
    BY <1>3, <1>4, SumType
  <1>7. SumFunctionOnSet(g, S) <= SumFunctionOnSet(q, S)
    BY <1>3, <1>4, SumMonotone
  <1>8. CASE remaining > 0
    <2>1. SumFunctionOnSet(g, S) = SumFunctionOnSet(q, S)
      BY <1>3, <1>4, <1>8, SumAgree
    <2> QED BY <1>4, <1>5, <1>6, <1>8, <2>1 DEF FullyFillable, remaining
  <1>9. CASE remaining = 0
    BY <1>4, <1>5, <1>6, <1>7, <1>9 DEF FullyFillable, remaining
  <1> QED BY <1>2, <1>8, <1>9

-----------------------------------------------------------------------------
(* The price that the last of a quantity is taken at *)

LEMMA Products == \A x, y \in Nat : x * y \in Nat
  OBVIOUS

\* A quantity that is more than another is worth no less than it is at a lower
\* price, and one that is less is worth no more than it is at a higher one.
LEMMA WorthOf ==
    ASSUME NEW a \in Nat, NEW g \in Nat, NEW p \in Nat, NEW c \in Nat,
           a > g => p >= c, a < g => p <= c
    PROVE  a * p - g * p >= c * (a - g)
  <1>1. CASE a >= g
    <2> DEFINE m == a - g
    <2>1. m \in Nat /\ a = g + m
      BY <1>1
    <2> HIDE DEF m
    <2>2. m = 0 \/ p >= c
      BY <2>1
    <2>3. a * p = g * p + m * p
      BY <2>1
    <2>4. m * p >= m * c
      <3>1. CASE m = 0
        BY <3>1
      <3>2. CASE p >= c
        <4> DEFINE d == p - c
        <4>1. d \in Nat /\ p = c + d
          BY <3>2
        <4> HIDE DEF d
        <4>2. m * p = m * c + m * d
          BY <2>1, <4>1
        <4>3. m * d \in Nat /\ m * c \in Nat
          BY <2>1, <4>1, Products
        <4> QED BY <4>2, <4>3
      <3> QED BY <2>2, <3>1, <3>2
    <2>5. m * p \in Nat /\ g * p \in Nat /\ m * c \in Nat
      BY <2>1, Products
    <2>6. c * (a - g) = m * c
      BY <2>1
    <2> QED BY <2>3, <2>4, <2>5, <2>6
  <1>2. CASE a < g
    <2> DEFINE m == g - a
               d == c - p
    <2>1. m \in Nat /\ g = a + m /\ d \in Nat /\ c = p + d
      BY <1>2
    <2> HIDE DEF m, d
    <2>2. g * p = a * p + m * p
      BY <2>1
    <2>3. m * c = m * p + m * d
      BY <2>1
    <2>4. m * p \in Nat /\ a * p \in Nat /\ m * c \in Nat /\ m * d \in Nat
      BY <2>1, Products
    <2>5. c * (a - g) = - (m * c)
      BY <2>1
    <2> QED BY <2>2, <2>3, <2>4, <2>5
  <1> QED BY <1>1, <1>2

\* The same of every allocation, at the price of the last level that a walk takes
\* from.  A side is in the order of its prices when Dearer is.
Ascending(levels) ==
    \A i, j \in DOMAIN levels : i < j => levels[i].price <= levels[j].price
Descending(levels) ==
    \A i, j \in DOMAIN levels : i < j => levels[i].price >= levels[j].price

Within(levels, a) ==
    a \in [DOMAIN levels -> Nat] /\ \A i \in DOMAIN levels : a[i] <= levels[i].quantity

\* There is a level such that the ones before it are used up and the ones after
\* it are not touched, if there is a level at all.
LEMMA LastLevel ==
    ASSUME NEW levels \in Seq(Levels), levels # <<>>, NEW quantity \in Nat,
           NEW g, Greedy(levels, quantity, g)
    PROVE  \E k \in DOMAIN levels : \A i \in DOMAIN levels :
               (i < k => g[i] = levels[i].quantity) /\ (i > k => g[i] = 0)
  <1> DEFINE T == {i \in DOMAIN levels : g[i] > 0}
  <1>1. /\ DOMAIN levels = 1 .. Len(levels) /\ Len(levels) \in Nat
        /\ IsFiniteSet(DOMAIN levels) /\ 1 \in DOMAIN levels
    <2>1. Len(levels) # 0
      OBVIOUS
    <2> QED BY <2>1, LevelsOf
  <1>2. /\ \A i \in DOMAIN levels : g[i] \in Nat
        /\ \A i, j \in DOMAIN levels : i < j /\ g[j] > 0 => g[i] = levels[i].quantity
    BY DEF Greedy
  <1>3. CASE T = {}
    <2>1. \A i \in DOMAIN levels : g[i] = 0 /\ ~(i < 1)
      BY <1>1, <1>2, <1>3
    <2> QED BY <1>1, <2>1
  <1>4. CASE T # {}
    <2>1. T \in SUBSET Int /\ IsFiniteSet(T)
      BY <1>1, FS_Subset
    <2> HIDE DEF T
    <2>2. PICK k \in T : \A i \in T : k >= i
      BY <1>4, <2>1, GreatestExists
    <2>3. k \in DOMAIN levels /\ g[k] > 0 /\ k \in Int
      BY <2>1 DEF T
    <2>4. ASSUME NEW i \in DOMAIN levels
          PROVE  (i < k => g[i] = levels[i].quantity) /\ (i > k => g[i] = 0)
      <3>1. i \in Int /\ g[i] \in Nat
        BY <1>1, <1>2
      <3>2. i < k => g[i] = levels[i].quantity
        BY <1>2, <2>3
      <3>3. i > k => i \notin T
        BY <2>2, <2>3, <3>1
      <3>4. i > k => g[i] = 0
        BY <3>1, <3>3 DEF T
      <3> QED BY <3>2, <3>4
    <2> QED BY <2>3, <2>4
  <1> QED BY <1>3, <1>4

\* The sums of an allocation.
LEMMA SumsOf ==
    ASSUME NEW levels \in Seq(Levels), NEW a, Within(levels, a)
    PROVE  LET S == DOMAIN levels
               v == [i \in S |-> a[i] * levels[i].price]
           IN  /\ SumFunction(a) = SumFunctionOnSet(a, S)
               /\ Value(levels, a) = SumFunctionOnSet(v, S)
               /\ SumFunction(a) \in Nat /\ Value(levels, a) \in Nat
               /\ \A i \in S : a[i] \in Nat /\ v[i] \in Nat
  <1> DEFINE S == DOMAIN levels
             v == [i \in S |-> a[i] * levels[i].price]
  <1>1. IsFiniteSet(S) /\ \A i \in S : levels[i].price \in Nat
    BY LevelsOf
  <1>2. DOMAIN a = S /\ \A i \in S : a[i] \in Nat
    BY DEF Within
  <1>3. DOMAIN v = S /\ \A i \in S : v[i] \in Nat
    BY <1>1, <1>2, Products
  <1>4. Value(levels, a) = SumFunction(v)
    BY DEF Value
  <1> HIDE DEF S, v
  <1>5. SumFunctionOnSet(a, S) \in Nat /\ SumFunctionOnSet(v, S) \in Nat
    BY <1>1, <1>2, <1>3, SumOfNaturals
  <1>6. SumFunction(a) = SumFunctionOnSet(a, S) /\ SumFunction(v) = SumFunctionOnSet(v, S)
    BY <1>2, <1>3, SumIsOnDomain
  <1> QED BY <1>2, <1>3, <1>4, <1>5, <1>6 DEF S, v

\* What is true of a walk that fills its quantity.
LEMMA FilledOf ==
    ASSUME NEW levels \in Seq(Levels), NEW quantity \in Nat,
           quantity <= Depth(levels), NEW g, Greedy(levels, quantity, g)
    PROVE  /\ Within(levels, g) /\ SumFunction(g) = quantity
           /\ Walk(levels, quantity).cost = Value(levels, g)
           /\ Walk(levels, quantity).cost \in Nat
  <1>1. Within(levels, g)
    BY DEF Greedy, Within
  <1>2. Walk(levels, quantity).remaining = 0
    BY FillableOf DEF FullyFillable
  <1>3. SumFunction(g) \in Nat /\ Value(levels, g) \in Nat
    BY <1>1, SumsOf
  <1>4. quantity - SumFunction(g) = 0 /\ Walk(levels, quantity).cost = Value(levels, g)
    BY <1>2 DEF Greedy
  <1> QED BY <1>1, <1>3, <1>4

LEMMA WorthOfAll ==
    ASSUME NEW levels \in Seq(Levels), NEW a, NEW g, Within(levels, a), Within(levels, g),
           NEW c \in Nat,
           \A i \in DOMAIN levels : /\ a[i] > g[i] => levels[i].price >= c
                                    /\ a[i] < g[i] => levels[i].price <= c
    PROVE  Value(levels, a) - Value(levels, g) >= c * (SumFunction(a) - SumFunction(g))
  <1> DEFINE S == DOMAIN levels
             v == [i \in S |-> a[i] * levels[i].price]
             w == [i \in S |-> g[i] * levels[i].price]
  <1>1. /\ SumFunction(a) = SumFunctionOnSet(a, S)
        /\ Value(levels, a) = SumFunctionOnSet(v, S)
        /\ \A i \in S : a[i] \in Nat /\ v[i] \in Nat
    BY SumsOf
  <1>2. /\ SumFunction(g) = SumFunctionOnSet(g, S)
        /\ Value(levels, g) = SumFunctionOnSet(w, S)
        /\ \A i \in S : g[i] \in Nat /\ w[i] \in Nat
    BY SumsOf
  <1>3. IsFiniteSet(S) /\ \A i \in S : levels[i].price \in Nat
    BY LevelsOf
  <1>4. Outweighs(S, c, v, w, a, g)
    <2> SUFFICES \A i \in S : v[i] - w[i] >= c * (a[i] - g[i])
      BY DEF Outweighs
    <2> TAKE i \in S
    <2>1. v[i] = a[i] * levels[i].price /\ w[i] = g[i] * levels[i].price
      OBVIOUS
    <2>2. a[i] * levels[i].price - g[i] * levels[i].price >= c * (a[i] - g[i])
      <3> DEFINE x == a[i]
                 y == g[i]
                 p == levels[i].price
      <3>1. x \in Nat /\ y \in Nat /\ p \in Nat /\ (x > y => p >= c) /\ (x < y => p <= c)
        BY <1>1, <1>2, <1>3
      <3> HIDE DEF x, y, p
      <3>2. x * p - y * p >= c * (x - y)
        BY <3>1, WorthOf
      <3> QED BY <3>2 DEF x, y, p
    <2> HIDE DEF v, w
    <2> QED BY <2>1, <2>2
  <1>5. \A i \in S : v[i] \in Int /\ w[i] \in Int /\ a[i] \in Int /\ g[i] \in Int
    BY <1>1, <1>2
  <1> HIDE DEF v, w, S
  <1>6. SumFunctionOnSet(v, S) - SumFunctionOnSet(w, S)
            >= c * (SumFunctionOnSet(a, S) - SumFunctionOnSet(g, S))
    BY <1>3, <1>4, <1>5, SumsOrdered
  <1> QED BY <1>1, <1>2, <1>6

\* Asks: what any allocation costs more than the walk does is at least the price
\* of the walk's last level for what it takes more.
LEMMA AskPrice ==
    ASSUME NEW levels \in Seq(Levels), Ascending(levels),
           NEW quantity \in Nat, quantity <= Depth(levels)
    PROVE  \E c \in Nat : \A a : Within(levels, a) =>
               Value(levels, a) - Walk(levels, quantity).cost
                   >= c * (SumFunction(a) - quantity)
  <1>1. PICK g : Greedy(levels, quantity, g)
    BY GreedyExists
  <1>2. /\ Within(levels, g) /\ SumFunction(g) = quantity
        /\ Walk(levels, quantity).cost = Value(levels, g)
    BY <1>1, FilledOf
  <1>3. PICK c \in Nat : \A i \in DOMAIN levels :
            /\ g[i] < levels[i].quantity => levels[i].price >= c
            /\ g[i] > 0 => levels[i].price <= c
    <2>1. CASE levels = <<>>
      <3>1. \A i \in DOMAIN levels : FALSE
        BY <2>1
      <3> QED BY <3>1
    <2>2. CASE levels # <<>>
      <3>1. PICK k \in DOMAIN levels : \A i \in DOMAIN levels :
                (i < k => g[i] = levels[i].quantity) /\ (i > k => g[i] = 0)
        BY <1>1, <2>2, LastLevel
      <3>2. ASSUME NEW i \in DOMAIN levels
            PROVE  /\ g[i] < levels[i].quantity => levels[i].price >= levels[k].price
                   /\ g[i] > 0 => levels[i].price <= levels[k].price
        <4>1. i \in Int /\ k \in Int /\ levels[i].price \in Nat /\ levels[i].quantity \in Nat
          BY LevelsOf
        <4>2. g[i] < levels[i].quantity => ~(i < k)
          BY <3>1, <4>1
        <4>3. g[i] > 0 => ~(i > k)
          BY <3>1
        <4>4. i < k => levels[i].price <= levels[k].price
          BY DEF Ascending
        <4>5. k < i => levels[k].price <= levels[i].price
          BY DEF Ascending
        <4> QED BY <4>1, <4>2, <4>3, <4>4, <4>5
      <3>3. levels[k].price \in Nat
        BY LevelsOf
      <3> QED BY <3>2, <3>3
    <2> QED BY <2>1, <2>2
  <1>4. ASSUME NEW a, Within(levels, a)
        PROVE  Value(levels, a) - Value(levels, g) >= c * (SumFunction(a) - SumFunction(g))
    <2>1. \A i \in DOMAIN levels : /\ a[i] \in Nat /\ g[i] \in Nat /\ levels[i].quantity \in Nat
                                   /\ a[i] <= levels[i].quantity
      BY <1>2, <1>4, LevelsOf DEF Within
    <2>2. \A i \in DOMAIN levels : /\ a[i] > g[i] => levels[i].price >= c
                                   /\ a[i] < g[i] => levels[i].price <= c
      BY <1>3, <2>1
    <2> QED BY <1>2, <1>4, <2>2, WorthOfAll
  <1> QED BY <1>2, <1>4

\* Bids: what the walk brings more than any allocation is at least the price of
\* its last level for what it sells more.
LEMMA BidPrice ==
    ASSUME NEW levels \in Seq(Levels), Descending(levels),
           NEW quantity \in Nat, quantity <= Depth(levels)
    PROVE  \E c \in Nat : \A a : Within(levels, a) =>
               Walk(levels, quantity).cost - Value(levels, a)
                   >= c * (quantity - SumFunction(a))
  <1>1. PICK g : Greedy(levels, quantity, g)
    BY GreedyExists
  <1>2. /\ Within(levels, g) /\ SumFunction(g) = quantity
        /\ Walk(levels, quantity).cost = Value(levels, g)
    BY <1>1, FilledOf
  <1>3. PICK c \in Nat : \A i \in DOMAIN levels :
            /\ g[i] < levels[i].quantity => levels[i].price <= c
            /\ g[i] > 0 => levels[i].price >= c
    <2>1. CASE levels = <<>>
      <3>1. \A i \in DOMAIN levels : FALSE
        BY <2>1
      <3> QED BY <3>1
    <2>2. CASE levels # <<>>
      <3>1. PICK k \in DOMAIN levels : \A i \in DOMAIN levels :
                (i < k => g[i] = levels[i].quantity) /\ (i > k => g[i] = 0)
        BY <1>1, <2>2, LastLevel
      <3>2. ASSUME NEW i \in DOMAIN levels
            PROVE  /\ g[i] < levels[i].quantity => levels[i].price <= levels[k].price
                   /\ g[i] > 0 => levels[i].price >= levels[k].price
        <4>1. i \in Int /\ k \in Int /\ levels[i].price \in Nat /\ levels[i].quantity \in Nat
          BY LevelsOf
        <4>2. g[i] < levels[i].quantity => ~(i < k)
          BY <3>1, <4>1
        <4>3. g[i] > 0 => ~(i > k)
          BY <3>1
        <4>4. i < k => levels[i].price >= levels[k].price
          BY DEF Descending
        <4>5. k < i => levels[k].price >= levels[i].price
          BY DEF Descending
        <4> QED BY <4>1, <4>2, <4>3, <4>4, <4>5
      <3>3. levels[k].price \in Nat
        BY LevelsOf
      <3> QED BY <3>2, <3>3
    <2> QED BY <2>1, <2>2
  <1>4. ASSUME NEW a, Within(levels, a)
        PROVE  Value(levels, g) - Value(levels, a) >= c * (SumFunction(g) - SumFunction(a))
    <2>1. \A i \in DOMAIN levels : /\ a[i] \in Nat /\ g[i] \in Nat /\ levels[i].quantity \in Nat
                                   /\ a[i] <= levels[i].quantity
      BY <1>2, <1>4, LevelsOf DEF Within
    <2>2. \A i \in DOMAIN levels : /\ g[i] > a[i] => levels[i].price >= c
                                   /\ g[i] < a[i] => levels[i].price <= c
      BY <1>3, <2>1
    <2> QED BY <1>2, <1>4, <2>2, WorthOfAll
  <1> QED BY <1>2, <1>4

-----------------------------------------------------------------------------
(* A walk is the best way to take its quantity, and its average gets worse *)

LEMMA AllocationOf ==
    ASSUME NEW levels \in Seq(Levels), NEW quantity \in Nat,
           NEW a \in Allocations(levels, quantity)
    PROVE  Within(levels, a) /\ SumFunction(a) = quantity /\ Value(levels, a) \in Nat
  <1>1. /\ a \in [DOMAIN levels -> 0 .. quantity] /\ SumFunction(a) = quantity
        /\ \A i \in DOMAIN levels : a[i] <= levels[i].quantity
    BY DEF Allocations
  <1>2. Within(levels, a)
    BY <1>1 DEF Within
  <1> QED BY <1>1, <1>2, SumsOf

LEMMA WalkIsAllocation ==
    ASSUME NEW levels \in Seq(Levels), NEW quantity \in Nat, quantity <= Depth(levels)
    PROVE  \E a \in Allocations(levels, quantity) :
               Value(levels, a) = Walk(levels, quantity).cost
  <1>1. PICK g : Greedy(levels, quantity, g)
    BY GreedyExists
  <1>2. SumFunction(g) = quantity /\ Walk(levels, quantity).cost = Value(levels, g)
    BY <1>1, FilledOf
  <1>3. /\ g \in [DOMAIN levels -> 0 .. quantity]
        /\ \A i \in DOMAIN levels : g[i] <= levels[i].quantity
    BY <1>1 DEF Greedy
  <1>4. g \in Allocations(levels, quantity)
    BY <1>2, <1>3 DEF Allocations
  <1> QED BY <1>2, <1>4

LEMMA CostType ==
    ASSUME NEW levels \in Seq(Levels), NEW quantity \in Nat
    PROVE  Walk(levels, quantity).cost \in Nat
  <1>1. Walk(levels, quantity) \in Walked
    BY GreedyExists
  <1> QED BY <1>1 DEF Walked

LEMMA WalkIsCheapest ==
    ASSUME NEW levels \in Seq(Levels), Ascending(levels),
           NEW quantity \in Nat, quantity <= Depth(levels),
           NEW a \in Allocations(levels, quantity)
    PROVE  Value(levels, a) >= Walk(levels, quantity).cost
  <1>1. PICK c \in Nat : \A b : Within(levels, b) =>
            Value(levels, b) - Walk(levels, quantity).cost >= c * (SumFunction(b) - quantity)
    BY AskPrice
  <1>2. Within(levels, a) /\ SumFunction(a) = quantity /\ Value(levels, a) \in Nat
    BY AllocationOf
  <1>3. Value(levels, a) - Walk(levels, quantity).cost >= c * (quantity - quantity)
    BY <1>1, <1>2
  <1>4. c * (quantity - quantity) = 0 /\ Walk(levels, quantity).cost \in Nat
    BY CostType
  <1> QED BY <1>2, <1>3, <1>4

LEMMA WalkIsDearest ==
    ASSUME NEW levels \in Seq(Levels), Descending(levels),
           NEW quantity \in Nat, quantity <= Depth(levels),
           NEW a \in Allocations(levels, quantity)
    PROVE  Value(levels, a) <= Walk(levels, quantity).cost
  <1>1. PICK c \in Nat : \A b : Within(levels, b) =>
            Walk(levels, quantity).cost - Value(levels, b) >= c * (quantity - SumFunction(b))
    BY BidPrice
  <1>2. Within(levels, a) /\ SumFunction(a) = quantity /\ Value(levels, a) \in Nat
    BY AllocationOf
  <1>3. Walk(levels, quantity).cost - Value(levels, a) >= c * (quantity - quantity)
    BY <1>1, <1>2
  <1>4. c * (quantity - quantity) = 0 /\ Walk(levels, quantity).cost \in Nat
    BY CostType
  <1> QED BY <1>2, <1>3, <1>4

\* To take nothing costs nothing.
Nothing(levels) == [i \in DOMAIN levels |-> 0]

LEMMA NothingOf ==
    ASSUME NEW levels \in Seq(Levels)
    PROVE  /\ Within(levels, Nothing(levels)) /\ SumFunction(Nothing(levels)) = 0
           /\ Value(levels, Nothing(levels)) = 0
  <1> DEFINE S == DOMAIN levels
             z == Nothing(levels)
             v == [i \in S |-> z[i] * levels[i].price]
  <1>1. IsFiniteSet(S) /\ \A i \in S : levels[i].price \in Nat /\ levels[i].quantity \in Nat
    BY LevelsOf
  <1>2. z \in [S -> Nat] /\ \A i \in S : z[i] = 0
    BY DEF Nothing
  <1> HIDE DEF z
  <1>3. DOMAIN v = S /\ DOMAIN z = S /\ \A i \in S : v[i] = 0
    BY <1>1, <1>2
  <1>4. Cardinality(S) \in Nat
    BY <1>1, FS_CardinalityType
  <1>5. Within(levels, z)
    BY <1>1, <1>2 DEF Within
  <1>6. Value(levels, z) = SumFunction(v)
    BY DEF Value
  <1> HIDE DEF S, v
  <1>7. SumFunctionOnSet(z, S) = Cardinality(S) * 0
    BY <1>1, <1>2, SumOfConstant
  <1>8. SumFunctionOnSet(v, S) = Cardinality(S) * 0
    BY <1>1, <1>3, SumOfConstant
  <1>9. SumFunction(z) = 0 /\ SumFunction(v) = 0
    BY <1>3, <1>4, <1>7, <1>8, SumIsOnDomain
  <1> QED BY <1>5, <1>6, <1>9 DEF z

\* What more costs at least c each, and the first cost at most c each.
LEMMA AverageRises ==
    ASSUME NEW x \in Nat, NEW y \in Nat, NEW c \in Nat, NEW q \in Nat, NEW d \in Nat,
           y >= x + c * d, x <= c * q
    PROVE  y * q >= x * (q + d)
  <1> DEFINE e == y - (x + c * d)
             r == c * q - x
  <1>1. c * d \in Nat /\ c * q \in Nat
    BY Products
  <1>2. e \in Nat /\ y = x + c * d + e /\ r \in Nat /\ c * q = x + r
    BY <1>1
  <1> HIDE DEF e, r
  <1>3. y * q = x * q + (c * d) * q + e * q
    BY <1>2
  <1>4. (c * d) * q = (c * q) * d
    OBVIOUS
  <1>5. (c * q) * d = x * d + r * d
    BY <1>2
  <1>6. x * (q + d) = x * q + x * d
    OBVIOUS
  <1>7. x * q \in Nat /\ x * d \in Nat /\ e * q \in Nat /\ r * d \in Nat
    BY <1>2, Products
  <1> QED BY <1>3, <1>4, <1>5, <1>6, <1>7

\* What more brought at most c each, and the first brought at least c each.
LEMMA AverageFalls ==
    ASSUME NEW x \in Nat, NEW y \in Nat, NEW c \in Nat, NEW q \in Nat, NEW d \in Nat,
           y <= x + c * d, x >= c * q
    PROVE  y * q <= x * (q + d)
  <1> DEFINE e == x + c * d - y
             r == x - c * q
  <1>1. c * d \in Nat /\ c * q \in Nat
    BY Products
  <1>2. e \in Nat /\ y + e = x + c * d /\ r \in Nat /\ x = c * q + r
    BY <1>1
  <1> HIDE DEF e, r
  <1>3. y * q + e * q = x * q + (c * d) * q
    <2>1. (y + e) * q = (x + c * d) * q
      BY <1>2
    <2> QED BY <1>1, <1>2, <2>1
  <1>4. (c * d) * q = (c * q) * d
    OBVIOUS
  <1>5. x * d = (c * q) * d + r * d
    BY <1>1, <1>2
  <1>6. x * (q + d) = x * q + x * d
    OBVIOUS
  <1>7. /\ x * q \in Nat /\ x * d \in Nat /\ e * q \in Nat /\ r * d \in Nat
        /\ y * q \in Nat /\ (c * q) * d \in Nat
    BY <1>1, <1>2, Products
  <1> QED BY <1>3, <1>4, <1>5, <1>6, <1>7

\* The average price of a quantity of asks is no less than that of a part of it.
LEMMA AskAverage ==
    ASSUME NEW levels \in Seq(Levels), Ascending(levels),
           NEW q \in Nat, NEW quantity \in Nat, q <= quantity, quantity <= Depth(levels)
    PROVE  Walk(levels, quantity).cost * q >= Walk(levels, q).cost * quantity
  <1> DEFINE x == Walk(levels, q).cost
             y == Walk(levels, quantity).cost
             d == quantity - q
  <1>1. d \in Nat /\ quantity = q + d /\ q <= Depth(levels)
    BY DepthType
  <1>2. x \in Nat /\ y \in Nat
    BY CostType
  <1>3. PICK c \in Nat : \A b : Within(levels, b) =>
            Value(levels, b) - x >= c * (SumFunction(b) - q)
    BY <1>1, AskPrice
  <1>4. PICK g : Greedy(levels, quantity, g)
    BY GreedyExists
  <1>5. Within(levels, g) /\ SumFunction(g) = quantity /\ y = Value(levels, g)
    BY <1>4, FilledOf
  <1> HIDE DEF x, y, d
  <1>6. y - x >= c * (quantity - q)
    BY <1>3, <1>5
  <1>7. 0 - x >= c * (0 - q)
    BY <1>3, NothingOf
  <1>8. quantity - q = d /\ c * (0 - q) = -(c * q) /\ c * q \in Nat /\ c * d \in Nat
    BY <1>1, Products
  <1>9. y >= x + c * d /\ x <= c * q
    BY <1>2, <1>6, <1>7, <1>8
  <1>10. y * q >= x * (q + d)
    BY <1>1, <1>2, <1>9, AverageRises
  <1> QED BY <1>1, <1>10 DEF x, y

\* The average price of a quantity of bids is no more than that of a part of it.
LEMMA BidAverage ==
    ASSUME NEW levels \in Seq(Levels), Descending(levels),
           NEW q \in Nat, NEW quantity \in Nat, q <= quantity, quantity <= Depth(levels)
    PROVE  Walk(levels, quantity).cost * q <= Walk(levels, q).cost * quantity
  <1> DEFINE x == Walk(levels, q).cost
             y == Walk(levels, quantity).cost
             d == quantity - q
  <1>1. d \in Nat /\ quantity = q + d /\ q <= Depth(levels)
    BY DepthType
  <1>2. x \in Nat /\ y \in Nat
    BY CostType
  <1>3. PICK c \in Nat : \A b : Within(levels, b) =>
            x - Value(levels, b) >= c * (q - SumFunction(b))
    BY <1>1, BidPrice
  <1>4. PICK g : Greedy(levels, quantity, g)
    BY GreedyExists
  <1>5. Within(levels, g) /\ SumFunction(g) = quantity /\ y = Value(levels, g)
    BY <1>4, FilledOf
  <1> HIDE DEF x, y, d
  <1>6. x - y >= c * (q - quantity)
    BY <1>3, <1>5
  <1>7. x - 0 >= c * (q - 0)
    BY <1>3, NothingOf
  <1>8. c * (q - quantity) = -(c * d) /\ c * (q - 0) = c * q /\ c * q \in Nat /\ c * d \in Nat
    BY <1>1, Products
  <1>9. y <= x + c * d /\ x >= c * q
    BY <1>2, <1>6, <1>7, <1>8
  <1>10. y * q <= x * (q + d)
    BY <1>1, <1>2, <1>9, AverageFalls
  <1> QED BY <1>1, <1>10 DEF x, y

LEMMA CostIsPositive ==
    ASSUME NEW levels \in Seq(Levels), Ascending(levels),
           levels # <<>>, Head(levels).price > 0,
           NEW quantity \in Nat, quantity > 0, quantity <= Depth(levels)
    PROVE  Walk(levels, quantity).cost > 0
  <1> DEFINE S == DOMAIN levels
  <1>1. PICK g : Greedy(levels, quantity, g)
    BY GreedyExists
  <1>2. Within(levels, g) /\ SumFunction(g) = quantity
        /\ Walk(levels, quantity).cost = Value(levels, g)
    BY <1>1, FilledOf
  <1> DEFINE v == [i \in S |-> g[i] * levels[i].price]
  <1>3. /\ SumFunction(g) = SumFunctionOnSet(g, S)
        /\ Value(levels, g) = SumFunctionOnSet(v, S)
        /\ SumFunction(g) \in Nat /\ Value(levels, g) \in Nat
        /\ \A i \in S : g[i] \in Nat /\ v[i] \in Nat
    BY <1>2, SumsOf
  <1>4. /\ IsFiniteSet(S) /\ S = 1 .. Len(levels) /\ Len(levels) \in Nat
        /\ \A i \in S : levels[i].price \in Nat
    BY LevelsOf
  <1>5. \A i \in S : levels[i].price > 0
    <2> TAKE i \in S
    <2>1. Len(levels) # 0 /\ Head(levels) = levels[1]
      OBVIOUS
    <2>2. 1 \in S /\ (i = 1 \/ 1 < i)
      BY <1>4, <2>1
    <2>3. levels[1].price <= levels[i].price \/ i = 1
      BY <2>2 DEF Ascending
    <2> QED BY <1>4, <2>1, <2>2, <2>3
  <1>6. \A i \in S : g[i] \in Int /\ v[i] \in Int /\ g[i] <= v[i]
    <2> TAKE i \in S
    <2>1. \A x \in Nat, p \in Nat : p > 0 => x * p \in Nat /\ x <= x * p
      OBVIOUS
    <2>2. v[i] = g[i] * levels[i].price
      OBVIOUS
    <2> HIDE DEF v
    <2> QED BY <1>3, <1>4, <1>5, <2>1, <2>2
  <1> HIDE DEF v, S
  <1>7. SumFunctionOnSet(g, S) <= SumFunctionOnSet(v, S)
    BY <1>4, <1>6, SumMonotone
  <1> QED BY <1>2, <1>3, <1>7

-----------------------------------------------------------------------------
(* What clears *)

SortedSides(buy_book, sell_book) ==
    /\ buy_book.asks \in Seq(Levels) /\ Ascending(buy_book.asks)
    /\ sell_book.bids \in Seq(Levels) /\ Descending(sell_book.bids)

LEMMA ClearsOf ==
    ASSUME NEW cost \in Nat, NEW proceeds \in Nat, NEW rate \in Nat
    PROVE  Clears(cost, proceeds, rate)
               <=> proceeds * Unit >= (Unit + rate + MinNet) * cost
  <1>1. Unit \in Nat /\ MinNet \in Nat
    BY DepthConstants
  <1>2. /\ (proceeds - cost) * Unit = proceeds * Unit - Unit * cost
        /\ (Unit + rate + MinNet) * cost = Unit * cost + rate * cost + MinNet * cost
    BY <1>1
  <1>3. /\ proceeds * Unit \in Nat /\ Unit * cost \in Nat
        /\ rate * cost \in Nat /\ MinNet * cost \in Nat
    BY <1>1, Products
  <1> QED BY <1>2, <1>3 DEF Clears, NetOf

LEMMA Scaled == \A x, y, m \in Nat : x >= y => x * m >= y * m
  <1> TAKE x, y, m \in Nat
  <1> HAVE x >= y
  <1> DEFINE d == x - y
  <1>1. d \in Nat /\ x = y + d
    OBVIOUS
  <1> HIDE DEF d
  <1>2. x * m = y * m + d * m /\ d * m \in Nat /\ y * m \in Nat
    BY <1>1, Products
  <1> QED BY <1>2

LEMMA Unscaled == \A x, y, m \in Nat : m > 0 /\ x * m >= y * m => x >= y
  <1> TAKE x, y, m \in Nat
  <1> HAVE m > 0 /\ x * m >= y * m
  <1> SUFFICES ASSUME y > x PROVE FALSE
    OBVIOUS
  <1> DEFINE d == y - x
  <1>1. d \in Nat /\ d > 0 /\ y = x + d
    OBVIOUS
  <1> HIDE DEF d
  <1>2. y * m = x * m + d * m /\ d * m \in Nat /\ x * m \in Nat
    BY <1>1, Products
  <1>3. d * m > 0
    BY <1>1
  <1> QED BY <1>2, <1>3

\* With the averages of a part no worse, it clears when the whole does.
LEMMA PartClearsToo ==
    ASSUME NEW c \in Nat, NEW s \in Nat, NEW x \in Nat, NEW y \in Nat,
           NEW q \in Nat, NEW w \in Nat, w > 0, NEW u \in Nat, NEW k \in Nat,
           s * u >= k * c, c * q >= x * w, s * q <= y * w
    PROVE  y * u >= k * x
  <1>1. (y * w) * u >= (s * q) * u
    BY Products, Scaled
  <1>2. (s * u) * q >= (k * c) * q
    BY Products, Scaled
  <1>3. (c * q) * k >= (x * w) * k
    BY Products, Scaled
  <1>4. /\ (y * w) * u = (y * u) * w /\ (s * q) * u = (s * u) * q
        /\ (k * c) * q = (c * q) * k /\ (x * w) * k = (k * x) * w
    OBVIOUS
  <1>5. /\ (y * u) * w \in Nat /\ (s * u) * q \in Nat /\ (c * q) * k \in Nat
        /\ (k * x) * w \in Nat /\ y * u \in Nat /\ k * x \in Nat
    BY Products
  <1>6. (y * u) * w >= (k * x) * w
    BY <1>1, <1>2, <1>3, <1>4, <1>5
  <1> QED BY <1>5, <1>6, Unscaled

LEMMA PartClears ==
    ASSUME NEW buy_book, NEW sell_book, SortedSides(buy_book, sell_book),
           NEW rate \in Nat, TopClears(buy_book, sell_book, rate),
           NEW q \in Nat, NEW quantity \in Nat, q > 0, q <= quantity,
           QuantityClears(buy_book, sell_book, rate, quantity)
    PROVE  QuantityClears(buy_book, sell_book, rate, q)
  <1> DEFINE asks == buy_book.asks
             bids == sell_book.bids
             c == Walk(asks, quantity).cost
             s == Walk(bids, quantity).cost
             x == Walk(asks, q).cost
             y == Walk(bids, q).cost
             k == Unit + rate + MinNet
  <1>1. /\ asks \in Seq(Levels) /\ Ascending(asks) /\ bids \in Seq(Levels) /\ Descending(bids)
        /\ asks # <<>> /\ Head(asks).price > 0
    BY DEF SortedSides, TopClears
  <1>2. /\ FullyFillable(Walk(asks, quantity)) /\ FullyFillable(Walk(bids, quantity))
        /\ Clears(c, s, rate)
    BY DEF QuantityClears, effective_buy_price, effective_sell_price
  <1>3. /\ c \in Nat /\ s \in Nat /\ x \in Nat /\ y \in Nat
        /\ k \in Nat /\ Unit \in Nat /\ quantity > 0
    BY <1>1, CostType, DepthConstants
  <1>4. quantity <= Depth(asks) /\ quantity <= Depth(bids)
    BY <1>1, <1>2, FillableOf
  <1>5. q <= Depth(asks) /\ q <= Depth(bids)
    BY <1>1, <1>4, DepthType
  <1>6. FullyFillable(Walk(asks, q)) /\ FullyFillable(Walk(bids, q))
    BY <1>1, <1>5, FillableOf
  <1>7. x > 0
    BY <1>1, <1>5, CostIsPositive
  <1>8. c * q >= x * quantity
    BY <1>1, <1>4, AskAverage
  <1>9. s * q <= y * quantity
    BY <1>1, <1>4, BidAverage
  <1>10. s * Unit >= k * c
    BY <1>2, <1>3, ClearsOf
  <1>11. y * Unit >= k * x
    <2> HIDE DEF c, s, x, y, k
    <2> QED BY <1>3, <1>8, <1>9, <1>10, PartClearsToo
  <1>12. Clears(x, y, rate)
    BY <1>3, <1>11, ClearsOf
  <1> QED BY <1>6, <1>7, <1>12 DEF QuantityClears, effective_buy_price, effective_sell_price

-----------------------------------------------------------------------------
(* The binary search *)

LEMMA DoublingsOf ==
    /\ Doublings[0] = 1
    /\ \A n \in Nat : Doublings[n + 1] = 2 * Doublings[n]
    /\ \A n \in Nat : Doublings[n] \in Nat \ {0}
  <1> DEFINE Doubles(f) == f = [n \in Nat |-> IF n = 0 THEN 1 ELSE 2 * f[n - 1]]
             step == [n \in Nat |-> [x \in Nat |-> 2 * x]]
  <1>1. step \in [Nat -> [Nat -> Nat]] /\ 1 \in Nat
    OBVIOUS
  <1>2. PICK f \in [Nat -> Nat] : Follows(f, 1, step)
    <2> HIDE DEF step
    <2> QED BY <1>1, NumberRecursion
  <1>3. Doubles(f)
    <2>1. \A n \in Nat : f[n] = IF n = 0 THEN 1 ELSE 2 * f[n - 1]
      <3> TAKE n \in Nat
      <3>1. CASE n = 0
        BY <1>2, <3>1 DEF Follows
      <3>2. CASE n # 0
        <4>1. n - 1 \in Nat /\ (n - 1) + 1 = n /\ f[n - 1] \in Nat
          BY <3>2
        <4>2. f[n] = step[n - 1][f[n - 1]]
          BY <1>2, <4>1 DEF Follows
        <4> QED BY <3>2, <4>1, <4>2
      <3> QED BY <3>1, <3>2
    <2> QED BY <2>1
  <1>4. Doublings = CHOOSE g : Doubles(g)
    BY DEF Doublings
  <1>5. Doubles(Doublings)
    <2> HIDE DEF Doubles
    <2> QED BY <1>3, <1>4
  <1>6. Doublings[0] = 1
    BY <1>5
  <1>7. ASSUME NEW n \in Nat PROVE Doublings[n + 1] = 2 * Doublings[n]
    <2>1. n + 1 \in Nat /\ n + 1 # 0 /\ (n + 1) - 1 = n
      OBVIOUS
    <2> QED BY <1>5, <2>1
  <1> DEFINE P == {n \in Nat : Doublings[n] \in Nat \ {0}}
  <1>8. P = Nat
    <2>1. 0 \in P
      BY <1>6
    <2>2. ASSUME NEW n \in P PROVE n + 1 \in P
      BY <1>7
    <2>3. P \in SUBSET Nat
      OBVIOUS
    <2> HIDE DEF P
    <2> QED BY <2>1, <2>2, <2>3, NumberInduction
  <1> QED BY <1>6, <1>7, <1>8

Ranges == [lo : Nat, hi : Nat]

LEMMA NarrowedType ==
    ASSUME NEW buy_book, NEW sell_book, NEW rate, NEW range \in Ranges
    PROVE  Narrowed(buy_book, sell_book, rate, range) \in Ranges
  <1> DEFINE mid == (range.lo + range.hi) \div 2
  <1>1. range.lo \in Nat /\ range.hi \in Nat
    BY DEF Ranges
  <1>2. mid \in Nat
    BY <1>1
  <1>3. /\ [range EXCEPT !.lo = mid] \in Ranges
        /\ [range EXCEPT !.hi = mid] \in Ranges
    BY <1>2 DEF Ranges
  <1> QED BY <1>3 DEF Narrowed

LEMMA SearchRecurs ==
    ASSUME NEW buy_book, NEW sell_book, NEW rate, NEW max_qty \in Nat
    PROVE  \E r \in [Nat -> Ranges] :
               /\ r[0] = [lo |-> 0, hi |-> max_qty]
               /\ \A n \in Nat : r[n + 1] = Narrowed(buy_book, sell_book, rate, r[n])
               /\ Search(buy_book, sell_book, rate, max_qty) = r[MaxIterations].lo
  <1> DEFINE start == [lo |-> 0, hi |-> max_qty]
             narrowed(x) == Narrowed(buy_book, sell_book, rate, x)
             step == [n \in Nat |-> [x \in Ranges |-> narrowed(x)]]
             Searches(f) == f = [n \in Nat |-> IF n = 0 THEN [lo |-> 0, hi |-> max_qty]
                                               ELSE narrowed(f[n - 1])]
  <1>1. \A x \in Ranges : narrowed(x) \in Ranges
    BY NarrowedType
  <1>2. start \in Ranges
    BY DEF Ranges
  <1>3. Search(buy_book, sell_book, rate, max_qty)
            = (CHOOSE g : Searches(g))[MaxIterations].lo
    BY DEF Search
  <1> HIDE DEF narrowed
  <1>4. step \in [Nat -> [Ranges -> Ranges]]
    BY <1>1
  <1>5. PICK f \in [Nat -> Ranges] : Follows(f, start, step)
    <2> HIDE DEF start, step
    <2> QED BY <1>2, <1>4, NumberRecursion
  <1>6. Searches(f)
    <2>1. \A n \in Nat : f[n] = IF n = 0 THEN start ELSE narrowed(f[n - 1])
      <3> TAKE n \in Nat
      <3>1. CASE n = 0
        BY <1>5, <3>1 DEF Follows
      <3>2. CASE n # 0
        <4>1. n - 1 \in Nat /\ (n - 1) + 1 = n /\ f[n - 1] \in Ranges
          BY <3>2
        <4>2. f[n] = step[n - 1][f[n - 1]]
          BY <1>5, <4>1 DEF Follows
        <4> QED BY <3>2, <4>1, <4>2
      <3> QED BY <3>1, <3>2
    <2> QED BY <2>1
  <1> DEFINE r == CHOOSE g : Searches(g)
  <1>7. Searches(r)
    <2> HIDE DEF Searches
    <2> QED BY <1>6
  <1> HIDE DEF r
  <1>8. r[0] = start
    BY <1>7
  <1>9. ASSUME NEW n \in Nat PROVE r[n + 1] = narrowed(r[n])
    <2>1. n + 1 \in Nat /\ n + 1 # 0 /\ (n + 1) - 1 = n
      OBVIOUS
    <2> QED BY <1>7, <2>1
  <1> DEFINE P == {n \in Nat : r[n] \in Ranges}
  <1>10. P = Nat
    <2>1. 0 \in P
      BY <1>2, <1>8
    <2>2. ASSUME NEW n \in P PROVE n + 1 \in P
      BY <1>1, <1>9
    <2>3. P \in SUBSET Nat
      OBVIOUS
    <2> HIDE DEF P
    <2> QED BY <2>1, <2>2, <2>3, NumberInduction
  <1>11. r \in [Nat -> Ranges]
    BY <1>7, <1>10
  <1> QED BY <1>3, <1>8, <1>9, <1>11 DEF r, narrowed

\* A range is final when the code leaves the loop with it.
Final(range) == (range.lo + range.hi) \div 2 < Epsilon \/ range.hi - range.lo < Epsilon

\* What is known of a range after so many rounds.
RangeOK(buy_book, sell_book, rate, max_qty, n, range) ==
    /\ range \in Ranges /\ range.lo <= range.hi /\ range.hi <= max_qty
    /\ range.lo = 0 \/ range.lo >= Epsilon
    /\ range.hi = max_qty \/ ~QuantityClears(buy_book, sell_book, rate, range.hi)
    /\ Final(range) \/ Doublings[n] * (range.hi - range.lo - 1) < max_qty

\* A half of the width that is left is less than it, by a factor of two.
LEMMA Halved ==
    ASSUME NEW a \in Nat \ {0}, NEW w \in Int, NEW v \in Int, NEW m \in Nat,
           a * (w - 1) < m, 2 * (v - 1) <= w - 1
    PROVE  (2 * a) * (v - 1) < m
  <1> DEFINE x == 2 * (v - 1)
             e == w - 1 - x
  <1>1. x \in Int /\ e \in Nat /\ w - 1 = x + e
    OBVIOUS
  <1>2. (2 * a) * (v - 1) = a * x
    OBVIOUS
  <1> HIDE DEF x, e
  <1>3. a * (w - 1) = a * x + a * e
    BY <1>1
  <1>4. a * e \in Nat /\ a * x \in Int
    BY <1>1, Products
  <1> QED BY <1>2, <1>3, <1>4

LEMMA RangeStep ==
    ASSUME NEW buy_book, NEW sell_book, NEW rate, NEW max_qty \in Nat, NEW n \in Nat,
           NEW range, RangeOK(buy_book, sell_book, rate, max_qty, n, range)
    PROVE  RangeOK(buy_book, sell_book, rate, max_qty, n + 1,
                   Narrowed(buy_book, sell_book, rate, range))
  <1> DEFINE mid == (range.lo + range.hi) \div 2
             lo == range.lo
             hi == range.hi
             next == Narrowed(buy_book, sell_book, rate, range)
             clears == QuantityClears(buy_book, sell_book, rate, mid)
  <1>1. /\ range \in Ranges /\ lo \in Nat /\ hi \in Nat /\ lo <= hi /\ hi <= max_qty
        /\ lo = 0 \/ lo >= Epsilon
        /\ hi = max_qty \/ ~QuantityClears(buy_book, sell_book, rate, hi)
        /\ Final(range) \/ Doublings[n] * (hi - lo - 1) < max_qty
        /\ Epsilon \in Nat
    BY DepthConstants DEF RangeOK, Ranges
  <1>2. next \in Ranges
    BY <1>1, NarrowedType
  <1>3. CASE Final(range)
    <2>1. next = range
      BY <1>3 DEF Narrowed, Final
    <2> QED BY <1>1, <1>3, <2>1 DEF RangeOK
  <1>4. CASE ~Final(range)
    <2>1. /\ mid \in Nat /\ mid >= Epsilon /\ lo <= mid /\ mid <= hi
          /\ 2 * (hi - mid - 1) <= hi - lo - 1 /\ 2 * (mid - lo - 1) <= hi - lo - 1
      BY <1>1, <1>4 DEF Final
    <2>2. next = IF clears THEN [range EXCEPT !.lo = mid] ELSE [range EXCEPT !.hi = mid]
      BY <1>4 DEF Narrowed, Final
    <2>3. /\ clears => next.lo = mid /\ next.hi = hi
          /\ ~clears => next.lo = lo /\ next.hi = mid
      BY <1>1, <2>2 DEF Ranges
    <2>4. Doublings[n + 1] = 2 * Doublings[n] /\ Doublings[n] \in Nat \ {0}
      BY DoublingsOf
    <2>5. Doublings[n] * (hi - lo - 1) < max_qty
      BY <1>1, <1>4
    <2> HIDE DEF mid, lo, hi, next, clears
    <2> DEFINE w == hi - lo
    <2>6. w \in Int /\ hi - mid \in Int /\ mid - lo \in Int
      BY <1>1, <2>1
    <2>7. Doublings[n] * (w - 1) < max_qty
      BY <2>5
    <2>8. 2 * (hi - mid - 1) <= w - 1 /\ 2 * (mid - lo - 1) <= w - 1
      BY <2>1
    <2> HIDE DEF w
    <2>9. (2 * Doublings[n]) * (hi - mid - 1) < max_qty
      <3> DEFINE v == hi - mid
      <3>1. v \in Int /\ 2 * (v - 1) <= w - 1
        BY <2>6, <2>8
      <3> HIDE DEF v
      <3>2. (2 * Doublings[n]) * (v - 1) < max_qty
        BY <2>4, <2>6, <2>7, <3>1, Halved
      <3> QED BY <3>2 DEF v
    <2>10. (2 * Doublings[n]) * (mid - lo - 1) < max_qty
      <3> DEFINE v == mid - lo
      <3>1. v \in Int /\ 2 * (v - 1) <= w - 1
        BY <2>6, <2>8
      <3> HIDE DEF v
      <3>2. (2 * Doublings[n]) * (v - 1) < max_qty
        BY <2>4, <2>6, <2>7, <3>1, Halved
      <3> QED BY <3>2 DEF v
    <2>11. Doublings[n + 1] * (next.hi - next.lo - 1) < max_qty
      BY <2>3, <2>4, <2>9, <2>10
    <2>12. /\ next.lo <= next.hi /\ next.hi <= max_qty
           /\ next.lo = 0 \/ next.lo >= Epsilon
      BY <1>1, <2>1, <2>3
    <2>13. next.hi = max_qty \/ ~QuantityClears(buy_book, sell_book, rate, next.hi)
      BY <1>1, <2>3 DEF clears
    <2> QED BY <1>2, <2>11, <2>12, <2>13 DEF RangeOK, next
  <1> QED BY <1>3, <1>4

\* The search ends with a range that is final or narrow, below which all clears
\* and above which nothing does.
LEMMA SearchEnds ==
    ASSUME NEW buy_book, NEW sell_book, NEW rate, NEW max_qty \in Nat
    PROVE  \E range : /\ RangeOK(buy_book, sell_book, rate, max_qty, MaxIterations, range)
                      /\ Search(buy_book, sell_book, rate, max_qty) = range.lo
  <1>1. PICK r \in [Nat -> Ranges] :
            /\ r[0] = [lo |-> 0, hi |-> max_qty]
            /\ \A n \in Nat : r[n + 1] = Narrowed(buy_book, sell_book, rate, r[n])
            /\ Search(buy_book, sell_book, rate, max_qty) = r[MaxIterations].lo
    BY SearchRecurs
  <1> DEFINE OK(n) == RangeOK(buy_book, sell_book, rate, max_qty, n, r[n])
             P == {n \in Nat : OK(n)}
  <1>2. OK(0)
    <2>1. r[0] \in Ranges /\ r[0].lo = 0 /\ r[0].hi = max_qty
      BY <1>1
    <2>2. Doublings[0] * (max_qty - 0 - 1) < max_qty
      BY DoublingsOf
    <2> QED BY <2>1, <2>2 DEF RangeOK
  <1>3. ASSUME NEW n \in Nat, OK(n) PROVE OK(n + 1)
    BY <1>1, <1>3, RangeStep
  <1> HIDE DEF OK
  <1>4. P = Nat
    <2>1. P \in SUBSET Nat /\ 0 \in P /\ \A n \in P : n + 1 \in P
      BY <1>2, <1>3
    <2> HIDE DEF P
    <2> QED BY <2>1, NumberInduction
  <1>5. MaxIterations \in Nat
    BY DepthConstants
  <1>6. OK(MaxIterations)
    BY <1>4, <1>5
  <1> QED BY <1>1, <1>6 DEF OK

LEMMA FoundOf ==
    ASSUME NEW buy_book, NEW sell_book, SortedSides(buy_book, sell_book), NEW rate \in Nat,
           max_arb_quantity(buy_book, sell_book, rate) > 0
    PROVE  LET found == max_arb_quantity(buy_book, sell_book, rate)
           IN  /\ found \in Nat
               /\ found <= Depth(buy_book.asks) /\ found <= Depth(sell_book.bids)
               /\ \A q \in Nat : Beyond(q, found, Depth(buy_book.asks)) =>
                      ~QuantityClears(buy_book, sell_book, rate, q)
  <1> DEFINE found == max_arb_quantity(buy_book, sell_book, rate)
             most == Least(Depth(buy_book.asks), Depth(sell_book.bids))
  <1>1. buy_book.asks \in Seq(Levels) /\ sell_book.bids \in Seq(Levels)
    BY DEF SortedSides
  <1>2. Depth(buy_book.asks) \in Nat /\ Depth(sell_book.bids) \in Nat
    BY <1>1, DepthType
  <1>3. /\ most \in Nat /\ most <= Depth(buy_book.asks) /\ most <= Depth(sell_book.bids)
        /\ most = Depth(buy_book.asks) \/ most = Depth(sell_book.bids)
    BY <1>2 DEF Least
  <1>4. /\ TopClears(buy_book, sell_book, rate)
        /\ found = Search(buy_book, sell_book, rate, most)
    <2>1. ~(0 > 0)
      OBVIOUS
    <2> QED BY <2>1 DEF max_arb_quantity
  <1> HIDE DEF most
  <1>5. PICK range : /\ RangeOK(buy_book, sell_book, rate, most, MaxIterations, range)
                     /\ found = range.lo
    BY <1>3, <1>4, SearchEnds
  <1> HIDE DEF found
  <1> DEFINE hi == range.hi
             power == Doublings[MaxIterations]
  <1>6. /\ found \in Nat /\ hi \in Nat /\ found <= hi /\ hi <= most
        /\ found = 0 \/ found >= Epsilon
        /\ hi = most \/ ~QuantityClears(buy_book, sell_book, rate, hi)
        /\ Final(range) \/ power * (hi - found - 1) < most
    BY <1>5 DEF RangeOK, Ranges
  <1>7. MaxIterations \in Nat /\ Epsilon \in Nat /\ power \in Nat \ {0}
    BY DepthConstants, DoublingsOf
  <1>8. found > 0
    BY DEF found
  <1>9. hi - found < Epsilon \/ power * (hi - found - 1) < most
    <2>1. found >= Epsilon /\ (found + hi) \div 2 >= Epsilon
      BY <1>6, <1>7, <1>8
    <2>2. Final(range) <=> (found + hi) \div 2 < Epsilon \/ hi - found < Epsilon
      BY <1>5 DEF Final
    <2> DEFINE mid == (found + hi) \div 2
    <2>3. mid \in Nat /\ mid >= Epsilon
      BY <1>6, <2>1
    <2> HIDE DEF mid
    <2>4. Final(range) => hi - found < Epsilon
      BY <1>7, <2>2, <2>3 DEF mid
    <2> QED BY <1>6, <2>4
  <1>10. ASSUME NEW q \in Nat, Beyond(q, found, Depth(buy_book.asks))
         PROVE  ~QuantityClears(buy_book, sell_book, rate, q)
    <2>1. q > found + Epsilon /\ (q - found - 1) * power >= Depth(buy_book.asks)
      BY <1>10 DEF Beyond
    <2>2. q > hi
      <3>1. CASE hi - found < Epsilon
        BY <1>6, <1>7, <2>1, <3>1
      <3>2. CASE power * (hi - found - 1) < most
        <4> SUFFICES ASSUME q <= hi PROVE FALSE
          BY <1>6
        <4> DEFINE x == hi - found - 1
                   y == q - found - 1
        <4>1. x \in Nat /\ y \in Nat /\ x >= y
          BY <1>6, <1>7, <2>1
        <4>2. power * x < most
          BY <3>2
        <4>3. y * power >= Depth(buy_book.asks)
          BY <2>1
        <4> HIDE DEF x, y, power
        <4>4. x * power >= y * power
          BY <1>7, <4>1, Scaled
        <4>5. x * power \in Nat /\ y * power \in Nat /\ power * x = x * power
          BY <1>7, <4>1, Products
        <4> QED BY <1>2, <1>3, <4>2, <4>3, <4>4, <4>5
      <3> QED BY <1>9, <3>1, <3>2
    <2> SUFFICES ASSUME QuantityClears(buy_book, sell_book, rate, q) PROVE FALSE
      OBVIOUS
    <2>3. q <= Depth(buy_book.asks) /\ q <= Depth(sell_book.bids)
      BY <1>1, FillableOf DEF QuantityClears, effective_buy_price, effective_sell_price
    <2>4. hi # most
      BY <1>2, <1>3, <1>6, <2>2, <2>3
    <2>5. hi > 0 /\ hi <= q
      BY <1>6, <1>8, <2>2
    <2>6. QuantityClears(buy_book, sell_book, rate, hi)
      <3> HIDE DEF hi
      <3> QED BY <1>4, <1>6, <2>5, PartClears
    <2> QED BY <1>6, <2>4, <2>6
  <1> QED BY <1>2, <1>3, <1>6, <1>10 DEF found
=============================================================================
