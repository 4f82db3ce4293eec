------------------------------ MODULE SumTheorems ------------------------------
(***************************************************************************)
(* Sums over finite sets, for the proofs about balances and profits:       *)
(* SumFunctionOnSet of Functions is a fold, a recursive function over the  *)
(* subsets of a set.  An induction here is over a set of sets or numbers,  *)
(* which is a value and not an operator: a set that is closed upwards is   *)
(* everything, since the rest would have a least element.                  *)
(***************************************************************************)
EXTENDS FiniteSets, Integers, Sequences, Functions, FiniteSetTheorems, WellFoundedInduction, TLAPS

-----------------------------------------------------------------------------
(* Induction *)

\* What holds of a set when it holds of its strict subsets holds of all.
LEMMA SubsetInduction ==
    ASSUME NEW S, IsFiniteSet(S), NEW P \in SUBSET SUBSET S,
           \A T \in SUBSET S :
               (\A U \in SUBSET S : U \subseteq T /\ U # T => U \in P) => T \in P
    PROVE  P = SUBSET S
  <1> DEFINE Rest == (SUBSET S) \ P
  <1> SUFFICES ASSUME Rest # {} PROVE FALSE
    OBVIOUS
  <1>1. IsWellFoundedOn(StrictSubsetOrdering(S), SUBSET S)
    <2>1. IsWellFoundedOn(StrictSubsetOrdering(S), FiniteSubsetsOf(S))
      BY FS_StrictSubsetOrderingWellFounded
    <2>2. FiniteSubsetsOf(S) = SUBSET S
      BY FS_FiniteSubsetsOfFinite
    <2> QED BY <2>1, <2>2
  <1>2. PICK T \in Rest : \A U \in Rest : <<U, T>> \notin StrictSubsetOrdering(S)
    <2>1. Rest \subseteq SUBSET S
      OBVIOUS
    <2> HIDE DEF Rest
    <2> QED BY <1>1, <2>1, WFMin
  <1>3. \A U \in SUBSET S : U \subseteq T /\ U # T => U \in P
    BY <1>2 DEF StrictSubsetOrdering
  <1> QED BY <1>2, <1>3

\* What holds of the empty set, and with one element more, holds of all.
LEMMA ElementInduction ==
    ASSUME NEW S, IsFiniteSet(S), NEW P \in SUBSET SUBSET S, {} \in P,
           \A T \in P, x \in S : x \notin T => T \cup {x} \in P
    PROVE  S \in P
  <1>1. ASSUME NEW T \in SUBSET S,
               \A U \in SUBSET S : U \subseteq T /\ U # T => U \in P
        PROVE  T \in P
    <2>1. CASE T = {}
      BY <2>1
    <2>2. CASE T # {}
      <3>1. PICK x \in T : TRUE
        BY <2>2
      <3>2. T \ {x} \in P /\ x \in S /\ T = (T \ {x}) \cup {x}
        BY <1>1, <3>1
      <3> QED BY <3>2
    <2> QED BY <2>1, <2>2
  <1>2. P = SUBSET S
    BY <1>1, SubsetInduction
  <1> QED BY <1>2

\* What holds of 0, and of the next number, holds of all.
LEMMA NumberInduction ==
    ASSUME NEW P \in SUBSET Nat, 0 \in P, \A n \in P : n + 1 \in P
    PROVE  P = Nat
  <1> DEFINE Rest == Nat \ P
  <1> SUFFICES ASSUME Rest # {} PROVE FALSE
    OBVIOUS
  <1>1. PICK n \in Rest : \A m \in Rest : <<m, n>> \notin OpToRel(<, Nat)
    <2>1. Rest \subseteq Nat
      OBVIOUS
    <2> HIDE DEF Rest
    <2> QED BY <2>1, NatLessThanWellFounded, WFMin
  <1>2. n \in Nat /\ n # 0 /\ n - 1 \in Nat
    OBVIOUS
  <1>3. <<n - 1, n>> \in OpToRel(<, Nat)
    BY <1>2 DEF OpToRel
  <1>4. n - 1 \in P
    BY <1>1, <1>2, <1>3
  <1> QED BY <1>2, <1>4

\* A function that starts at a value, and takes a step from each number to the
\* next; and one that does so for the first numbers.
Follows(f, start, step) ==
    f[0] = start /\ \A n \in Nat : f[n + 1] = step[n][f[n]]

Recurs(f, start, step, n) ==
    f[0] = start /\ \A m \in Nat : m < n => f[m + 1] = step[m][f[m]]

LEMMA NumberRecursion ==
    ASSUME NEW S, NEW start \in S, NEW step \in [Nat -> [S -> S]]
    PROVE  \E f \in [Nat -> S] : Follows(f, start, step)
  <1> DEFINE P == {n \in Nat : \E f \in [Nat -> S] : Recurs(f, start, step, n)}
             Q == {n \in Nat : \A k \in Nat : \A f, g \in [Nat -> S] :
                       n <= k /\ Recurs(f, start, step, n) /\ Recurs(g, start, step, k)
                       => f[n] = g[n]}
  <1>1. P = Nat
    <2>1. 0 \in P
      <3> DEFINE f == [m \in Nat |-> start]
      <3>1. f \in [Nat -> S] /\ Recurs(f, start, step, 0)
        BY DEF Recurs
      <3> QED BY <3>1
    <2>2. ASSUME NEW n \in P PROVE n + 1 \in P
      <3>1. PICK f \in [Nat -> S] : Recurs(f, start, step, n)
        OBVIOUS
      <3> DEFINE g == [f EXCEPT ![n + 1] = step[n][f[n]]]
      <3>2. n \in Nat /\ f[n] \in S /\ step[n][f[n]] \in S
        OBVIOUS
      <3>3. g \in [Nat -> S] /\ g[0] = start /\ g[n + 1] = step[n][f[n]]
            /\ \A m \in Nat : m <= n => g[m] = f[m]
        BY <3>1, <3>2 DEF Recurs
      <3> HIDE DEF g
      <3>4. ASSUME NEW m \in Nat, m < n + 1 PROVE g[m + 1] = step[m][g[m]]
        <4>1. CASE m = n
          BY <3>2, <3>3, <4>1
        <4>2. CASE m < n
          <5>1. m <= n /\ m + 1 <= n /\ m + 1 \in Nat
            BY <3>2, <4>2
          <5>2. g[m] = f[m] /\ g[m + 1] = f[m + 1]
            BY <3>3, <5>1
          <5>3. f[m + 1] = step[m][f[m]]
            BY <3>1, <4>2 DEF Recurs
          <5> QED BY <5>2, <5>3
        <4> QED BY <3>2, <3>4, <4>1, <4>2
      <3>5. Recurs(g, start, step, n + 1)
        BY <3>3, <3>4 DEF Recurs
      <3> QED BY <3>2, <3>3, <3>5
    <2>3. P \in SUBSET Nat
      OBVIOUS
    <2> HIDE DEF P
    <2> QED BY <2>1, <2>2, <2>3, NumberInduction
  <1>2. Q = Nat
    <2>1. 0 \in Q
      BY DEF Recurs
    <2>2. ASSUME NEW n \in Q PROVE n + 1 \in Q
      <3> SUFFICES ASSUME NEW k \in Nat, NEW f \in [Nat -> S], NEW g \in [Nat -> S],
                          n + 1 <= k, Recurs(f, start, step, n + 1), Recurs(g, start, step, k)
                   PROVE  f[n + 1] = g[n + 1]
        OBVIOUS
      <3>1. n \in Nat /\ n < n + 1 /\ n < k /\ n <= k
        OBVIOUS
      <3>2. Recurs(f, start, step, n)
        BY <3>1 DEF Recurs
      <3>3. f[n] = g[n]
        BY <3>1, <3>2
      <3>4. f[n + 1] = step[n][f[n]] /\ g[n + 1] = step[n][g[n]]
        BY <3>1 DEF Recurs
      <3> QED BY <3>3, <3>4
    <2>3. Q \in SUBSET Nat
      OBVIOUS
    <2> HIDE DEF Q
    <2> QED BY <2>1, <2>2, <2>3, NumberInduction
  <1> DEFINE Up(n) == CHOOSE f \in [Nat -> S] : Recurs(f, start, step, n)
             F == [n \in Nat |-> Up(n)[n]]
  <1>3. ASSUME NEW n \in Nat PROVE Up(n) \in [Nat -> S] /\ Recurs(Up(n), start, step, n)
    <2>1. \E f \in [Nat -> S] : Recurs(f, start, step, n)
      BY <1>1
    <2> QED BY <2>1
  <1> HIDE DEF Up
  <1>4. F \in [Nat -> S] /\ F[0] = start
    BY <1>3 DEF Recurs
  <1>5. ASSUME NEW n \in Nat PROVE F[n + 1] = step[n][F[n]]
    <2>1. n \in Q
      BY <1>2
    <2>2. n <= n + 1 /\ n < n + 1 /\ n + 1 \in Nat
      OBVIOUS
    <2>3. Up(n)[n] = Up(n + 1)[n]
      BY <1>3, <2>1, <2>2
    <2>4. Up(n + 1)[n + 1] = step[n][Up(n + 1)[n]]
      BY <1>3, <2>2 DEF Recurs
    <2> QED BY <2>2, <2>3, <2>4
  <1> QED BY <1>4, <1>5 DEF Follows

-----------------------------------------------------------------------------
(* The recursion is well-defined *)

Picked(s) == CHOOSE x \in s : TRUE

\* The function over the subsets of S that the fold recurs on.
SumsUp(f, S, g) ==
    g = [s \in SUBSET S |-> IF s = {} THEN 0 ELSE f[Picked(s)] + g[s \ {Picked(s)}]]

Sums(f, S) == CHOOSE g : SumsUp(f, S, g)

LEMMA SumIsFold == \A f, S : SumFunctionOnSet(f, S) = Sums(f, S)[S]
  BY DEF SumFunctionOnSet, FoldFunctionOnSet, MapThenFoldSet, Sums, SumsUp, Picked

LEMMA PickedOf == \A s : s # {} => Picked(s) \in s
  BY DEF Picked

LEMMA SumsUpOf ==
    ASSUME NEW f, NEW S, NEW g, SumsUp(f, S, g), NEW s \in SUBSET S
    PROVE  g[s] = IF s = {} THEN 0 ELSE f[Picked(s)] + g[s \ {Picked(s)}]
  BY DEF SumsUp

\* Two such functions agree where both are defined.
LEMMA SumsUpAgree ==
    ASSUME NEW f, NEW S, IsFiniteSet(S), NEW T, T \subseteq S,
           NEW g, SumsUp(f, S, g), NEW h, SumsUp(f, T, h)
    PROVE  \A s \in SUBSET T : g[s] = h[s]
  <1> DEFINE P == {s \in SUBSET T : g[s] = h[s]}
  <1>1. IsFiniteSet(T)
    BY FS_Subset
  <1>2. ASSUME NEW s \in SUBSET T,
               \A u \in SUBSET T : u \subseteq s /\ u # s => u \in P
        PROVE  s \in P
    <2>1. CASE s = {}
      BY <2>1, SumsUpOf
    <2>2. CASE s # {}
      <3>1. Picked(s) \in s
        BY <2>2, PickedOf
      <3>2. s \ {Picked(s)} \in P
        BY <1>2, <3>1
      <3>3. s \in SUBSET S
        OBVIOUS
      <3>4. g[s] = f[Picked(s)] + g[s \ {Picked(s)}]
        BY <2>2, <3>3, SumsUpOf
      <3>5. h[s] = f[Picked(s)] + h[s \ {Picked(s)}]
        BY <2>2, SumsUpOf
      <3> QED BY <3>2, <3>4, <3>5
    <2> QED BY <2>1, <2>2
  <1>3. P = SUBSET T
    <2>1. P \in SUBSET SUBSET T
      OBVIOUS
    <2> HIDE DEF P
    <2> QED BY <1>1, <1>2, <2>1, SubsetInduction
  <1> QED BY <1>3

LEMMA SumsUpExists ==
    ASSUME NEW f, NEW S, IsFiniteSet(S)
    PROVE  SumsUp(f, S, Sums(f, S))
  <1> DEFINE P == {T \in SUBSET S : SumsUp(f, T, Sums(f, T))}
  <1>1. ASSUME NEW T \in SUBSET S,
               \A U \in SUBSET S : U \subseteq T /\ U # T => U \in P
        PROVE  T \in P
    <2> DEFINE g == [s \in SUBSET T |->
                       IF s = {} THEN 0
                       ELSE f[Picked(s)] + Sums(f, s \ {Picked(s)})[s \ {Picked(s)}]]
    <2>1. ASSUME NEW s \in SUBSET T, s # {}
          PROVE  g[s \ {Picked(s)}] = Sums(f, s \ {Picked(s)})[s \ {Picked(s)}]
      <3> DEFINE u == s \ {Picked(s)}
      <3>1. u \in SUBSET T /\ u # T /\ u \in SUBSET S /\ IsFiniteSet(u)
        BY <2>1, PickedOf, FS_Subset
      <3>2. SumsUp(f, u, Sums(f, u))
        BY <1>1, <3>1
      <3> HIDE DEF u
      <3>3. CASE u = {}
        <4>1. Sums(f, u)[u] = 0
          BY <3>2, <3>3, SumsUpOf
        <4> QED BY <3>1, <3>3, <4>1 DEF u
      <3>4. CASE u # {}
        <4> DEFINE v == u \ {Picked(u)}
        <4>1. Sums(f, u)[u] = f[Picked(u)] + Sums(f, u)[v]
          BY <3>2, <3>4, SumsUpOf
        <4>2. v \in SUBSET S /\ v \subseteq T /\ v # T /\ v \subseteq u
          BY <3>1, <3>4, PickedOf
        <4>3. SumsUp(f, v, Sums(f, v))
          BY <1>1, <4>2
        <4>4. Sums(f, u)[v] = Sums(f, v)[v]
          <5> HIDE DEF v
          <5> QED BY <3>1, <3>2, <4>2, <4>3, SumsUpAgree
        <4>5. g[u] = f[Picked(u)] + Sums(f, v)[v]
          BY <3>1, <3>4
        <4>6. g[u] = Sums(f, u)[u]
          BY <4>1, <4>4, <4>5
        <4> QED BY <4>6 DEF u
      <3> QED BY <3>3, <3>4
    <2>2. g = [s \in SUBSET T |-> IF s = {} THEN 0 ELSE f[Picked(s)] + g[s \ {Picked(s)}]]
      <3> DEFINE r == [s \in SUBSET T |-> IF s = {} THEN 0 ELSE f[Picked(s)] + g[s \ {Picked(s)}]]
      <3>1. \A s \in SUBSET T : g[s] = r[s]
        BY <2>1
      <3> QED BY <3>1
    <2>3. SumsUp(f, T, g)
      BY <2>2 DEF SumsUp
    <2>4. SumsUp(f, T, Sums(f, T))
      <3> HIDE DEF g
      <3> QED BY <2>3 DEF Sums
    <2> QED BY <2>4
  <1>2. P = SUBSET S
    <2>1. P \in SUBSET SUBSET S
      OBVIOUS
    <2> HIDE DEF P
    <2> QED BY <1>1, <2>1, SubsetInduction
  <1>3. S \in P
    BY <1>2
  <1> QED BY <1>3

-----------------------------------------------------------------------------
(* Sums of whole numbers *)

\* The sum of the empty set is 0, and another sum is one element's value and
\* the sum of the rest.
LEMMA SumUnfolds ==
    ASSUME NEW f, NEW S, IsFiniteSet(S)
    PROVE  SumFunctionOnSet(f, S) =
               IF S = {} THEN 0
               ELSE f[Picked(S)] + SumFunctionOnSet(f, S \ {Picked(S)})
  <1>1. SumsUp(f, S, Sums(f, S))
    BY SumsUpExists
  <1>2. CASE S = {}
    <2>1. Sums(f, S)[S] = 0
      BY <1>1, <1>2, SumsUpOf
    <2> QED BY <1>2, <2>1, SumIsFold
  <1>3. CASE S # {}
    <2> DEFINE U == S \ {Picked(S)}
    <2>1. S \in SUBSET S /\ U \in SUBSET S /\ U \subseteq S
      OBVIOUS
    <2>2. IsFiniteSet(U)
      BY <2>1, FS_Subset
    <2>3. Sums(f, S)[S] = f[Picked(S)] + Sums(f, S)[U]
      BY <1>1, <1>3, <2>1, SumsUpOf
    <2>4. SumsUp(f, U, Sums(f, U))
      BY <2>2, SumsUpExists
    <2>5. Sums(f, S)[U] = Sums(f, U)[U]
      <3> HIDE DEF U
      <3> QED BY <1>1, <2>1, <2>4, SumsUpAgree
    <2>6. SumFunctionOnSet(f, S) = f[Picked(S)] + SumFunctionOnSet(f, U)
      BY <2>3, <2>5, SumIsFold
    <2> QED BY <1>3, <2>6
  <1> QED BY <1>2, <1>3

LEMMA SumOfNone == \A f : SumFunctionOnSet(f, {}) = 0
  BY SumUnfolds, FS_EmptySet

\* What is proved of all subsets of a finite set by taking one element out.
LEMMA SumInduction ==
    ASSUME NEW S, IsFiniteSet(S), NEW P \in SUBSET SUBSET S, {} \in P,
           \A T \in SUBSET S : T # {} /\ T \ {Picked(T)} \in P => T \in P
    PROVE  P = SUBSET S
  <1>1. ASSUME NEW T \in SUBSET S,
               \A U \in SUBSET S : U \subseteq T /\ U # T => U \in P
        PROVE  T \in P
    <2>1. CASE T = {}
      BY <2>1
    <2>2. CASE T # {}
      <3>1. Picked(T) \in T
        BY <2>2, PickedOf
      <3>2. T \ {Picked(T)} \in P
        BY <1>1, <3>1
      <3> QED BY <2>2, <3>2
    <2> QED BY <2>1, <2>2
  <1> QED BY <1>1, SubsetInduction

\* The unfolding, for a non-empty subset of a finite set.
LEMMA SumPicked ==
    ASSUME NEW f, NEW S, IsFiniteSet(S), NEW T \in SUBSET S, T # {}
    PROVE  /\ SumFunctionOnSet(f, T) =
                  f[Picked(T)] + SumFunctionOnSet(f, T \ {Picked(T)})
           /\ Picked(T) \in T /\ Picked(T) \in S
           /\ T \ {Picked(T)} \in SUBSET S /\ Picked(T) \notin T \ {Picked(T)}
  <1>1. IsFiniteSet(T)
    BY FS_Subset
  <1> QED BY <1>1, SumUnfolds, PickedOf

LEMMA SumType ==
    ASSUME NEW S, IsFiniteSet(S), NEW f, \A x \in S : f[x] \in Int
    PROVE  SumFunctionOnSet(f, S) \in Int
  <1> DEFINE P == {T \in SUBSET S : SumFunctionOnSet(f, T) \in Int}
  <1>1. {} \in P
    BY SumOfNone
  <1>2. ASSUME NEW T \in SUBSET S, T # {}, T \ {Picked(T)} \in P
        PROVE  T \in P
    BY <1>2, SumPicked
  <1>3. P = SUBSET S
    <2>1. P \in SUBSET SUBSET S
      OBVIOUS
    <2> HIDE DEF P
    <2> QED BY <1>1, <1>2, <2>1, SumInduction
  <1> QED BY <1>3

\* A sum over any subset is a whole number, too.
LEMMA SumTypeOfSubset ==
    ASSUME NEW S, IsFiniteSet(S), NEW f, \A x \in S : f[x] \in Int,
           NEW T \in SUBSET S
    PROVE  SumFunctionOnSet(f, T) \in Int
  <1>1. IsFiniteSet(T)
    BY FS_Subset
  <1> QED BY <1>1, SumType

\* Functions that agree on the set have one sum.
LEMMA SumAgree ==
    ASSUME NEW S, IsFiniteSet(S), NEW f, NEW g, \A x \in S : f[x] = g[x]
    PROVE  SumFunctionOnSet(f, S) = SumFunctionOnSet(g, S)
  <1> DEFINE P == {T \in SUBSET S : SumFunctionOnSet(f, T) = SumFunctionOnSet(g, T)}
  <1>1. {} \in P
    BY SumOfNone
  <1>2. ASSUME NEW T \in SUBSET S, T # {}, T \ {Picked(T)} \in P
        PROVE  T \in P
    <2>1. SumFunctionOnSet(f, T \ {Picked(T)}) = SumFunctionOnSet(g, T \ {Picked(T)})
      BY <1>2
    <2>2. SumFunctionOnSet(f, T) = SumFunctionOnSet(g, T)
      BY <1>2, <2>1, SumPicked
    <2> QED BY <2>2
  <1>3. P = SUBSET S
    <2>1. P \in SUBSET SUBSET S
      OBVIOUS
    <2> HIDE DEF P
    <2> QED BY <1>1, <1>2, <2>1, SumInduction
  <1> QED BY <1>3

\* Any element can be taken out first.
LEMMA SumWithout ==
    ASSUME NEW S, IsFiniteSet(S), NEW f, \A x \in S : f[x] \in Int, NEW x \in S
    PROVE  SumFunctionOnSet(f, S) = f[x] + SumFunctionOnSet(f, S \ {x})
  <1> DEFINE Splits(T, z) ==
                 SumFunctionOnSet(f, T) = f[z] + SumFunctionOnSet(f, T \ {z})
             P == {T \in SUBSET S : \A z \in T : Splits(T, z)}
  <1>1. ASSUME NEW T \in SUBSET S,
               \A U \in SUBSET S : U \subseteq T /\ U # T => U \in P
        PROVE  T \in P
    <2> SUFFICES ASSUME NEW z \in T PROVE Splits(T, z)
      OBVIOUS
    <2>1. CASE z = Picked(T)
      BY <2>1, SumPicked
    <2>2. CASE z # Picked(T)
      <3> DEFINE y == Picked(T)
                 V == (T \ {z}) \ {y}
      <3>1. y \in T /\ y \in S
        BY SumPicked
      <3>2. SumFunctionOnSet(f, T) = f[y] + SumFunctionOnSet(f, T \ {y})
        BY SumPicked
      <3>3. SumFunctionOnSet(f, T \ {y}) = f[z] + SumFunctionOnSet(f, V)
        <4>1. (T \ {y}) \ {z} = V /\ z \in T \ {y}
          BY <2>2
        <4>2. T \ {y} \in P
          BY <1>1, <3>1
        <4> QED BY <4>1, <4>2
      <3>4. SumFunctionOnSet(f, T \ {z}) = f[y] + SumFunctionOnSet(f, V)
        <4>1. y \in T \ {z}
          BY <2>2, <3>1
        <4>2. T \ {z} \in P
          BY <1>1
        <4> QED BY <4>1, <4>2
      <3>5. SumFunctionOnSet(f, V) \in Int /\ f[z] \in Int /\ f[y] \in Int
        <4>1. V \in SUBSET S
          OBVIOUS
        <4> HIDE DEF V
        <4> QED BY <3>1, <4>1, SumTypeOfSubset
      <3> HIDE DEF V, y
      <3> QED BY <3>2, <3>3, <3>4, <3>5
    <2> QED BY <2>1, <2>2
  <1>2. P = SUBSET S
    <2>1. P \in SUBSET SUBSET S
      OBVIOUS
    <2> HIDE DEF P
    <2> QED BY <1>1, <2>1, SubsetInduction
  <1> QED BY <1>2

\* An element more adds its value.
LEMMA SumWith ==
    ASSUME NEW S, IsFiniteSet(S), NEW f, NEW x, x \notin S,
           \A y \in S \cup {x} : f[y] \in Int
    PROVE  SumFunctionOnSet(f, S \cup {x}) = f[x] + SumFunctionOnSet(f, S)
  <1>1. IsFiniteSet(S \cup {x}) /\ x \in S \cup {x} /\ (S \cup {x}) \ {x} = S
    BY FS_AddElement
  <1> QED BY <1>1, SumWithout

\* What is nothing can be left out of a sum.
LEMMA SumOfNonzero ==
    ASSUME NEW S, IsFiniteSet(S), NEW f, \A x \in S : f[x] \in Int,
           NEW T, T \subseteq S, \A x \in S \ T : f[x] = 0
    PROVE  SumFunctionOnSet(f, S) = SumFunctionOnSet(f, T)
  <1> DEFINE P == {U \in SUBSET (S \ T) :
                     SumFunctionOnSet(f, T \cup U) = SumFunctionOnSet(f, T)}
  <1>1. IsFiniteSet(S \ T) /\ P \in SUBSET SUBSET (S \ T)
    BY FS_Subset
  <1>2. {} \in P
    <2>1. T \cup {} = T
      OBVIOUS
    <2> QED BY <2>1
  <1>3. ASSUME NEW U \in P, NEW x \in S \ T, x \notin U
        PROVE  U \cup {x} \in P
    <2>1. U \subseteq S \ T /\ SumFunctionOnSet(f, T \cup U) = SumFunctionOnSet(f, T)
      OBVIOUS
    <2>2. T \cup U \subseteq S /\ x \notin T \cup U /\ T \cup (U \cup {x}) = (T \cup U) \cup {x}
      BY <1>3, <2>1
    <2>3. IsFiniteSet(T \cup U) /\ \A y \in (T \cup U) \cup {x} : f[y] \in Int
      BY <2>2, FS_Subset
    <2>4. SumFunctionOnSet(f, (T \cup U) \cup {x}) = f[x] + SumFunctionOnSet(f, T \cup U)
      BY <2>2, <2>3, SumWith
    <2>5. SumFunctionOnSet(f, T) \in Int /\ f[x] = 0
      BY SumTypeOfSubset
    <2>6. SumFunctionOnSet(f, (T \cup U) \cup {x}) = SumFunctionOnSet(f, T)
      <3> HIDE DEF P
      <3> QED BY <2>1, <2>4, <2>5
    <2>7. SumFunctionOnSet(f, T \cup (U \cup {x})) = SumFunctionOnSet(f, T)
      BY <2>2, <2>6
    <2> QED BY <2>1, <2>7
  <1>4. S \ T \in P
    <2> HIDE DEF P
    <2> QED BY <1>1, <1>2, <1>3, ElementInduction
  <1>5. T \cup (S \ T) = S
    OBVIOUS
  <1> QED BY <1>4, <1>5

\* A value that changes changes the sum by as much.
LEMMA SumOfChange ==
    ASSUME NEW S, IsFiniteSet(S), NEW f, NEW g, NEW x \in S,
           \A y \in S : f[y] \in Int /\ g[y] \in Int,
           \A y \in S \ {x} : g[y] = f[y]
    PROVE  SumFunctionOnSet(g, S) = SumFunctionOnSet(f, S) + (g[x] - f[x])
  <1>1. SumFunctionOnSet(f, S) = f[x] + SumFunctionOnSet(f, S \ {x})
    BY SumWithout
  <1>2. SumFunctionOnSet(g, S) = g[x] + SumFunctionOnSet(g, S \ {x})
    BY SumWithout
  <1>3. IsFiniteSet(S \ {x})
    BY FS_RemoveElement
  <1>4. SumFunctionOnSet(f, S \ {x}) = SumFunctionOnSet(g, S \ {x})
    BY <1>3, SumAgree
  <1>5. SumFunctionOnSet(f, S \ {x}) \in Int
    BY SumTypeOfSubset
  <1> QED BY <1>1, <1>2, <1>4, <1>5

\* A sum of one value is the number of summands times the value.
LEMMA SumOfConstant ==
    ASSUME NEW S, IsFiniteSet(S), NEW c \in Int, NEW f, \A x \in S : f[x] = c
    PROVE  SumFunctionOnSet(f, S) = Cardinality(S) * c
  <1> DEFINE P == {T \in SUBSET S : SumFunctionOnSet(f, T) = Cardinality(T) * c}
  <1>1. {} \in P
    BY SumOfNone, FS_EmptySet
  <1>2. ASSUME NEW T \in SUBSET S, T # {}, T \ {Picked(T)} \in P
        PROVE  T \in P
    <2> DEFINE n == Cardinality(T)
    <2>1. Picked(T) \in T /\ IsFiniteSet(T)
      BY <1>2, SumPicked, FS_Subset
    <2>2. Cardinality(T \ {Picked(T)}) = n - 1 /\ n \in Nat
      BY <2>1, FS_RemoveElement, FS_CardinalityType
    <2>3. SumFunctionOnSet(f, T) = c + (n - 1) * c
      BY <1>2, <2>1, <2>2, SumPicked
    <2>4. c + (n - 1) * c = n * c
      BY <2>2
    <2> QED BY <2>3, <2>4
  <1>3. P = SUBSET S
    <2>1. P \in SUBSET SUBSET S
      OBVIOUS
    <2> HIDE DEF P
    <2> QED BY <1>1, <1>2, <2>1, SumInduction
  <1>4. S \in P
    BY <1>3
  <1> QED BY <1>4

\* A sum of multiples of a number is one.
LEMMA SumOfMultiples ==
    ASSUME NEW S, IsFiniteSet(S), NEW n \in Int, NEW f,
           \A x \in S : \E k \in Int : f[x] = n * k
    PROVE  \E k \in Int : SumFunctionOnSet(f, S) = n * k
  <1> DEFINE P == {T \in SUBSET S : \E k \in Int : SumFunctionOnSet(f, T) = n * k}
  <1>1. {} \in P
    <2>1. 0 \in Int /\ 0 = n * 0
      OBVIOUS
    <2> QED BY <2>1, SumOfNone
  <1>2. ASSUME NEW T \in SUBSET S, T # {}, T \ {Picked(T)} \in P
        PROVE  T \in P
    <2>1. PICK k \in Int : SumFunctionOnSet(f, T \ {Picked(T)}) = n * k
      BY <1>2
    <2>2. Picked(T) \in S
      BY <1>2, SumPicked
    <2>3. PICK m \in Int : f[Picked(T)] = n * m
      BY <2>2
    <2>4. SumFunctionOnSet(f, T) = n * m + n * k
      BY <1>2, <2>1, <2>3, SumPicked
    <2>5. n * m + n * k = n * (m + k) /\ m + k \in Int
      OBVIOUS
    <2> QED BY <2>4, <2>5
  <1>3. P = SUBSET S
    <2>1. P \in SUBSET SUBSET S
      OBVIOUS
    <2> HIDE DEF P
    <2> QED BY <1>1, <1>2, <2>1, SumInduction
  <1> QED BY <1>3

\* A sum of values that are not negative is not negative.
LEMMA SumOfNaturals ==
    ASSUME NEW S, IsFiniteSet(S), NEW f, \A x \in S : f[x] \in Nat
    PROVE  SumFunctionOnSet(f, S) \in Nat
  <1> DEFINE P == {T \in SUBSET S : SumFunctionOnSet(f, T) \in Nat}
  <1>1. {} \in P
    BY SumOfNone
  <1>2. ASSUME NEW T \in SUBSET S, T # {}, T \ {Picked(T)} \in P
        PROVE  T \in P
    BY <1>2, SumPicked
  <1>3. P = SUBSET S
    <2>1. P \in SUBSET SUBSET S
      OBVIOUS
    <2> HIDE DEF P
    <2> QED BY <1>1, <1>2, <2>1, SumInduction
  <1> QED BY <1>3

\* What holds of the summands, a difference that is at least a multiple of
\* another, holds of the sums.
Outweighs(S, c, f, g, a, b) == \A x \in S : f[x] - g[x] >= c * (a[x] - b[x])

LEMMA SumsOrdered ==
    ASSUME NEW S, IsFiniteSet(S), NEW c \in Int, NEW f, NEW g, NEW a, NEW b,
           \A x \in S : f[x] \in Int /\ g[x] \in Int /\ a[x] \in Int /\ b[x] \in Int,
           Outweighs(S, c, f, g, a, b)
    PROVE  SumFunctionOnSet(f, S) - SumFunctionOnSet(g, S)
               >= c * (SumFunctionOnSet(a, S) - SumFunctionOnSet(b, S))
  <1> DEFINE Ordered(T) ==
                 SumFunctionOnSet(f, T) - SumFunctionOnSet(g, T)
                     >= c * (SumFunctionOnSet(a, T) - SumFunctionOnSet(b, T))
             P == {T \in SUBSET S : Ordered(T)}
  <1>1. {} \in P
    <2>1. c * (0 - 0) = 0
      OBVIOUS
    <2> QED BY <2>1, SumOfNone
  <1>2. ASSUME NEW T \in SUBSET S, T # {}, T \ {Picked(T)} \in P
        PROVE  T \in P
    <2> DEFINE x == Picked(T)
               U == T \ {x}
    <2>1. x \in S /\ U \in SUBSET S
      BY <1>2, SumPicked
    <2>2. \A h : SumFunctionOnSet(h, T) = h[x] + SumFunctionOnSet(h, U)
      BY <1>2, SumPicked
    <2>3. /\ SumFunctionOnSet(f, U) \in Int /\ SumFunctionOnSet(g, U) \in Int
          /\ SumFunctionOnSet(a, U) \in Int /\ SumFunctionOnSet(b, U) \in Int
      BY <2>1, SumTypeOfSubset
    <2>4. Ordered(U)
      BY <1>2
    <2> HIDE DEF x, U
    <2> DEFINE m == a[x] - b[x]
               n == SumFunctionOnSet(a, U) - SumFunctionOnSet(b, U)
    <2>5. m \in Int /\ n \in Int
      BY <2>1, <2>3
    <2>6. SumFunctionOnSet(a, T) - SumFunctionOnSet(b, T) = m + n
      BY <2>1, <2>2, <2>3
    <2>7. f[x] - g[x] >= c * m /\ f[x] \in Int /\ g[x] \in Int
      BY <2>1 DEF Outweighs
    <2>8. SumFunctionOnSet(f, U) - SumFunctionOnSet(g, U) >= c * n
      BY <2>4
    <2> HIDE DEF m, n
    <2>9. c * (m + n) = c * m + c * n
      BY <2>5
    <2>10. c * m \in Int /\ c * n \in Int
      BY <2>5
    <2>11. SumFunctionOnSet(f, T) - SumFunctionOnSet(g, T)
              = (f[x] - g[x]) + (SumFunctionOnSet(f, U) - SumFunctionOnSet(g, U))
      BY <2>2, <2>3, <2>7
    <2>12. SumFunctionOnSet(f, T) - SumFunctionOnSet(g, T) >= c * (m + n)
      BY <2>3, <2>7, <2>8, <2>9, <2>10, <2>11
    <2>13. Ordered(T)
      BY <2>6, <2>12
    <2> QED BY <2>13
  <1>3. P = SUBSET S
    <2>1. P \in SUBSET SUBSET S
      OBVIOUS
    <2> HIDE DEF P
    <2> QED BY <1>1, <1>2, <2>1, SumInduction
  <1>4. S \in P
    BY <1>3
  <1> QED BY <1>4

\* A sum of values that are not less is not less.
LEMMA SumMonotone ==
    ASSUME NEW S, IsFiniteSet(S), NEW f, NEW g,
           \A x \in S : f[x] \in Int /\ g[x] \in Int /\ f[x] <= g[x]
    PROVE  SumFunctionOnSet(f, S) <= SumFunctionOnSet(g, S)
  <1>1. Outweighs(S, 0, g, f, f, g)
    BY DEF Outweighs
  <1>2. SumFunctionOnSet(f, S) \in Int /\ SumFunctionOnSet(g, S) \in Int
    BY SumType
  <1>3. SumFunctionOnSet(g, S) - SumFunctionOnSet(f, S)
            >= 0 * (SumFunctionOnSet(f, S) - SumFunctionOnSet(g, S))
    BY <1>1, SumsOrdered
  <1> QED BY <1>2, <1>3

-----------------------------------------------------------------------------
(* Sums over all of a function's domain *)

LEMMA SumIsOnDomain == \A f : SumFunction(f) = SumFunctionOnSet(f, DOMAIN f)
  BY DEF SumFunction, SumFunctionOnSet, FoldFunction

\* A record appended to a log adds its number to the sum.
LEMMA SumOfAppend ==
    ASSUME NEW s \in Seq(Int), NEW v \in Int
    PROVE  SumFunction(Append(s, v)) = SumFunction(s) + v
  <1> DEFINE t == Append(s, v)
             n == Len(s) + 1
  <1>1. /\ DOMAIN s = 1 .. Len(s) /\ DOMAIN t = (DOMAIN s) \cup {n}
        /\ n \notin DOMAIN s /\ t[n] = v /\ \A i \in DOMAIN s : t[i] = s[i]
        /\ \A i \in DOMAIN s : s[i] \in Int
    OBVIOUS
  <1>2. IsFiniteSet(DOMAIN s)
    <2>1. Len(s) \in Int
      OBVIOUS
    <2> QED BY <1>1, <2>1, FS_Interval
  <1> HIDE DEF t, n
  <1>3. SumFunctionOnSet(t, (DOMAIN s) \cup {n}) = t[n] + SumFunctionOnSet(t, DOMAIN s)
    BY <1>1, <1>2, SumWith
  <1>4. SumFunctionOnSet(t, DOMAIN s) = SumFunctionOnSet(s, DOMAIN s)
    BY <1>1, <1>2, SumAgree
  <1>5. SumFunctionOnSet(s, DOMAIN s) \in Int
    BY <1>1, <1>2, SumType
  <1>6. SumFunction(t) = SumFunction(s) + v
    BY <1>1, <1>3, <1>4, <1>5, SumIsOnDomain
  <1> QED BY <1>6 DEF t

\* A sum of whole numbers is one.
LEMMA SumFunctionType ==
    ASSUME NEW S, IsFiniteSet(S), NEW f \in [S -> Int]
    PROVE  SumFunction(f) \in Int
  BY SumIsOnDomain, SumType

\* The same for a function whose value changes at one point.
LEMMA SumOfChangedFunction ==
    ASSUME NEW S, IsFiniteSet(S), NEW f \in [S -> Int], NEW g \in [S -> Int],
           NEW x \in S, \A y \in S \ {x} : g[y] = f[y]
    PROVE  SumFunction(g) = SumFunction(f) + (g[x] - f[x])
  <1>1. SumFunctionOnSet(g, S) = SumFunctionOnSet(f, S) + (g[x] - f[x])
    BY SumOfChange
  <1> QED BY <1>1, SumIsOnDomain

\* A finite set of numbers that is not empty has a greatest one.
LEMMA GreatestExists ==
    ASSUME NEW S \in SUBSET Int, IsFiniteSet(S), S # {}
    PROVE  \E x \in S : \A y \in S : x >= y
  <1> DEFINE P == {T \in SUBSET S : T # {} => \E x \in T : \A y \in T : x >= y}
  <1>1. {} \in P
    OBVIOUS
  <1>2. ASSUME NEW T \in P, NEW x \in S, x \notin T
        PROVE  T \cup {x} \in P
    <2>1. CASE T = {}
      BY <2>1
    <2>2. CASE T # {}
      <3>1. PICK m \in T : \A y \in T : m >= y
        BY <2>2
      <3>2. CASE m >= x
        BY <3>1, <3>2
      <3>3. CASE x >= m
        BY <3>1, <3>3
      <3> QED BY <3>2, <3>3
    <2> QED BY <2>1, <2>2
  <1>3. S \in P
    <2>1. P \in SUBSET SUBSET S
      OBVIOUS
    <2> HIDE DEF P
    <2> QED BY <1>1, <1>2, <2>1, ElementInduction
  <1> QED BY <1>3
=============================================================================
