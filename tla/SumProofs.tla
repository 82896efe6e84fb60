----------------------------- MODULE SumProofs -----------------------------
(***************************************************************************)
(* Lemmas about SumFunctionOnSet, the sum of a function over a finite set  *)
(* of its arguments, for every function and every finite set.  They make   *)
(* the sums of the models, defined by recursion, available to the proofs.  *)
(*                                                                         *)
(* An induction is written as the search for a least counterexample: the   *)
(* strict subsets of a finite set are well-founded, and so are the         *)
(* naturals.                                                               *)
(***************************************************************************)
EXTENDS Integers, Functions, FiniteSetTheorems, WellFoundedInduction, TLAPS
-----------------------------------------------------------------------------
(* Least counterexamples.                                                  *)

(* A non-empty set of subsets of a finite set has a least one.             *)
LEMMA LeastSubset ==
  ASSUME NEW S, IsFiniteSet(S), NEW Bad, Bad \subseteq SUBSET S, Bad # {}
  PROVE  \E s \in Bad : /\ IsFiniteSet(s)
                        /\ \A t \in Bad : ~(t \subseteq s /\ t # s)
  <1>1. \A t \in SUBSET S : IsFiniteSet(t)
    BY FS_Subset
  <1>2. Bad \subseteq FiniteSubsetsOf(S)
    BY <1>1 DEF FiniteSubsetsOf
  <1>3. PICK s \in Bad : \A t \in Bad : <<t, s>> \notin StrictSubsetOrdering(S)
    BY <1>2, FS_StrictSubsetOrderingWellFounded, WFMin
  <1>4. \A t \in Bad : ~(t \subseteq s /\ t # s)
    BY <1>3 DEF StrictSubsetOrdering
  <1> QED
    BY <1>1, <1>3, <1>4

(* A non-empty set of naturals has a least one.                            *)
LEMMA LeastNatural ==
  ASSUME NEW Bad \in SUBSET Nat, Bad # {}
  PROVE  \E m \in Bad : \A k \in Bad : m <= k
  <1> PICK n \in Bad : TRUE
    OBVIOUS
  <1> DEFINE Below == {0 .. k : k \in {j \in Bad : j <= n}}
             upto == 0 .. n
  <1>1. IsFiniteSet(upto)
    BY FS_Interval
  <1>2. Below \subseteq SUBSET upto /\ Below # {}
    OBVIOUS
  <1> HIDE DEF Below, upto
  <1>3. PICK s \in Below : \A t \in Below : ~(t \subseteq s /\ t # s)
    BY <1>1, <1>2, LeastSubset
  <1> USE DEF Below
  <1>4. PICK m \in Bad : m <= n /\ s = 0 .. m
    BY <1>3
  <1>5. ASSUME NEW k \in Bad, k < m PROVE FALSE
    <2>1. 0 .. k \in Below
      BY <1>4, <1>5
    <2>2. m \in 0 .. m /\ m \notin 0 .. k /\ 0 .. k \subseteq 0 .. m
      BY <1>5
    <2> QED
      BY <1>3, <1>4, <2>1, <2>2
  <1> QED
    BY <1>5

(* A finite set of naturals that is not empty has a greatest element.      *)
LEMMA GreatestOf ==
  ASSUME NEW S, IsFiniteSet(S), \A x \in S : x \in Nat, S # {}
  PROVE  \E m \in S : \A k \in S : k <= m
  <1> DEFINE Bad == {t \in SUBSET S : t # {} /\ \A m \in t : \E k \in t : ~(k <= m)}
  <1>1. CASE Bad = {}
    <2>1. S \notin Bad
      BY <1>1
    <2> QED
      BY <2>1
  <1>2. CASE Bad # {}
    <2>1. PICK t \in Bad : /\ IsFiniteSet(t)
                           /\ \A u \in Bad : ~(u \subseteq t /\ u # t)
      <3>1. Bad \subseteq SUBSET S
        OBVIOUS
      <3> HIDE DEF Bad
      <3> QED
        BY <1>2, <3>1, LeastSubset
    <2>2. PICK e \in t : TRUE
      OBVIOUS
    <2> DEFINE u == t \ {e}
    <2>3. u # {}
      OBVIOUS
    <2>4. u \notin Bad
      BY <2>1, <2>2
    <2>5. PICK m \in u : \A k \in u : k <= m
      BY <2>3, <2>4
    <2>6. \A k \in t : k \in Nat
      OBVIOUS
    <2>7. \E g \in t : \A k \in t : k <= g
      <3>1. CASE e <= m
        BY <2>5, <2>6, <3>1
      <3>2. CASE ~(e <= m)
        BY <2>2, <2>5, <2>6, <3>2
      <3> QED
        BY <3>1, <3>2
    <2> QED
      BY <2>7
  <1> QED
    BY <1>1, <1>2

(* The values of a function on a finite set are finite in number.          *)
LEMMA ImageFinite ==
  ASSUME NEW S, IsFiniteSet(S), NEW f
  PROVE  IsFiniteSet({f[x] : x \in S})
  <1> DEFINE T == {f[x] : x \in S}
             g == [x \in S |-> f[x]]
  <1>1. g \in Surjection(S, T)
    BY DEF Surjection
  <1> HIDE DEF g, T
  <1>2. IsFiniteSet(T)
    BY <1>1, FS_Surjection
  <1> QED
    BY <1>2 DEF T
-----------------------------------------------------------------------------
(* Folds.                                                                  *)

(* A non-empty set of numbers from 1 to n has a greatest one.              *)
LEMMA GreatestNumber ==
  ASSUME NEW n \in Nat, NEW s \in SUBSET (1 .. n), s # {}
  PROVE  \E m \in s : \A k \in s : m >= k
  <1> DEFINE Bad == {j \in Nat : n - j \in s}
  <1>1. Bad # {} /\ Bad \in SUBSET Nat
    <2>1. PICK k \in s : TRUE
      OBVIOUS
    <2>2. n - k \in Nat /\ n - (n - k) = k
      BY <2>1
    <2> QED
      BY <2>1, <2>2
  <1>2. PICK j \in Bad : \A k \in Bad : j <= k
    <2> HIDE DEF Bad
    <2> QED
      BY <1>1, LeastNatural
  <1>3. ASSUME NEW k \in s PROVE n - j >= k
    <2>1. k \in Int /\ n - k \in Nat /\ n - (n - k) = k
      BY <1>3
    <2>2. n - k \in Bad
      BY <1>3, <2>1
    <2>3. j <= n - k /\ j \in Nat
      BY <1>2, <2>2
    <2> HIDE DEF Bad
    <2> QED
      BY <2>1, <2>3
  <1> QED
    BY <1>2, <1>3

(* What a fold computes for a set of which pick takes the first element,   *)
(* and step the value of the rest.                                         *)
FoldBody(base, pick, step, g, s) ==
  IF s = {} THEN base ELSE step[<<pick[s], g[s \ {pick[s]}]>>]

(* g is what the fold computes for the subsets of S.                       *)
IsFold(g, base, S, pick, step) ==
  g = [s \in SUBSET S |-> FoldBody(base, pick, step, g, s)]

(* It is about finite sets S, and the steps stay in the set V.             *)
Folds(V, base, S, pick, step) ==
  /\ base \in V /\ IsFiniteSet(S)
  /\ \A s \in SUBSET S : s # {} => pick[s] \in s
  /\ \A i \in S, v \in V : step[<<i, v>>] \in V

(* The recursion of a fold over the subsets of S has a solution: on the    *)
(* subsets of at most n elements, for n = 0 and for n + 1 if for n.        *)
LEMMA FoldExists ==
  ASSUME NEW V, NEW base, NEW S, NEW pick, NEW step, Folds(V, base, S, pick, step)
  PROVE  \E g \in [SUBSET S -> V] : IsFold(g, base, S, pick, step)
  <1> DEFINE Upto(n) == {s \in SUBSET S : Cardinality(s) <= n}
             Solves(g, n) == /\ g \in [Upto(n) -> V]
                             /\ g = [s \in Upto(n) |-> FoldBody(base, pick, step, g, s)]
             Bad == {n \in Nat : \A g : ~Solves(g, n)}
  <1> USE DEF Folds
  <1>1. \A s \in SUBSET S : IsFiniteSet(s) /\ Cardinality(s) \in Nat
    BY FS_Subset, FS_CardinalityType
  <1>2. ASSUME NEW n \in Nat, NEW s \in Upto(n), s # {}
        PROVE  s \ {pick[s]} \in Upto(n - 1)
    <2>1. s \ {pick[s]} \in SUBSET S
      OBVIOUS
    <2>2. pick[s] \in s
      BY <1>2
    <2>3. Cardinality(s \ {pick[s]}) = Cardinality(s) - 1
      BY <1>1, <2>2, FS_RemoveElement
    <2>4. Cardinality(s) \in Nat /\ Cardinality(s) <= n
      BY <1>1
    <2> QED
      BY <2>1, <2>3, <2>4
  <1>3. Solves([s \in Upto(0) |-> base], 0)
    <2>1. \A s \in Upto(0) : s = {}
      BY <1>1, FS_EmptySet
    <2> QED
      BY <2>1 DEF FoldBody
  <1>4. ASSUME NEW n \in Nat, NEW g, Solves(g, n)
        PROVE  \E h : Solves(h, n + 1)
    <2> DEFINE h == [s \in Upto(n + 1) |-> FoldBody(base, pick, step, g, s)]
    <2>1. ASSUME NEW t \in Upto(n) PROVE t \in Upto(n + 1) /\ h[t] = g[t]
      <3>1. Cardinality(t) \in Nat /\ Cardinality(t) <= n
        BY <1>1
      <3>2. t \in Upto(n + 1)
        BY <3>1
      <3>3. g[t] = FoldBody(base, pick, step, g, t)
        BY <1>4
      <3> QED
        BY <3>2, <3>3
    <2>2. ASSUME NEW s \in Upto(n + 1), s # {}
          PROVE  s \ {pick[s]} \in Upto(n) /\ h[s \ {pick[s]}] = g[s \ {pick[s]}]
      <3>1. s \ {pick[s]} \in Upto((n + 1) - 1)
        BY <1>2, <2>2
      <3>2. s \ {pick[s]} \in Upto(n)
        BY <3>1
      <3> QED
        BY <2>1, <3>2
    <2>3. h = [s \in Upto(n + 1) |-> FoldBody(base, pick, step, g, s)]
      OBVIOUS
    <2>4. \A s \in Upto(n + 1) : s # {} => pick[s] \in S
      OBVIOUS
    <2>5. g \in [Upto(n) -> V]
      BY <1>4
    <2> HIDE DEF Upto, h
    <2>6. ASSUME NEW s \in Upto(n + 1)
          PROVE  FoldBody(base, pick, step, h, s) = FoldBody(base, pick, step, g, s)
      BY <2>2 DEF FoldBody
    <2>7. ASSUME NEW s \in Upto(n + 1) PROVE FoldBody(base, pick, step, g, s) \in V
      BY <2>2, <2>4, <2>5 DEF FoldBody
    <2> QED
      BY <2>3, <2>6, <2>7
  <1> HIDE DEF Solves
  <1>5. Bad = {}
    <2> SUFFICES ASSUME Bad # {} PROVE FALSE
      OBVIOUS
    <2>1. PICK m \in Bad : \A k \in Bad : m <= k
      BY LeastNatural
    <2>2. m # 0
      BY <1>3, <2>1
    <2>3. m - 1 \in Nat /\ m - 1 \notin Bad
      BY <2>1, <2>2
    <2>4. PICK g : Solves(g, m - 1)
      BY <2>3
    <2>5. \E h : Solves(h, (m - 1) + 1)
      BY <1>4, <2>3, <2>4
    <2> QED
      BY <2>5
  <1>6. Cardinality(S) \in Nat /\ Upto(Cardinality(S)) = SUBSET S
    BY <1>1, FS_Subset
  <1>7. PICK g : Solves(g, Cardinality(S))
    BY <1>5, <1>6
  <1> QED
    BY <1>6, <1>7 DEF Solves, IsFold

(* A fold over the sequence of the numbers from 1 to n, from the left: the *)
(* greatest number is taken first and its step comes last.                 *)
Greatest(n) == [s \in SUBSET (1 .. n) |-> CHOOSE m \in s : \A k \in s : m >= k]

FoldsLeft(g, base, step, n) == IsFold(g, base, 1 .. n, Greatest(n), step)

LEMMA GreatestLemma ==
  ASSUME NEW n \in Nat
  PROVE  /\ \A s \in SUBSET (1 .. n) : s # {} => Greatest(n)[s] \in s
         /\ \A i \in 1 .. n : /\ 1 .. i \in SUBSET (1 .. n) /\ 1 .. i # {}
                              /\ Greatest(n)[1 .. i] = i /\ (1 .. i) \ {i} = 1 .. (i - 1)
  <1>1. ASSUME NEW s \in SUBSET (1 .. n), s # {}
        PROVE  Greatest(n)[s] \in s /\ \A k \in s : Greatest(n)[s] >= k
    <2>1. \E m \in s : \A k \in s : m >= k
      BY <1>1, GreatestNumber
    <2> QED
      BY <2>1 DEF Greatest
  <1>2. ASSUME NEW i \in 1 .. n
        PROVE  /\ 1 .. i \in SUBSET (1 .. n) /\ 1 .. i # {}
               /\ Greatest(n)[1 .. i] = i /\ (1 .. i) \ {i} = 1 .. (i - 1)
    <2> DEFINE s == 1 .. i
    <2>1. s \in SUBSET (1 .. n) /\ i \in s /\ i \in Nat
      OBVIOUS
    <2>2. Greatest(n)[s] \in s /\ Greatest(n)[s] >= i
      BY <1>1, <2>1
    <2>3. Greatest(n)[s] = i
      BY <2>1, <2>2
    <2>4. s \ {i} = 1 .. (i - 1)
      <3>1. \A k \in Int : k \in s /\ k # i <=> k \in 1 .. (i - 1)
        BY <2>1
      <3>2. s \subseteq Int /\ 1 .. (i - 1) \subseteq Int
        BY <2>1
      <3> HIDE DEF s
      <3> QED
        BY <2>1, <3>1, <3>2
    <2> QED
      BY <2>1, <2>3, <2>4
  <1> QED
    BY <1>1, <1>2

LEMMA FoldsLeftExists ==
  ASSUME NEW V, NEW base \in V, NEW n \in Nat, NEW step,
         \A i \in 1 .. n, v \in V : step[<<i, v>>] \in V
  PROVE  \E g \in [SUBSET (1 .. n) -> V] : FoldsLeft(g, base, step, n)
  <1>1. IsFiniteSet(1 .. n)
    BY FS_Interval
  <1>2. \A s \in SUBSET (1 .. n) : s # {} => Greatest(n)[s] \in s
    BY GreatestLemma
  <1> DEFINE S == 1 .. n
             pick == Greatest(n)
  <1>3. Folds(V, base, S, pick, step)
    BY <1>1, <1>2 DEF Folds
  <1> HIDE DEF S, pick
  <1>4. \E g \in [SUBSET S -> V] : IsFold(g, base, S, pick, step)
    BY <1>3, FoldExists
  <1> QED
    BY <1>4 DEF S, pick, FoldsLeft
-----------------------------------------------------------------------------
(* Sums.                                                                  *)

One(s) == CHOOSE x \in s : TRUE

SumBody(fun, g, s) == IF s = {} THEN 0 ELSE fun[One(s)] + g[s \ {One(s)}]

(* g is what the recursion computes for the subsets of S.                  *)
IsSum(g, fun, S) == g = [s \in SUBSET S |-> SumBody(fun, g, s)]

(* Removing the chosen element makes a set smaller.                        *)
LEMMA OneLemma ==
  ASSUME NEW s, s # {}
  PROVE  /\ One(s) \in s /\ s \ {One(s)} \subseteq s /\ s \ {One(s)} # s
  BY DEF One

(* The recursion has a solution: on the subsets of at most n elements, for *)
(* n = 0 and for n + 1 if for n.                                           *)
LEMMA SumExists ==
  ASSUME NEW fun, NEW S, IsFiniteSet(S)
  PROVE  \E g : IsSum(g, fun, S)
  <1> DEFINE Upto(n) == {s \in SUBSET S : Cardinality(s) <= n}
             Solves(g, n) == g = [s \in Upto(n) |-> SumBody(fun, g, s)]
             Bad == {n \in Nat : \A g : ~Solves(g, n)}
  <1>1. \A s \in SUBSET S : IsFiniteSet(s) /\ Cardinality(s) \in Nat
    BY FS_Subset, FS_CardinalityType
  <1>2. ASSUME NEW n \in Nat, NEW s \in Upto(n), s # {}
        PROVE  s \ {One(s)} \in Upto(n - 1)
    <2>1. s \ {One(s)} \in SUBSET S
      OBVIOUS
    <2>2. Cardinality(s \ {One(s)}) = Cardinality(s) - 1
      BY <1>1, <1>2, OneLemma, FS_RemoveElement
    <2>3. Cardinality(s) \in Nat /\ Cardinality(s) <= n
      BY <1>1
    <2> QED
      BY <2>1, <2>2, <2>3
  <1>3. Solves([s \in Upto(0) |-> 0], 0)
    <2>1. \A s \in Upto(0) : s = {}
      BY <1>1, FS_EmptySet
    <2> QED
      BY <2>1 DEF SumBody
  <1>4. ASSUME NEW n \in Nat, NEW g, Solves(g, n)
        PROVE  \E h : Solves(h, n + 1)
    <2> DEFINE h == [s \in Upto(n + 1) |-> SumBody(fun, g, s)]
    <2>1. ASSUME NEW t \in Upto(n) PROVE t \in Upto(n + 1) /\ h[t] = g[t]
      <3>1. Cardinality(t) \in Nat /\ Cardinality(t) <= n
        BY <1>1
      <3>2. t \in Upto(n + 1)
        BY <3>1
      <3>3. g[t] = SumBody(fun, g, t)
        BY <1>4
      <3> QED
        BY <3>2, <3>3
    <2>2. ASSUME NEW s \in Upto(n + 1), s # {} PROVE h[s \ {One(s)}] = g[s \ {One(s)}]
      <3>1. s \ {One(s)} \in Upto((n + 1) - 1)
        BY <1>2, <2>2
      <3>2. s \ {One(s)} \in Upto(n)
        BY <3>1
      <3> QED
        BY <2>1, <3>2
    <2>3. h = [s \in Upto(n + 1) |-> SumBody(fun, g, s)]
      OBVIOUS
    <2> HIDE DEF Upto, h
    <2>4. ASSUME NEW s \in Upto(n + 1) PROVE SumBody(fun, h, s) = SumBody(fun, g, s)
      BY <2>2 DEF SumBody
    <2> QED
      BY <2>3, <2>4
  <1> HIDE DEF Solves
  <1>5. Bad = {}
    <2> SUFFICES ASSUME Bad # {} PROVE FALSE
      OBVIOUS
    <2>1. PICK m \in Bad : \A k \in Bad : m <= k
      BY LeastNatural
    <2>2. m # 0
      BY <1>3, <2>1
    <2>3. m - 1 \in Nat /\ m - 1 \notin Bad
      BY <2>1, <2>2
    <2>4. PICK g : Solves(g, m - 1)
      BY <2>3
    <2>5. \E h : Solves(h, (m - 1) + 1)
      BY <1>4, <2>3, <2>4
    <2> QED
      BY <2>5
  <1>6. Cardinality(S) \in Nat /\ Upto(Cardinality(S)) = SUBSET S
    BY <1>1, FS_Subset
  <1>7. PICK g : Solves(g, Cardinality(S))
    BY <1>5, <1>6
  <1> QED
    BY <1>6, <1>7 DEF IsSum, Solves

(* Two solutions agree where both are defined.                             *)
LEMMA SumsAgree ==
  ASSUME NEW fun, NEW S, NEW T, IsFiniteSet(S), T \subseteq S,
         NEW g, IsSum(g, fun, S), NEW h, IsSum(h, fun, T)
  PROVE  \A s \in SUBSET T : g[s] = h[s]
  <1> DEFINE Bad == {s \in SUBSET T : g[s] # h[s]}
  <1> SUFFICES ASSUME Bad # {} PROVE FALSE
    OBVIOUS
  <1>1. Bad \subseteq SUBSET S
    OBVIOUS
  <1>2. PICK s \in Bad : \A t \in Bad : ~(t \subseteq s /\ t # s)
    <2> HIDE DEF Bad
    <2> QED
      BY <1>1, LeastSubset
  <1>3. /\ s \in SUBSET T /\ s \in SUBSET S
        /\ g[s] = SumBody(fun, g, s) /\ h[s] = SumBody(fun, h, s)
    BY DEF IsSum
  <1>4. s # {}
    BY <1>3 DEF SumBody
  <1>5. g[s \ {One(s)}] = h[s \ {One(s)}]
    BY <1>2, <1>4, OneLemma
  <1> QED
    BY <1>3, <1>4, <1>5 DEF SumBody

(* SumFunctionOnSet is the recursion's value at the whole set.             *)
LEMMA SumUnfold ==
  ASSUME NEW fun, NEW S, IsFiniteSet(S)
  PROVE  \E g : IsSum(g, fun, S) /\ SumFunctionOnSet(fun, S) = g[S]
  <1> DEFINE iter[s \in SUBSET S] ==
               IF s = {} THEN 0
               ELSE LET x == CHOOSE x \in s : TRUE IN fun[x] + iter[s \ {x}]
  <1>1. SumFunctionOnSet(fun, S) = iter[S]
    BY DEF SumFunctionOnSet, FoldFunctionOnSet, MapThenFoldSet
  <1>2. iter = CHOOSE g : g = [s \in SUBSET S |-> SumBody(fun, g, s)]
    BY DEF SumBody, One
  <1>3. \E g : g = [s \in SUBSET S |-> SumBody(fun, g, s)]
    BY SumExists DEF IsSum
  <1>4. IsSum(iter, fun, S)
    BY <1>2, <1>3 DEF IsSum
  <1> QED
    BY <1>1, <1>4
-----------------------------------------------------------------------------
(* What sums satisfy.                                                      *)

LEMMA SumEmpty == ASSUME NEW fun PROVE SumFunctionOnSet(fun, {}) = 0
  <1>1. PICK g : IsSum(g, fun, {}) /\ SumFunctionOnSet(fun, {}) = g[{}]
    BY FS_EmptySet, SumUnfold
  <1> QED
    BY <1>1 DEF IsSum, SumBody

(* One step of the recursion.                                              *)
LEMMA SumStep ==
  ASSUME NEW fun, NEW S, IsFiniteSet(S), S # {}
  PROVE  /\ IsFiniteSet(S \ {One(S)})
         /\ SumFunctionOnSet(fun, S) = fun[One(S)] + SumFunctionOnSet(fun, S \ {One(S)})
  <1> DEFINE T == S \ {One(S)}
  <1>1. IsFiniteSet(T) /\ T \subseteq S
    BY FS_RemoveElement
  <1>2. PICK g : IsSum(g, fun, S) /\ SumFunctionOnSet(fun, S) = g[S]
    BY SumUnfold
  <1>3. PICK h : IsSum(h, fun, T) /\ SumFunctionOnSet(fun, T) = h[T]
    BY <1>1, SumUnfold
  <1>4. g[T] = h[T]
    <2> HIDE DEF T
    <2> QED
      BY <1>1, <1>2, <1>3, SumsAgree
  <1>5. g[S] = fun[One(S)] + g[T]
    BY <1>2 DEF IsSum, SumBody
  <1> QED
    BY <1>1, <1>2, <1>3, <1>4, <1>5

(* A sum of integers is an integer.                                        *)
LEMMA SumType ==
  ASSUME NEW fun, NEW S, IsFiniteSet(S), \A x \in S : fun[x] \in Int
  PROVE  SumFunctionOnSet(fun, S) \in Int
  <1> DEFINE Bad == {s \in SUBSET S : SumFunctionOnSet(fun, s) \notin Int}
  <1> SUFFICES ASSUME Bad # {} PROVE FALSE
    OBVIOUS
  <1>1. PICK s \in Bad : /\ IsFiniteSet(s)
                         /\ \A t \in Bad : ~(t \subseteq s /\ t # s)
    <2>1. Bad \subseteq SUBSET S
      OBVIOUS
    <2> HIDE DEF Bad
    <2> QED
      BY <2>1, LeastSubset
  <1>2. s # {}
    BY SumEmpty
  <1>3. SumFunctionOnSet(fun, s \ {One(s)}) \in Int
    BY <1>1, <1>2, OneLemma
  <1>4. fun[One(s)] \in Int
    BY <1>2, OneLemma
  <1> QED
    BY <1>1, <1>2, <1>3, <1>4, SumStep

(* A sum depends on the summands only.                                     *)
LEMMA SumSame ==
  ASSUME NEW fun, NEW gun, NEW S, IsFiniteSet(S), \A x \in S : fun[x] = gun[x]
  PROVE  SumFunctionOnSet(fun, S) = SumFunctionOnSet(gun, S)
  <1> DEFINE Bad == {s \in SUBSET S : SumFunctionOnSet(fun, s) # SumFunctionOnSet(gun, s)}
  <1> SUFFICES ASSUME Bad # {} PROVE FALSE
    OBVIOUS
  <1>1. PICK s \in Bad : /\ IsFiniteSet(s)
                         /\ \A t \in Bad : ~(t \subseteq s /\ t # s)
    <2>1. Bad \subseteq SUBSET S
      OBVIOUS
    <2> HIDE DEF Bad
    <2> QED
      BY <2>1, LeastSubset
  <1>2. s # {}
    BY SumEmpty
  <1>3. SumFunctionOnSet(fun, s \ {One(s)}) = SumFunctionOnSet(gun, s \ {One(s)})
    BY <1>1, <1>2, OneLemma
  <1>4. fun[One(s)] = gun[One(s)]
    BY <1>2, OneLemma
  <1> QED
    BY <1>1, <1>2, <1>3, <1>4, SumStep

(* Summands that are all zero.                                             *)
LEMMA SumZero ==
  ASSUME NEW fun, NEW S, IsFiniteSet(S), \A x \in S : fun[x] = 0
  PROVE  SumFunctionOnSet(fun, S) = 0
  <1> DEFINE Bad == {s \in SUBSET S : SumFunctionOnSet(fun, s) # 0}
  <1> SUFFICES ASSUME Bad # {} PROVE FALSE
    OBVIOUS
  <1>1. PICK s \in Bad : /\ IsFiniteSet(s)
                         /\ \A t \in Bad : ~(t \subseteq s /\ t # s)
    <2>1. Bad \subseteq SUBSET S
      OBVIOUS
    <2> HIDE DEF Bad
    <2> QED
      BY <2>1, LeastSubset
  <1>2. s # {}
    BY SumEmpty
  <1>3. SumFunctionOnSet(fun, s \ {One(s)}) = 0 /\ fun[One(s)] = 0
    BY <1>1, <1>2, OneLemma
  <1> QED
    BY <1>1, <1>2, <1>3, SumStep

(* Any one summand can be taken out, whichever the recursion takes first.  *)
LEMMA SumRemove ==
  ASSUME NEW fun, NEW S, IsFiniteSet(S), \A x \in S : fun[x] \in Int, NEW e \in S
  PROVE  SumFunctionOnSet(fun, S) = fun[e] + SumFunctionOnSet(fun, S \ {e})
  <1> DEFINE Sum(s) == SumFunctionOnSet(fun, s)
             Bad == {s \in SUBSET S : \E x \in s : Sum(s) # fun[x] + Sum(s \ {x})}
  <1> SUFFICES ASSUME Bad # {} PROVE FALSE
    OBVIOUS
  <1>1. PICK s \in Bad : /\ IsFiniteSet(s)
                         /\ \A t \in Bad : ~(t \subseteq s /\ t # s)
    <2>1. Bad \subseteq SUBSET S
      OBVIOUS
    <2> HIDE DEF Bad
    <2> QED
      BY <2>1, LeastSubset
  <1>2. PICK x \in s : Sum(s) # fun[x] + Sum(s \ {x})
    OBVIOUS
  <1> DEFINE c == One(s)
  <1>3. c \in s /\ Sum(s) = fun[c] + Sum(s \ {c})
    BY <1>1, OneLemma, SumStep
  <1> HIDE DEF c
  <1>4. c # x
    BY <1>2, <1>3
  <1> DEFINE rest == (s \ {c}) \ {x}
  <1>5. /\ Sum(s \ {c}) = fun[x] + Sum(rest)
        /\ Sum(s \ {x}) = fun[c] + Sum(rest)
    <2>1. s \ {c} \notin Bad /\ s \ {x} \notin Bad
      BY <1>1, <1>3
    <2>2. s \ {c} \in SUBSET S /\ s \ {x} \in SUBSET S
      OBVIOUS
    <2>3. x \in s \ {c} /\ c \in s \ {x} /\ (s \ {x}) \ {c} = rest
      BY <1>3, <1>4
    <2> QED
      BY <2>1, <2>2, <2>3
  <1>6. fun[c] \in Int /\ fun[x] \in Int /\ Sum(rest) \in Int
    <2>1. IsFiniteSet(rest)
      BY <1>1, FS_Subset
    <2> QED
      BY <1>3, <2>1, SumType
  <1> HIDE DEF Sum, rest
  <1> QED
    BY <1>2, <1>3, <1>5, <1>6

(* One more summand.                                                       *)
LEMMA SumAdd ==
  ASSUME NEW fun, NEW S, IsFiniteSet(S), NEW e, e \notin S,
         \A x \in S \cup {e} : fun[x] \in Int
  PROVE  /\ IsFiniteSet(S \cup {e})
         /\ SumFunctionOnSet(fun, S \cup {e}) = fun[e] + SumFunctionOnSet(fun, S)
  <1>1. IsFiniteSet(S \cup {e})
    BY FS_AddElement
  <1>2. (S \cup {e}) \ {e} = S
    OBVIOUS
  <1> QED
    BY <1>1, <1>2, SumRemove

(* The sum over two sets without a common element.                         *)
LEMMA SumUnion ==
  ASSUME NEW fun, NEW S, NEW T, IsFiniteSet(S), IsFiniteSet(T), S \cap T = {},
         \A x \in S \cup T : fun[x] \in Int
  PROVE  SumFunctionOnSet(fun, S \cup T)
           = SumFunctionOnSet(fun, S) + SumFunctionOnSet(fun, T)
  <1> DEFINE Sum(s) == SumFunctionOnSet(fun, s)
             Bad == {t \in SUBSET T : Sum(S \cup t) # Sum(S) + Sum(t)}
  <1> SUFFICES ASSUME Bad # {} PROVE FALSE
    OBVIOUS
  <1>1. PICK t \in Bad : /\ IsFiniteSet(t)
                         /\ \A u \in Bad : ~(u \subseteq t /\ u # t)
    <2>1. Bad \subseteq SUBSET T
      OBVIOUS
    <2> HIDE DEF Bad
    <2> QED
      BY <2>1, LeastSubset
  <1>2. Sum(S) \in Int
    BY SumType
  <1>3. t # {}
    <2>1. S \cup {} = S /\ Sum({}) = 0
      BY SumEmpty
    <2> HIDE DEF Sum
    <2>2. Sum(S \cup {}) = Sum(S) + Sum({})
      BY <1>2, <2>1
    <2> QED
      BY <1>1, <2>2
  <1>4. PICK e \in t : TRUE
    BY <1>3
  <1> DEFINE u == t \ {e}
  <1>5. /\ t \subseteq T /\ u \subseteq T /\ IsFiniteSet(u) /\ IsFiniteSet(S \cup t)
        /\ e \in S \cup t /\ (S \cup t) \ {e} = S \cup u
    <2>1. IsFiniteSet(u)
      BY <1>1, FS_RemoveElement
    <2>2. IsFiniteSet(S \cup t)
      BY <1>1, FS_Union
    <2>3. t \subseteq T /\ e \notin S
      BY <1>1, <1>4
    <2> QED
      BY <1>4, <2>1, <2>2, <2>3
  <1>6. Sum(S \cup t) = fun[e] + Sum(S \cup u) /\ Sum(t) = fun[e] + Sum(u)
    BY <1>1, <1>4, <1>5, SumRemove
  <1>7. Sum(S \cup u) = Sum(S) + Sum(u)
    BY <1>1, <1>4, <1>5
  <1>8. Sum(u) \in Int /\ fun[e] \in Int
    BY <1>4, <1>5, SumType
  <1> HIDE DEF Sum, u
  <1>9. Sum(S \cup t) = Sum(S) + Sum(t)
    BY <1>2, <1>6, <1>7, <1>8
  <1> QED
    BY <1>1, <1>9

(* The sum over a set whose elements f takes one by one to those of the    *)
(* other set, with the same values.                                        *)
LEMMA SumMap ==
  ASSUME NEW fun, NEW gun, NEW S, IsFiniteSet(S), NEW f, \A x \in S : fun[x] \in Int,
         \A x \in S : gun[f[x]] = fun[x], \A x, y \in S : f[x] = f[y] => x = y
  PROVE  SumFunctionOnSet(gun, {f[x] : x \in S}) = SumFunctionOnSet(fun, S)
  <1> DEFINE At(s) == {f[x] : x \in s}
             Bad == {s \in SUBSET S : SumFunctionOnSet(gun, At(s)) # SumFunctionOnSet(fun, s)}
  <1> SUFFICES ASSUME Bad # {} PROVE FALSE
    OBVIOUS
  <1>1. PICK s \in Bad : /\ IsFiniteSet(s)
                         /\ \A t \in Bad : ~(t \subseteq s /\ t # s)
    <2>1. Bad \subseteq SUBSET S
      OBVIOUS
    <2> HIDE DEF Bad
    <2> QED
      BY <2>1, LeastSubset
  <1>2. s # {}
    BY SumEmpty
  <1>3. PICK e \in s : TRUE
    BY <1>2
  <1> DEFINE t == s \ {e}
  <1>4. s \subseteq S /\ t \subseteq S /\ e \notin t /\ IsFiniteSet(t) /\ t \cup {e} = s
    BY <1>1, <1>3, FS_RemoveElement
  <1>5. SumFunctionOnSet(gun, At(t)) = SumFunctionOnSet(fun, t)
    BY <1>1, <1>3, <1>4
  <1>6. At(s) = At(t) \cup {f[e]} /\ f[e] \notin At(t)
    BY <1>3, <1>4
  <1>7. IsFiniteSet(At(t))
    <2> DEFINE g == [x \in t |-> f[x]]
    <2>1. g \in Surjection(t, At(t))
      BY DEF Surjection
    <2> HIDE DEF g, At
    <2> QED
      BY <1>4, <2>1, FS_Surjection
  <1>8. \A y \in At(t) \cup {f[e]} : gun[y] \in Int
    BY <1>3, <1>4
  <1> HIDE DEF At
  <1>9. SumFunctionOnSet(gun, At(s)) = gun[f[e]] + SumFunctionOnSet(gun, At(t))
    BY <1>6, <1>7, <1>8, SumAdd
  <1>10. SumFunctionOnSet(fun, s) = fun[e] + SumFunctionOnSet(fun, t)
    BY <1>1, <1>3, <1>4, SumRemove
  <1>11. gun[f[e]] = fun[e]
    BY <1>3, <1>4
  <1> QED
    BY <1>1, <1>5, <1>9, <1>10, <1>11 DEF At

(* Summands with the opposite sign.                                        *)
LEMMA SumNegate ==
  ASSUME NEW fun, NEW gun, NEW S, IsFiniteSet(S), \A x \in S : fun[x] \in Int,
         \A x \in S : gun[x] = -fun[x]
  PROVE  SumFunctionOnSet(gun, S) = -SumFunctionOnSet(fun, S)
  <1> DEFINE Sum(f, s) == SumFunctionOnSet(f, s)
             Bad == {s \in SUBSET S : Sum(gun, s) # -Sum(fun, s)}
  <1> SUFFICES ASSUME Bad # {} PROVE FALSE
    OBVIOUS
  <1>1. PICK s \in Bad : /\ IsFiniteSet(s)
                         /\ \A t \in Bad : ~(t \subseteq s /\ t # s)
    <2>1. Bad \subseteq SUBSET S
      OBVIOUS
    <2> HIDE DEF Bad
    <2> QED
      BY <2>1, LeastSubset
  <1>2. s # {}
    BY SumEmpty
  <1> DEFINE e == One(s)
             t == s \ {e}
  <1>3. e \in s /\ t \subseteq s /\ t # s /\ IsFiniteSet(t)
    BY <1>1, <1>2, OneLemma, SumStep
  <1>4. Sum(gun, s) = gun[e] + Sum(gun, t) /\ Sum(fun, s) = fun[e] + Sum(fun, t)
    BY <1>1, <1>2, SumStep
  <1>5. Sum(gun, t) = -Sum(fun, t)
    BY <1>1, <1>3
  <1>6. fun[e] \in Int /\ gun[e] = -fun[e]
    BY <1>3
  <1>7. Sum(fun, t) \in Int
    <2>1. \A x \in t : fun[x] \in Int
      BY <1>3
    <2> HIDE DEF t
    <2> QED
      BY <1>3, <2>1, SumType
  <1> HIDE DEF Sum, e, t
  <1>8. Sum(gun, s) = -Sum(fun, s)
    BY <1>4, <1>5, <1>6, <1>7
  <1> QED
    BY <1>1, <1>8

(* Summands that are zero outside a part of the set can be left out.       *)
LEMMA SumPart ==
  ASSUME NEW fun, NEW gun, NEW S, IsFiniteSet(S), NEW T, T \subseteq S,
         \A x \in T : fun[x] \in Int /\ gun[x] = fun[x],
         \A x \in S \ T : gun[x] = 0
  PROVE  SumFunctionOnSet(gun, S) = SumFunctionOnSet(fun, T)
  <1> DEFINE U == S \ T
  <1>1. IsFiniteSet(T) /\ IsFiniteSet(U)
    BY FS_Subset
  <1>2. S = T \cup U /\ T \cap U = {} /\ \A x \in T \cup U : gun[x] \in Int
    OBVIOUS
  <1>3. \A x \in U : gun[x] = 0
    OBVIOUS
  <1> HIDE DEF U
  <1>4. SumFunctionOnSet(gun, T \cup U) = SumFunctionOnSet(gun, T) + SumFunctionOnSet(gun, U)
    BY <1>1, <1>2, SumUnion
  <1>5. SumFunctionOnSet(gun, U) = 0
    BY <1>1, <1>3, SumZero
  <1>6. SumFunctionOnSet(gun, T) = SumFunctionOnSet(fun, T)
    BY <1>1, SumSame
  <1>7. SumFunctionOnSet(fun, T) \in Int
    BY <1>1, SumType
  <1> QED
    BY <1>2, <1>4, <1>5, <1>6, <1>7
(* A sum in parts: part[k] is the sum over the elements with the key k.    *)
InParts(fun, S, key, K, part) ==
  /\ \A x \in S : fun[x] \in Int /\ key[x] \in K
  /\ \A k \in K : part[k] = SumFunctionOnSet(fun, {x \in S : key[x] = k})

(* Such a sum is the sum of its parts.                                     *)
LEMMA SumByKey ==
  ASSUME NEW fun, NEW S, IsFiniteSet(S), NEW key, NEW K, IsFiniteSet(K), NEW part,
         InParts(fun, S, key, K, part)
  PROVE  SumFunctionOnSet(fun, S) = SumFunctionOnSet(part, K)
  <1> DEFINE Of(t) == {x \in S : key[x] \in t}
             Bad == {t \in SUBSET K : SumFunctionOnSet(fun, Of(t)) # SumFunctionOnSet(part, t)}
  <1>0. /\ \A x \in S : fun[x] \in Int /\ key[x] \in K
        /\ \A k \in K : part[k] = SumFunctionOnSet(fun, {x \in S : key[x] = k})
    BY DEF InParts
  <1>1. Of(K) = S /\ Of({}) = {}
    BY <1>0
  <1> SUFFICES ASSUME Bad # {} PROVE FALSE
    <2>1. K \in SUBSET K
      OBVIOUS
    <2> QED
      BY <1>1, <2>1
  <1>2. PICK t \in Bad : /\ IsFiniteSet(t)
                         /\ \A u \in Bad : ~(u \subseteq t /\ u # t)
    <2>1. Bad \subseteq SUBSET K
      OBVIOUS
    <2> HIDE DEF Bad
    <2> QED
      BY <2>1, LeastSubset
  <1>3. t # {}
    BY <1>1, SumEmpty
  <1>4. PICK e \in t : TRUE
    BY <1>3
  <1> DEFINE u == t \ {e}
             one == {x \in S : key[x] = e}
  <1>5. /\ t \subseteq K /\ u \subseteq K /\ e \in K /\ e \notin u /\ IsFiniteSet(u)
        /\ u \cup {e} = t
    BY <1>2, <1>4, FS_RemoveElement
  <1>6. SumFunctionOnSet(fun, Of(u)) = SumFunctionOnSet(part, u)
    BY <1>2, <1>4, <1>5
  <1>7. /\ Of(t) = one \cup Of(u) /\ one \cap Of(u) = {}
        /\ one \subseteq S /\ Of(u) \subseteq S
    BY <1>4
  <1>8. IsFiniteSet(one) /\ IsFiniteSet(Of(u))
    BY <1>7, FS_Subset
  <1>9. ASSUME NEW k \in K PROVE part[k] \in Int
    <2> DEFINE fiber == {x \in S : key[x] = k}
    <2>1. fiber \subseteq S /\ \A x \in fiber : fun[x] \in Int
      BY <1>0
    <2>2. part[k] = SumFunctionOnSet(fun, fiber)
      BY <1>0
    <2> HIDE DEF fiber
    <2>3. IsFiniteSet(fiber)
      BY <2>1, FS_Subset
    <2> QED
      BY <2>1, <2>2, <2>3, SumType
  <1>10. SumFunctionOnSet(part, t) = part[e] + SumFunctionOnSet(part, u)
    <2>1. \A k \in u \cup {e} : part[k] \in Int
      BY <1>5, <1>9
    <2> HIDE DEF u
    <2> QED
      BY <1>5, <2>1, SumAdd
  <1>11. part[e] = SumFunctionOnSet(fun, one)
    BY <1>0, <1>5
  <1> HIDE DEF Of, one, u
  <1>12. SumFunctionOnSet(fun, Of(t)) = SumFunctionOnSet(fun, one) + SumFunctionOnSet(fun, Of(u))
    <2>1. \A x \in one \cup Of(u) : fun[x] \in Int
      BY <1>0, <1>7
    <2> QED
      BY <1>7, <1>8, <2>1, SumUnion
  <1> QED
    BY <1>2, <1>6, <1>10, <1>11, <1>12 DEF Of

(* Summands added up one by one.                                           *)
LEMMA SumPlus ==
  ASSUME NEW fun, NEW gun, NEW hun, NEW S, IsFiniteSet(S),
         \A x \in S : fun[x] \in Int /\ gun[x] \in Int /\ hun[x] = fun[x] + gun[x]
  PROVE  SumFunctionOnSet(hun, S) = SumFunctionOnSet(fun, S) + SumFunctionOnSet(gun, S)
  <1> DEFINE Sum(f, s) == SumFunctionOnSet(f, s)
             Bad == {s \in SUBSET S : Sum(hun, s) # Sum(fun, s) + Sum(gun, s)}
  <1> SUFFICES ASSUME Bad # {} PROVE FALSE
    OBVIOUS
  <1>1. PICK s \in Bad : /\ IsFiniteSet(s)
                         /\ \A t \in Bad : ~(t \subseteq s /\ t # s)
    <2>1. Bad \subseteq SUBSET S
      OBVIOUS
    <2> HIDE DEF Bad
    <2> QED
      BY <2>1, LeastSubset
  <1>2. s # {}
    BY SumEmpty
  <1> DEFINE e == One(s)
             t == s \ {e}
  <1>3. e \in s /\ t \subseteq s /\ t # s /\ IsFiniteSet(t)
    BY <1>1, <1>2, OneLemma, SumStep
  <1>4. /\ Sum(hun, s) = hun[e] + Sum(hun, t) /\ Sum(fun, s) = fun[e] + Sum(fun, t)
        /\ Sum(gun, s) = gun[e] + Sum(gun, t)
    BY <1>1, <1>2, SumStep
  <1>5. Sum(hun, t) = Sum(fun, t) + Sum(gun, t)
    BY <1>1, <1>3
  <1>6. fun[e] \in Int /\ gun[e] \in Int /\ hun[e] = fun[e] + gun[e]
    BY <1>3
  <1>7. Sum(fun, t) \in Int /\ Sum(gun, t) \in Int
    <2>1. \A x \in t : fun[x] \in Int /\ gun[x] \in Int
      BY <1>3
    <2> HIDE DEF t
    <2> QED
      BY <1>3, <2>1, SumType
  <1> HIDE DEF Sum, e, t
  <1>8. Sum(hun, s) = Sum(fun, s) + Sum(gun, s)
    BY <1>4, <1>5, <1>6, <1>7
  <1> QED
    BY <1>1, <1>8
(* Changing one value.                                                     *)
LEMMA SumChange ==
  ASSUME NEW fun, NEW gun, NEW S, IsFiniteSet(S), \A x \in S : fun[x] \in Int /\ gun[x] \in Int,
         NEW e \in S, \A x \in S : x # e => gun[x] = fun[x]
  PROVE  /\ SumFunctionOnSet(fun, S) \in Int
         /\ SumFunctionOnSet(gun, S) = SumFunctionOnSet(fun, S) - fun[e] + gun[e]
  <1>1. SumFunctionOnSet(fun, S) = fun[e] + SumFunctionOnSet(fun, S \ {e})
    BY SumRemove
  <1>2. SumFunctionOnSet(gun, S) = gun[e] + SumFunctionOnSet(gun, S \ {e})
    BY SumRemove
  <1>3. IsFiniteSet(S \ {e})
    BY FS_RemoveElement
  <1>4. SumFunctionOnSet(gun, S \ {e}) = SumFunctionOnSet(fun, S \ {e})
    BY <1>3, SumSame
  <1>5. SumFunctionOnSet(fun, S \ {e}) \in Int
    BY <1>3, SumType
  <1> QED
    BY <1>1, <1>2, <1>4, <1>5

(* The sum over one element.                                               *)
LEMMA SumOne ==
  ASSUME NEW fun, NEW e, fun[e] \in Int
  PROVE  SumFunctionOnSet(fun, {e}) = fun[e]
  <1>1. IsFiniteSet({e})
    BY FS_Singleton
  <1>2. SumFunctionOnSet(fun, {e}) = fun[e] + SumFunctionOnSet(fun, {e} \ {e})
    BY <1>1, SumRemove
  <1>3. {e} \ {e} = {}
    OBVIOUS
  <1> QED
    BY <1>2, <1>3, SumEmpty

(* Sums of natural numbers up to m.                                        *)
LEMMA SumBounded ==
  ASSUME NEW fun, NEW S, IsFiniteSet(S), NEW m \in Nat,
         \A x \in S : fun[x] \in Nat /\ fun[x] <= m
  PROVE  /\ SumFunctionOnSet(fun, S) \in Nat /\ Cardinality(S) * m \in Nat
         /\ SumFunctionOnSet(fun, S) <= Cardinality(S) * m
  <1> DEFINE Fits(s) == /\ SumFunctionOnSet(fun, s) \in Nat /\ Cardinality(s) * m \in Nat
                        /\ SumFunctionOnSet(fun, s) <= Cardinality(s) * m
             Bad == {s \in SUBSET S : ~Fits(s)}
  <1> SUFFICES ASSUME Bad # {} PROVE FALSE
    OBVIOUS
  <1>1. PICK s \in Bad : /\ IsFiniteSet(s)
                         /\ \A t \in Bad : ~(t \subseteq s /\ t # s)
    <2>1. Bad \subseteq SUBSET S
      OBVIOUS
    <2> HIDE DEF Bad
    <2> QED
      BY <2>1, LeastSubset
  <1>2. s # {}
    <2>1. SumFunctionOnSet(fun, {}) = 0 /\ Cardinality({}) = 0
      BY SumEmpty, FS_EmptySet
    <2>2. Fits({})
      BY <2>1
    <2> QED
      BY <2>2
  <1> DEFINE e == One(s)
             t == s \ {e}
  <1>3. e \in s /\ t \subseteq s /\ t # s
    BY <1>2, OneLemma
  <1>4. Fits(t)
    BY <1>1, <1>3
  <1>5. SumFunctionOnSet(fun, s) = fun[e] + SumFunctionOnSet(fun, t)
    BY <1>1, <1>2, SumStep
  <1>6. Cardinality(s) = Cardinality(t) + 1 /\ Cardinality(t) \in Nat
    <2>1. /\ IsFiniteSet(t) /\ Cardinality(t) = Cardinality(s) - 1
          /\ Cardinality(s) \in Nat
      BY <1>1, <1>3, FS_RemoveElement, FS_CardinalityType
    <2>2. Cardinality(t) \in Nat
      BY <2>1, FS_CardinalityType
    <2> QED
      BY <2>1, <2>2
  <1>7. fun[e] \in Nat /\ fun[e] <= m
    BY <1>3
  <1> DEFINE k == Cardinality(t)
             total == SumFunctionOnSet(fun, t)
  <1>8. total \in Nat /\ k \in Nat /\ k * m \in Nat /\ total <= k * m
    BY <1>4, <1>6
  <1> HIDE DEF e, t, k, total
  <1>9. (k + 1) * m = k * m + m
    BY <1>8
  <1>10. fun[e] + total \in Nat /\ (k + 1) * m \in Nat /\ fun[e] + total <= (k + 1) * m
    BY <1>7, <1>8, <1>9
  <1>11. Cardinality(s) = k + 1 /\ SumFunctionOnSet(fun, s) = fun[e] + total
    BY <1>5, <1>6 DEF k, total
  <1>12. Fits(s)
    BY <1>10, <1>11
  <1> QED
    BY <1>1, <1>12

(* A sum of natural numbers is one.                                        *)
LEMMA SumNat ==
  ASSUME NEW fun, NEW S, IsFiniteSet(S), \A x \in S : fun[x] \in Nat
  PROVE  SumFunctionOnSet(fun, S) \in Nat
  <1> DEFINE Bad == {s \in SUBSET S : SumFunctionOnSet(fun, s) \notin Nat}
  <1> SUFFICES ASSUME Bad # {} PROVE FALSE
    OBVIOUS
  <1>1. PICK s \in Bad : /\ IsFiniteSet(s)
                         /\ \A t \in Bad : ~(t \subseteq s /\ t # s)
    <2>1. Bad \subseteq SUBSET S
      OBVIOUS
    <2> HIDE DEF Bad
    <2> QED
      BY <2>1, LeastSubset
  <1>2. s # {}
    BY SumEmpty
  <1>3. SumFunctionOnSet(fun, s \ {One(s)}) \in Nat
    BY <1>1, <1>2, OneLemma
  <1>4. fun[One(s)] \in Nat
    BY <1>2, OneLemma
  <1> QED
    BY <1>1, <1>2, <1>3, <1>4, SumStep
=============================================================================
