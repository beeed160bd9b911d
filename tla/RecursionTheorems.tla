-------------------------- MODULE RecursionTheorems --------------------------
(***************************************************************************)
(* Induction over numbers, finite sets and sequences, for a set instead of *)
(* a predicate; that recursive functions exist; and what the folds of the  *)
(* community modules compute, which are defined by recursion over sets.    *)
(***************************************************************************)
EXTENDS Integers, FiniteSets, Functions, FiniteSetTheorems, SequenceTheorems,
        WellFoundedInduction, TLAPS

\* Induction over the natural numbers.
LEMMA NatSetInduction ==
  ASSUME NEW T, 0 \in T, \A n \in Nat : n \in T => n + 1 \in T
  PROVE  Nat \subseteq T
<1>. DEFINE R == OpToRel(<, Nat)
<1>1. SUFFICES ASSUME Nat \ T # {} PROVE FALSE
  OBVIOUS
<1>2. PICK x \in Nat \ T : \A y \in Nat \ T : ~(<<y, x>> \in R)
  <2>1. IsWellFoundedOn(R, Nat)
    BY NatLessThanWellFounded, Zenon
  <2>. HIDE DEF R
  <2>. QED  BY <2>1, <1>1, WFMin, Zenon
<1>3. x - 1 \in Nat /\ (x - 1) + 1 = x
  OBVIOUS
<1>4. x - 1 \notin T
  BY <1>3
<1>5. <<x - 1, x>> \in R
  BY <1>3 DEF OpToRel
<1>. QED  BY <1>2, <1>3, <1>4, <1>5, Zenon

\* Induction over the subsets of a finite set, one element less at a time.
LEMMA FiniteSetInduction ==
  ASSUME NEW S, IsFiniteSet(S), NEW Good, {} \in Good,
         \A T \in SUBSET S : T # {} /\ (\A x \in T : T \ {x} \in Good) => T \in Good
  PROVE  SUBSET S \subseteq Good
<1>. DEFINE Sized == {n \in Nat : \A T \in SUBSET S : Cardinality(T) = n => T \in Good}
<1>1. \A T \in SUBSET S : IsFiniteSet(T) /\ Cardinality(T) \in Nat
  BY FS_Subset, FS_CardinalityType
<1>2. 0 \in Sized
  BY <1>1, FS_EmptySet
<1>3. ASSUME NEW n \in Nat, n \in Sized PROVE n + 1 \in Sized
  <2>. SUFFICES ASSUME NEW T \in SUBSET S, Cardinality(T) = n + 1 PROVE T \in Good
    OBVIOUS
  <2>1. \A x \in T : Cardinality(T \ {x}) = n
    BY <1>1, FS_RemoveElement
  <2>2. \A x \in T : T \ {x} \in Good
    BY <1>3, <2>1
  <2>3. T # {}
    BY FS_EmptySet
  <2>. QED  BY <2>2, <2>3
<1>4. Nat \subseteq Sized
  <2>. HIDE DEF Sized
  <2>. QED  BY <1>2, <1>3, NatSetInduction
<1>. QED  BY <1>1, <1>4

\* Induction over sequences, one element appended at a time.
LEMMA SeqSetInduction ==
  ASSUME NEW S, NEW Good, <<>> \in Good,
         \A s \in Seq(S) : \A e \in S : s \in Good => Append(s, e) \in Good
  PROVE  Seq(S) \subseteq Good
<1>. DEFINE T == {n \in Nat : \A s \in Seq(S) : Len(s) = n => s \in Good}
<1>1. 0 \in T
  OBVIOUS
<1>2. ASSUME NEW n \in Nat, n \in T PROVE n + 1 \in T
  <2>. SUFFICES ASSUME NEW s \in Seq(S), Len(s) = n + 1 PROVE s \in Good
    OBVIOUS
  <2>1. s # <<>>
    OBVIOUS
  <2>2. /\ SubSeq(s, 1, n) \in Seq(S) /\ Len(SubSeq(s, 1, n)) = n
        /\ s[n + 1] \in S /\ s = Append(SubSeq(s, 1, n), s[n + 1])
    OBVIOUS
  <2>. QED  BY <1>2, <2>2
<1>3. Nat \subseteq T
  <2>. HIDE DEF T
  <2>. QED  BY <1>1, <1>2, NatSetInduction
<1>. QED  BY <1>3, LenProperties

-----------------------------------------------------------------------------
(***************************************************************************)
(* The least and the greatest of some numbers.                             *)
(***************************************************************************)
LEMMA LeastOfSome ==
  ASSUME NEW S, S \subseteq Nat, NEW n \in S
  PROVE  \E x \in S : \A y \in S : x <= y
<1>. DEFINE T == {m \in Nat : (\E x \in S : x <= m) => \E x \in S : \A y \in S : x <= y}
<1>1. 0 \in T
  OBVIOUS
<1>2. ASSUME NEW m \in Nat, m \in T PROVE m + 1 \in T
  <2>. SUFFICES ASSUME NEW x \in S, x <= m + 1 PROVE \E z \in S : \A y \in S : z <= y
    OBVIOUS
  <2>1. CASE \E y \in S : y <= m
    BY <1>2, <2>1
  <2>2. CASE \A y \in S : ~(y <= m)
    <3>1. \A y \in S : x <= y
      BY <2>2
    <3>. QED  BY <3>1
  <2>. QED  BY <2>1, <2>2
<1>3. Nat \subseteq T
  <2>. HIDE DEF T
  <2>. QED  BY <1>1, <1>2, NatSetInduction
<1>4. n \in T /\ n <= n
  <2>. HIDE DEF T
  <2>. QED  BY <1>3
<1>. QED  BY <1>4

Greatest(t) == CHOOSE x \in t : \A y \in t : x >= y

LEMMA GreatestOfSome ==
  ASSUME NEW n \in Nat, NEW t \in SUBSET (1..n), t # {}
  PROVE  Greatest(t) \in t /\ \A y \in t : y <= Greatest(t)
<1>. DEFINE T == {m \in Nat : \A u : u \subseteq 1..m /\ u # {} => \E x \in u : \A y \in u : x >= y}
<1>1. 0 \in T
  <2>1. 1..0 = {}
    OBVIOUS
  <2>. QED  BY <2>1
<1>2. ASSUME NEW m \in Nat, m \in T PROVE m + 1 \in T
  <2>. SUFFICES ASSUME NEW u, u \subseteq 1..(m + 1), u # {} PROVE \E x \in u : \A y \in u : x >= y
    OBVIOUS
  <2>1. CASE m + 1 \in u
    BY <2>1
  <2>2. CASE m + 1 \notin u
    <3>1. u \subseteq 1..m
      BY <2>2
    <3>. QED  BY <1>2, <3>1
  <2>. QED  BY <2>1, <2>2
<1>3. Nat \subseteq T
  <2>. HIDE DEF T
  <2>. QED  BY <1>1, <1>2, NatSetInduction
<1>4. \E x \in t : \A y \in t : x >= y
  BY <1>3
<1>. QED  BY <1>4 DEF Greatest

LEMMA GreatestOfInterval ==
  ASSUME NEW n \in Nat \ {0}
  PROVE  Greatest(1..n) = n /\ (1..n) \ {n} = 1..(n - 1) /\ n \in 1..n
<1>1. n \in 1..n
  OBVIOUS
<1>2. Greatest(1..n) \in 1..n /\ n <= Greatest(1..n)
  BY <1>1, GreatestOfSome
<1>. QED  BY <1>1, <1>2

-----------------------------------------------------------------------------
(***************************************************************************)
(* A function that goes from a number to a smaller one exists: first gives *)
(* its values on low, G the others from the value at prev.                 *)
(***************************************************************************)
Recursion(f, S, low, first, prev, G) ==
    \A n \in S : f[n] = IF n \in low THEN first[n] ELSE G[<<n, f[prev[n]]>>]

Descends(prev, low) == \A n \in Nat \ low : prev[n] \in Nat /\ prev[n] < n

LEMMA RecursionUpTo ==
  ASSUME NEW V, NEW low, NEW first \in [Nat -> V], NEW prev, Descends(prev, low),
         NEW G \in [Nat \X V -> V]
  PROVE  \A n \in Nat : \E p \in [0..n -> V] : Recursion(p, 0..n, low, first, prev, G)
<1>. DEFINE T == {n \in Nat : \E p \in [0..n -> V] : Recursion(p, 0..n, low, first, prev, G)}
<1>1. 0 \in T
  <2>. DEFINE p == [i \in 0..0 |-> first[0]]
  <2>1. 0 \in low
    <3>1. 0 \notin low => prev[0] < 0 /\ prev[0] \in Nat
      BY DEF Descends
    <3>. QED  BY <3>1
  <2>2. p \in [0..0 -> V] /\ \A i \in 0..0 : i \in low /\ p[i] = first[i]
    BY <2>1
  <2>3. Recursion(p, 0..0, low, first, prev, G)
    <3>. HIDE DEF p
    <3>. QED  BY <2>2 DEF Recursion
  <2>. HIDE DEF p
  <2>. QED  BY <2>2, <2>3
<1>2. ASSUME NEW n \in Nat, n \in T PROVE n + 1 \in T
  <2>1. PICK p \in [0..n -> V] : Recursion(p, 0..n, low, first, prev, G)
    BY <1>2
  <2>. DEFINE last == IF n + 1 \in low THEN first[n + 1] ELSE G[<<n + 1, p[prev[n + 1]]>>]
              q == [i \in 0..(n + 1) |-> IF i = n + 1 THEN last ELSE p[i]]
  <2>2. n + 1 \notin low => prev[n + 1] \in 0..n
    <3>1. n + 1 \in Nat
      OBVIOUS
    <3>2. n + 1 \notin low => prev[n + 1] \in Nat /\ prev[n + 1] < n + 1
      BY <3>1 DEF Descends
    <3>. QED  BY <3>2
  <2>3. last \in V
    BY <2>1, <2>2, n + 1 \in Nat
  <2>4. q \in [0..(n + 1) -> V] /\ q[n + 1] = last /\ \A i \in 0..n : q[i] = p[i]
    <3>. HIDE DEF last
    <3>. QED  BY <2>1, <2>3
  <2>. HIDE DEF q
  <2>5. ASSUME NEW i \in 0..n
        PROVE  q[i] = IF i \in low THEN first[i] ELSE G[<<i, q[prev[i]]>>]
    <3>1. i \notin low => prev[i] \in 0..n
      <4>1. i \notin low => prev[i] \in Nat /\ prev[i] < i
        BY DEF Descends
      <4>. QED  BY <4>1
    <3>2. p[i] = IF i \in low THEN first[i] ELSE G[<<i, p[prev[i]]>>]
      BY <2>1 DEF Recursion
    <3>. QED  BY <2>4, <3>1, <3>2
  <2>6. q[n + 1] = IF n + 1 \in low THEN first[n + 1] ELSE G[<<n + 1, q[prev[n + 1]]>>]
    BY <2>2, <2>4
  <2>7. \A i \in 0..(n + 1) : i \in 0..n \/ i = n + 1
    OBVIOUS
  <2>8. Recursion(q, 0..(n + 1), low, first, prev, G)
    <3>. HIDE DEF last
    <3>. QED  BY <2>5, <2>6, <2>7, Zenon DEF Recursion
  <2>. QED  BY <2>4, <2>8
<1>3. Nat \subseteq T
  <2>. HIDE DEF T
  <2>. QED  BY <1>1, <1>2, NatSetInduction
<1>. QED  BY <1>3

LEMMA RecursionUnique ==
  ASSUME NEW low, NEW first, NEW prev, Descends(prev, low), NEW G
  PROVE  \A n \in Nat : \A m \in 0..n : \A p, q :
           Recursion(p, 0..m, low, first, prev, G) /\ Recursion(q, 0..n, low, first, prev, G)
             => p[m] = q[m]
<1>. SUFFICES ASSUME NEW n \in Nat, NEW m \in 0..n,
                     NEW p, Recursion(p, 0..m, low, first, prev, G),
                     NEW q, Recursion(q, 0..n, low, first, prev, G)
              PROVE  p[m] = q[m]
  OBVIOUS
<1>. DEFINE T == {k \in Nat : \A i \in 0..k : i <= m => p[i] = q[i]}
<1>0. ASSUME NEW i \in 0..m, i \notin low => p[prev[i]] = q[prev[i]]
      PROVE  p[i] = q[i]
  <2>1. i \in 0..n
    OBVIOUS
  <2>2. p[i] = IF i \in low THEN first[i] ELSE G[<<i, p[prev[i]]>>]
    BY DEF Recursion
  <2>3. q[i] = IF i \in low THEN first[i] ELSE G[<<i, q[prev[i]]>>]
    BY <2>1 DEF Recursion
  <2>. QED  BY <1>0, <2>2, <2>3
<1>1. 0 \in T
  <2>1. 0 \in low
    <3>1. 0 \notin low => prev[0] < 0 /\ prev[0] \in Nat
      BY DEF Descends
    <3>. QED  BY <3>1
  <2>2. 0 \in 0..m
    OBVIOUS
  <2>3. p[0] = q[0]
    BY <1>0, <2>1, <2>2
  <2>4. \A i \in 0..0 : i = 0
    OBVIOUS
  <2>. QED  BY <2>3, <2>4
<1>2. ASSUME NEW k \in Nat, k \in T PROVE k + 1 \in T
  <2>. SUFFICES ASSUME NEW i \in 0..(k + 1), i <= m PROVE p[i] = q[i]
    OBVIOUS
  <2>1. CASE i \in 0..k
    BY <1>2, <2>1
  <2>2. CASE i \notin 0..k
    <3>1. i \in 0..m
      OBVIOUS
    <3>2. i \notin low => prev[i] \in 0..k /\ prev[i] <= m
      <4>0. i \in Nat /\ m \in Nat
        OBVIOUS
      <4>1. i \notin low => prev[i] \in Nat /\ prev[i] < i
        BY <4>0 DEF Descends
      <4>2. i <= m /\ i <= k + 1
        OBVIOUS
      <4>. HIDE DEF T
      <4>. QED  BY <4>0, <4>1, <4>2
    <3>3. i \notin low => p[prev[i]] = q[prev[i]]
      BY <1>2, <3>2
    <3>. QED  BY <1>0, <3>1, <3>3
  <2>. QED  BY <2>1, <2>2
<1>3. Nat \subseteq T
  <2>. HIDE DEF T
  <2>. QED  BY <1>1, <1>2, NatSetInduction
<1>4. m \in 0..m
  OBVIOUS
<1>5. m \in T
  <2>. HIDE DEF T
  <2>. QED  BY <1>3
<1>. QED  BY <1>4, <1>5

LEMMA RecursionExists ==
  ASSUME NEW V, NEW low, NEW first \in [Nat -> V], NEW prev, Descends(prev, low),
         NEW G \in [Nat \X V -> V]
  PROVE  \E f \in [Nat -> V] : Recursion(f, Nat, low, first, prev, G)
<1>. DEFINE upTo(n) == CHOOSE p \in [0..n -> V] : Recursion(p, 0..n, low, first, prev, G)
            f == [n \in Nat |-> upTo(n)[n]]
<1>0. \A n \in Nat : \A m \in 0..n : \A p, q :
        Recursion(p, 0..m, low, first, prev, G) /\ Recursion(q, 0..n, low, first, prev, G)
          => p[m] = q[m]
  BY RecursionUnique
<1>1. \A n \in Nat : upTo(n) \in [0..n -> V] /\ Recursion(upTo(n), 0..n, low, first, prev, G)
  BY RecursionUpTo
<1>. HIDE DEF upTo
<1>2. f \in [Nat -> V]
  BY <1>1
<1>3. ASSUME NEW n \in Nat
      PROVE  f[n] = IF n \in low THEN first[n] ELSE G[<<n, f[prev[n]]>>]
  <2>1. f[n] = IF n \in low THEN first[n] ELSE G[<<n, upTo(n)[prev[n]]>>]
    <3>1. n \in 0..n /\ f[n] = upTo(n)[n] /\ Recursion(upTo(n), 0..n, low, first, prev, G)
      BY <1>1
    <3>. HIDE DEF f
    <3>. QED  BY <3>1, Zenon DEF Recursion
  <2>2. n \notin low => prev[n] \in Nat /\ prev[n] <= n
    BY DEF Descends
  <2>3. n \notin low => upTo(prev[n])[prev[n]] = upTo(n)[prev[n]]
    <3>. SUFFICES ASSUME n \notin low PROVE upTo(prev[n])[prev[n]] = upTo(n)[prev[n]]
      OBVIOUS
    <3>1. prev[n] \in Nat /\ prev[n] <= n
      BY <2>2
    <3>2. /\ Recursion(upTo(n), 0..n, low, first, prev, G)
          /\ Recursion(upTo(prev[n]), 0..prev[n], low, first, prev, G)
      BY <1>1, <3>1
    <3>. DEFINE m == prev[n]
                p == upTo(m)
                q == upTo(n)
    <3>3. /\ m \in 0..n
          /\ Recursion(p, 0..m, low, first, prev, G) /\ Recursion(q, 0..n, low, first, prev, G)
      BY <3>1, <3>2
    <3>. HIDE DEF f, m, p, q
    <3>5. p[m] = q[m]
      BY <1>0, <3>3, Zenon
    <3>. QED  BY <3>5 DEF m, p, q
  <2>. QED  BY <2>1, <2>2, <2>3
<1>. HIDE DEF f
<1>. QED  BY <1>2, <1>3 DEF Recursion

-----------------------------------------------------------------------------
(***************************************************************************)
(* A fold over a sequence, from the greatest of a set of its places down.  *)
(***************************************************************************)
Folds(it, G, base, s, n) ==
    it = [t \in SUBSET (1..n) |->
            IF t = {} THEN base ELSE G[<<it[t \ {Greatest(t)}], s[Greatest(t)]>>]]

LEMMA FoldExists ==
  ASSUME NEW V, NEW D, NEW base \in V, NEW G \in [V \X D -> V], NEW s \in Seq(D)
  PROVE  \E it \in [SUBSET (1..Len(s)) -> V] : Folds(it, G, base, s, Len(s))
<1>. DEFINE Foldable(n) == \E it \in [SUBSET (1..n) -> V] : Folds(it, G, base, s, n)
            T == {n \in Nat : n <= Len(s) => Foldable(n)}
<1>0. Len(s) \in Nat /\ \A i \in 1..Len(s) : s[i] \in D
  BY LenProperties
<1>1. 0 \in T
  <2>. DEFINE it == [t \in SUBSET (1..0) |-> base]
  <2>1. \A t \in SUBSET (1..0) : t = {}
    OBVIOUS
  <2>2. it \in [SUBSET (1..0) -> V] /\ Folds(it, G, base, s, 0)
    BY <2>1 DEF Folds
  <2>. QED  BY <2>2
<1>2. ASSUME NEW n \in Nat, n \in T PROVE n + 1 \in T
  <2>. SUFFICES ASSUME n + 1 <= Len(s) PROVE Foldable(n + 1)
    <3>. HIDE DEF Foldable
    <3>. QED  OBVIOUS
  <2>0. Foldable(n)
    <3>. HIDE DEF Foldable
    <3>. QED  BY <1>0, <1>2
  <2>1. PICK it \in [SUBSET (1..n) -> V] : Folds(it, G, base, s, n)
    BY <2>0
  <2>. DEFINE Step(f, t) == IF t = {} THEN base ELSE G[<<f[t \ {Greatest(t)}], s[Greatest(t)]>>]
              next == [t \in SUBSET (1..(n + 1)) |-> Step(it, t)]
  <2>2. \A t \in SUBSET (1..(n + 1)) : t # {} => /\ Greatest(t) \in 1..(n + 1)
                                                 /\ t \ {Greatest(t)} \in SUBSET (1..n)
                                                 /\ t \ {Greatest(t)} \in SUBSET (1..(n + 1))
    <3>. SUFFICES ASSUME NEW t \in SUBSET (1..(n + 1)), t # {}
                  PROVE  Greatest(t) \in 1..(n + 1) /\ t \ {Greatest(t)} \subseteq 1..n
      OBVIOUS
    <3>1. Greatest(t) \in t /\ \A y \in t : y <= Greatest(t)
      BY GreatestOfSome, n + 1 \in Nat
    <3>2. \A y \in t : y \in 1..(n + 1)
      OBVIOUS
    <3>3. ASSUME NEW y \in t, y # Greatest(t) PROVE y \in 1..n
      <4>1. y \in 1..(n + 1) /\ Greatest(t) \in 1..(n + 1) /\ y <= Greatest(t)
        BY <3>1, <3>2
      <4>. QED  BY <3>3, <4>1
    <3>4. Greatest(t) \in 1..(n + 1)
      BY <3>1, <3>2
    <3>. QED  BY <3>3, <3>4
  <2>3. SUBSET (1..n) \subseteq SUBSET (1..(n + 1))
    OBVIOUS
  <2>4. \A u \in SUBSET (1..n) : next[u] = it[u]
    <3>1. \A u \in SUBSET (1..n) : it[u] = Step(it, u)
      BY <2>1 DEF Folds
    <3>. QED  BY <2>3, <3>1
  <2>5. \A t \in SUBSET (1..(n + 1)) : Step(next, t) = Step(it, t)
    <3>. HIDE DEF next
    <3>. QED  BY <2>2, <2>4
  <2>6. next \in [SUBSET (1..(n + 1)) -> V]
    <3>1. \A t \in SUBSET (1..(n + 1)) : Step(it, t) \in V
      <4>1. \A i \in 1..(n + 1) : s[i] \in D
        BY <1>0
      <4>. QED  BY <2>1, <2>2, <4>1
    <3>. HIDE DEF Step
    <3>. QED  BY <3>1
  <2>7. next = [t \in SUBSET (1..(n + 1)) |-> Step(next, t)]
    <3>1. [t \in SUBSET (1..(n + 1)) |-> Step(it, t)] = [t \in SUBSET (1..(n + 1)) |-> Step(next, t)]
      <4>. HIDE DEF next, Step
      <4>. QED  BY <2>5, Zenon
    <3>. QED  BY <3>1, Zenon
  <2>8. Folds(next, G, base, s, n + 1)
    <3>. HIDE DEF next
    <3>. QED  BY <2>7 DEF Folds
  <2>. HIDE DEF next
  <2>. QED  BY <2>6, <2>8
<1>3. Nat \subseteq T
  <2>. HIDE DEF T
  <2>. QED  BY <1>1, <1>2, NatSetInduction
<1>4. Foldable(Len(s))
  <2>. HIDE DEF Foldable
  <2>. QED  BY <1>0, <1>3
<1>. QED  BY <1>4

-----------------------------------------------------------------------------
(***************************************************************************)
(* Sums: the recursive function inside SumFunctionOnSet, which picks       *)
(* elements with CHOOSE, exists and is unique.                             *)
(***************************************************************************)
Chosen(s) == CHOOSE x \in s : TRUE

SumStep(it, f, s) == IF s = {} THEN 0 ELSE f[Chosen(s)] + it[s \ {Chosen(s)}]

Solves(it, f, S) == it = [s \in SUBSET S |-> SumStep(it, f, s)]

LEMMA SumIsChosen ==
  ASSUME NEW f, NEW S
  PROVE  SumFunctionOnSet(f, S) = (CHOOSE it : Solves(it, f, S))[S]
BY Zenon DEF SumFunctionOnSet, FoldFunctionOnSet, MapThenFoldSet, Solves, SumStep, Chosen

LEMMA ChosenInside == ASSUME NEW s, s # {} PROVE Chosen(s) \in s
BY DEF Chosen

LEMMA SolutionExists ==
  ASSUME NEW S, IsFiniteSet(S), NEW f
  PROVE  \E it : Solves(it, f, S)
<1>. DEFINE Small(n) == {s \in SUBSET S : Cardinality(s) <= n}
            Partial(it, n) == it = [s \in Small(n) |-> SumStep(it, f, s)]
            Reached == {n \in Nat : \E it : Partial(it, n)}
<1>1. \A T \in SUBSET S : IsFiniteSet(T) /\ Cardinality(T) \in Nat
  BY FS_Subset, FS_CardinalityType
<1>2. 0 \in Reached
  <2>. DEFINE it0 == [s \in Small(0) |-> 0]
  <2>1. \A s \in Small(0) : s = {}
    BY <1>1, FS_EmptySet
  <2>2. Partial(it0, 0)
    BY <2>1 DEF SumStep
  <2>. QED  BY <2>2
<1>3. ASSUME NEW n \in Nat, n \in Reached PROVE n + 1 \in Reached
  <2>1. PICK it : Partial(it, n)
    BY <1>3
  <2>. DEFINE next == [s \in Small(n + 1) |-> SumStep(it, f, s)]
  <2>2. ASSUME NEW s \in Small(n + 1), s # {}
        PROVE  next[s \ {Chosen(s)}] = it[s \ {Chosen(s)}]
    <3>. DEFINE u == s \ {Chosen(s)}
    <3>1. Cardinality(u) = Cardinality(s) - 1
      BY <1>1, <2>2, ChosenInside, FS_RemoveElement
    <3>2. u \in Small(n) /\ u \in Small(n + 1)
      BY <1>1, <3>1
    <3>. QED  BY <2>1, <3>2
  <2>3. ASSUME NEW s \in Small(n + 1) PROVE SumStep(next, f, s) = SumStep(it, f, s)
    <3>1. CASE s = {}
      BY <3>1 DEF SumStep
    <3>2. CASE s # {}
      <4>1. next[s \ {Chosen(s)}] = it[s \ {Chosen(s)}]
        BY <2>2, <3>2
      <4>. HIDE DEF next
      <4>. QED  BY <3>2, <4>1 DEF SumStep
    <3>. QED  BY <3>1, <3>2
  <2>4. next = [s \in Small(n + 1) |-> SumStep(next, f, s)]
    <3>1. [s \in Small(n + 1) |-> SumStep(it, f, s)] = [s \in Small(n + 1) |-> SumStep(next, f, s)]
      <4>. HIDE DEF next, Small
      <4>. QED  BY <2>3, Zenon
    <3>. QED  BY <3>1, Zenon
  <2>5. Partial(next, n + 1)
    <3>. HIDE DEF next
    <3>. QED  BY <2>4
  <2>6. \E jt : Partial(jt, n + 1)
    <3>. HIDE DEF next, Partial
    <3>. QED  BY <2>5
  <2>. HIDE DEF Partial
  <2>. QED  BY <2>6
<1>4. Nat \subseteq Reached
  <2>. HIDE DEF Reached
  <2>. QED  BY <1>2, <1>3, NatSetInduction
<1>5. Small(Cardinality(S)) = SUBSET S
  BY <1>1, FS_Subset
<1>6. Cardinality(S) \in Reached
  BY <1>4, FS_CardinalityType
<1>. QED  BY <1>5, <1>6 DEF Solves

LEMMA SolutionUnique ==
  ASSUME NEW S, IsFiniteSet(S), NEW f, NEW it, Solves(it, f, S),
         NEW T \in SUBSET S, NEW jt, Solves(jt, f, T)
  PROVE  it[T] = jt[T]
<1>. DEFINE Good == {U \in SUBSET T : it[U] = jt[U]}
<1>1. IsFiniteSet(T)
  BY FS_Subset
<1>2. {} \in Good
  BY DEF Solves, SumStep
<1>3. ASSUME NEW U \in SUBSET T, U # {}, \A x \in U : U \ {x} \in Good
      PROVE  U \in Good
  <2>1. it[U \ {Chosen(U)}] = jt[U \ {Chosen(U)}]
    BY <1>3, ChosenInside
  <2>2. it[U] = SumStep(it, f, U) /\ jt[U] = SumStep(jt, f, U)
    BY DEF Solves
  <2>. QED  BY <1>3, <2>1, <2>2 DEF SumStep
<1>4. SUBSET T \subseteq Good
  <2>. HIDE DEF Good
  <2>. QED  BY <1>1, <1>2, <1>3, FiniteSetInduction
<1>. QED  BY <1>4

\* The value at any subset of a solution over S is the sum over that subset.
LEMMA SolutionIsSum ==
  ASSUME NEW S, IsFiniteSet(S), NEW f, NEW it, Solves(it, f, S), NEW T \in SUBSET S
  PROVE  it[T] = SumFunctionOnSet(f, T)
<1>1. IsFiniteSet(T)
  BY FS_Subset
<1>2. Solves(CHOOSE jt : Solves(jt, f, T), f, T)
  BY <1>1, SolutionExists
<1>. QED  BY <1>2, SolutionUnique, SumIsChosen

-----------------------------------------------------------------------------
(***************************************************************************)
(* What is used elsewhere.                                                 *)
(***************************************************************************)
LEMMA SumEmpty == ASSUME NEW f PROVE SumFunctionOnSet(f, {}) = 0
<1>1. IsFiniteSet({})
  BY FS_EmptySet
<1>2. PICK it : Solves(it, f, {})
  BY <1>1, SolutionExists
<1>3. it[{}] = 0
  BY <1>2 DEF Solves, SumStep
<1>. QED  BY <1>1, <1>2, <1>3, SolutionIsSum

LEMMA SumChosen ==
  ASSUME NEW S, IsFiniteSet(S), S # {}, NEW f
  PROVE  SumFunctionOnSet(f, S) = f[Chosen(S)] + SumFunctionOnSet(f, S \ {Chosen(S)})
<1>1. PICK it : Solves(it, f, S)
  BY SolutionExists
<1>2. it[S] = f[Chosen(S)] + it[S \ {Chosen(S)}]
  BY <1>1 DEF Solves, SumStep
<1>. QED  BY <1>1, <1>2, SolutionIsSum

LEMMA SumSame ==
  ASSUME NEW S, IsFiniteSet(S), NEW f, NEW g, \A x \in S : f[x] = g[x]
  PROVE  SumFunctionOnSet(f, S) = SumFunctionOnSet(g, S)
<1>. DEFINE Good == {T \in SUBSET S : SumFunctionOnSet(f, T) = SumFunctionOnSet(g, T)}
<1>1. {} \in Good
  BY SumEmpty
<1>2. ASSUME NEW T \in SUBSET S, T # {}, \A x \in T : T \ {x} \in Good
      PROVE  T \in Good
  <2>1. Chosen(T) \in T /\ IsFiniteSet(T)
    BY <1>2, ChosenInside, FS_Subset
  <2>2. SumFunctionOnSet(f, T \ {Chosen(T)}) = SumFunctionOnSet(g, T \ {Chosen(T)})
    BY <1>2, <2>1
  <2>3. f[Chosen(T)] = g[Chosen(T)]
    BY <2>1
  <2>. QED  BY <1>2, <2>1, <2>2, <2>3, SumChosen
<1>3. SUBSET S \subseteq Good
  <2>. HIDE DEF Good
  <2>. QED  BY <1>1, <1>2, FiniteSetInduction
<1>. QED  BY <1>3

LEMMA SumInt ==
  ASSUME NEW S, IsFiniteSet(S), NEW f, \A x \in S : f[x] \in Int
  PROVE  SumFunctionOnSet(f, S) \in Int
<1>. DEFINE Good == {T \in SUBSET S : SumFunctionOnSet(f, T) \in Int}
<1>1. {} \in Good
  BY SumEmpty
<1>2. ASSUME NEW T \in SUBSET S, T # {}, \A x \in T : T \ {x} \in Good
      PROVE  T \in Good
  <2>1. Chosen(T) \in T /\ IsFiniteSet(T)
    BY <1>2, ChosenInside, FS_Subset
  <2>2. SumFunctionOnSet(f, T \ {Chosen(T)}) \in Int /\ f[Chosen(T)] \in Int
    BY <1>2, <2>1
  <2>3. SumFunctionOnSet(f, T) = f[Chosen(T)] + SumFunctionOnSet(f, T \ {Chosen(T)})
    BY <1>2, <2>1, SumChosen
  <2>. QED  BY <2>2, <2>3
<1>3. SUBSET S \subseteq Good
  <2>. HIDE DEF Good
  <2>. QED  BY <1>1, <1>2, FiniteSetInduction
<1>. QED  BY <1>3

\* Any element may be taken out first, not only the chosen one.
LEMMA SumRemove ==
  ASSUME NEW S, IsFiniteSet(S), NEW f, \A x \in S : f[x] \in Int, NEW e \in S
  PROVE  SumFunctionOnSet(f, S) = f[e] + SumFunctionOnSet(f, S \ {e})
<1>. DEFINE Sum(T) == SumFunctionOnSet(f, T)
            Good == {T \in SUBSET S : \A x \in T : Sum(T) = f[x] + Sum(T \ {x})}
<1>1. {} \in Good
  OBVIOUS
<1>2. ASSUME NEW T \in SUBSET S, T # {}, \A x \in T : T \ {x} \in Good
      PROVE  T \in Good
  <2>. SUFFICES ASSUME NEW x \in T PROVE Sum(T) = f[x] + Sum(T \ {x})
    OBVIOUS
  <2>. DEFINE c == Chosen(T)
  <2>1. c \in T /\ IsFiniteSet(T)
    BY <1>2, ChosenInside, FS_Subset
  <2>2. Sum(T) = f[c] + Sum(T \ {c})
    BY <1>2, <2>1, SumChosen
  <2>3. CASE x = c
    BY <2>2, <2>3
  <2>4. CASE x # c
    <3>. HIDE DEF c
    <3>1. Sum(T \ {c}) = f[x] + Sum((T \ {c}) \ {x})
      BY <1>2, <2>1, <2>4
    <3>2. Sum(T \ {x}) = f[c] + Sum((T \ {x}) \ {c})
      BY <1>2, <2>1, <2>4
    <3>3. (T \ {x}) \ {c} = (T \ {c}) \ {x}
      OBVIOUS
    <3>4. IsFiniteSet((T \ {c}) \ {x})
      BY FS_Subset
    <3>5. Sum((T \ {c}) \ {x}) \in Int /\ f[x] \in Int /\ f[c] \in Int
      BY <2>1, <3>4, SumInt
    <3>6. Sum((T \ {x}) \ {c}) = Sum((T \ {c}) \ {x})
      BY <3>3, Zenon
    <3>. QED  BY <2>2, <3>1, <3>2, <3>5, <3>6
  <2>. QED  BY <2>3, <2>4
<1>3. SUBSET S \subseteq Good
  <2>. HIDE DEF Good
  <2>. QED  BY <1>1, <1>2, FiniteSetInduction
<1>. QED  BY <1>3

\* One term changes: the sum changes by as much.
LEMMA SumChange ==
  ASSUME NEW S, IsFiniteSet(S), NEW f, NEW g, NEW e \in S,
         \A x \in S : f[x] \in Int, g[e] \in Int,
         \A x \in S \ {e} : g[x] = f[x]
  PROVE  SumFunctionOnSet(g, S) = SumFunctionOnSet(f, S) + (g[e] - f[e])
<1>1. \A x \in S : g[x] \in Int
  OBVIOUS
<1>2. IsFiniteSet(S \ {e})
  BY FS_Subset
<1>3. SumFunctionOnSet(g, S \ {e}) = SumFunctionOnSet(f, S \ {e})
  BY <1>2, SumSame
<1>4. SumFunctionOnSet(f, S \ {e}) \in Int
  BY <1>2, SumInt
<1>5. SumFunctionOnSet(g, S) = g[e] + SumFunctionOnSet(g, S \ {e})
  BY <1>1, SumRemove
<1>6. SumFunctionOnSet(f, S) = f[e] + SumFunctionOnSet(f, S \ {e})
  BY SumRemove
<1>. QED  BY <1>3, <1>4, <1>5, <1>6

LEMMA SumZero ==
  ASSUME NEW S, IsFiniteSet(S), NEW f, \A x \in S : f[x] = 0
  PROVE  SumFunctionOnSet(f, S) = 0
<1>. DEFINE Good == {T \in SUBSET S : SumFunctionOnSet(f, T) = 0}
<1>1. {} \in Good
  BY SumEmpty
<1>2. ASSUME NEW T \in SUBSET S, T # {}, \A x \in T : T \ {x} \in Good
      PROVE  T \in Good
  <2>1. Chosen(T) \in T /\ IsFiniteSet(T)
    BY <1>2, ChosenInside, FS_Subset
  <2>2. SumFunctionOnSet(f, T \ {Chosen(T)}) = 0 /\ f[Chosen(T)] = 0
    BY <1>2, <2>1
  <2>. QED  BY <1>2, <2>1, <2>2, SumChosen
<1>3. SUBSET S \subseteq Good
  <2>. HIDE DEF Good
  <2>. QED  BY <1>1, <1>2, FiniteSetInduction
<1>. QED  BY <1>3

LEMMA SumPositive ==
  ASSUME NEW S, IsFiniteSet(S), NEW f, \A x \in S : f[x] \in Nat
  PROVE  SumFunctionOnSet(f, S) >= 0
<1>. DEFINE Good == {T \in SUBSET S : SumFunctionOnSet(f, T) >= 0}
<1>1. {} \in Good
  BY SumEmpty
<1>2. ASSUME NEW T \in SUBSET S, T # {}, \A x \in T : T \ {x} \in Good
      PROVE  T \in Good
  <2>1. Chosen(T) \in T /\ IsFiniteSet(T) /\ IsFiniteSet(T \ {Chosen(T)})
    BY <1>2, ChosenInside, FS_Subset
  <2>2. SumFunctionOnSet(f, T \ {Chosen(T)}) >= 0 /\ f[Chosen(T)] \in Nat
    BY <1>2, <2>1
  <2>3. SumFunctionOnSet(f, T \ {Chosen(T)}) \in Int
    BY <2>1, SumInt
  <2>. QED  BY <1>2, <2>1, <2>2, <2>3, SumChosen
<1>3. SUBSET S \subseteq Good
  <2>. HIDE DEF Good
  <2>. QED  BY <1>1, <1>2, FiniteSetInduction
<1>. QED  BY <1>3

\* All terms are multiplied by one factor: so is the sum.
LEMMA SumScaled ==
  ASSUME NEW S, IsFiniteSet(S), NEW f, \A x \in S : f[x] \in Int,
         NEW c \in Int, NEW g, \A x \in S : g[x] = c * f[x]
  PROVE  SumFunctionOnSet(g, S) = c * SumFunctionOnSet(f, S)
<1>. DEFINE Good == {T \in SUBSET S : SumFunctionOnSet(g, T) = c * SumFunctionOnSet(f, T)}
<1>1. {} \in Good
  BY SumEmpty
<1>2. ASSUME NEW T \in SUBSET S, T # {}, \A x \in T : T \ {x} \in Good
      PROVE  T \in Good
  <2>. DEFINE e == Chosen(T)
  <2>1. e \in T /\ IsFiniteSet(T) /\ IsFiniteSet(T \ {e})
    BY <1>2, ChosenInside, FS_Subset
  <2>2. SumFunctionOnSet(g, T \ {e}) = c * SumFunctionOnSet(f, T \ {e})
    BY <1>2, <2>1
  <2>3. g[e] = c * f[e] /\ f[e] \in Int
    BY <2>1
  <2>4. SumFunctionOnSet(f, T \ {e}) \in Int
    BY <2>1, SumInt
  <2>5. /\ SumFunctionOnSet(f, T) = f[e] + SumFunctionOnSet(f, T \ {e})
        /\ SumFunctionOnSet(g, T) = g[e] + SumFunctionOnSet(g, T \ {e})
    BY <1>2, <2>1, SumChosen
  <2>. HIDE DEF e
  <2>. QED  BY <2>2, <2>3, <2>4, <2>5
<1>3. SUBSET S \subseteq Good
  <2>. HIDE DEF Good
  <2>. QED  BY <1>1, <1>2, FiniteSetInduction
<1>. QED  BY <1>3

=============================================================================
