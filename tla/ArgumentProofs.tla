---------------------------- MODULE ArgumentProofs ----------------------------
(***************************************************************************)
(* The theorem of the conversion of arguments, for texts of any length and *)
(* any base, word and number of decimals, by induction over the digits.    *)
(*                                                                         *)
(* Number and Without are folds, Power and toHex recursive functions. Each *)
(* is first shown to do what its definition says one step at a time; the   *)
(* rest reasons with the steps.                                            *)
(***************************************************************************)
EXTENDS SequenceTheorems, RecursionTheorems, MCChainCalls

-----------------------------------------------------------------------------
(***************************************************************************)
(* The value of digits, one digit at a time.                               *)
(***************************************************************************)
NumberIter(it, s) ==
    it = [t \in SUBSET DOMAIN s |->
            IF t = {} THEN 0 ELSE it[t \ {Greatest(t)}] * Base + s[Greatest(t)]]

LEMMA NumberIsIter ==
  ASSUME NEW s
  PROVE  Arguments!Number(s) = (CHOOSE it : NumberIter(it, s))[DOMAIN s]
BY DEF NumberIter, Greatest, Arguments!Number, Arguments!FoldLeft, Arguments!MapThenFoldSet,
       Arguments!Max

\* Number in steps: v[i] is the value of the first i digits.
Values(v, s) == v[0] = 0 /\ \A i \in 1..Len(s) : v[i] = v[i - 1] * Base + s[i]

LEMMA BaseInt == Base \in Nat /\ Base > 1
BY ArgumentBounds DEF Arguments!ArgumentsAssumption

LEMMA NumberIterExists ==
  ASSUME NEW s \in Seq(Int)
  PROVE  \E it : NumberIter(it, s) /\ \A t \in SUBSET (1..Len(s)) : it[t] \in Int
<1>. DEFINE G == [p \in Int \X Int |-> p[1] * Base + p[2]]
<1>0. Len(s) \in Nat /\ DOMAIN s = 1..Len(s) /\ \A i \in 1..Len(s) : s[i] \in Int
  BY LenProperties
<1>1. G \in [Int \X Int -> Int]
  BY BaseInt
<1>2. PICK it \in [SUBSET (1..Len(s)) -> Int] : Folds(it, G, 0, s, Len(s))
  <2>. HIDE DEF G
  <2>1. 0 \in Int
    OBVIOUS
  <2>. QED  BY <1>1, <2>1, FoldExists, Zenon
<1>3. ASSUME NEW t \in SUBSET (1..Len(s)), t # {}
      PROVE  G[<<it[t \ {Greatest(t)}], s[Greatest(t)]>>] =
               it[t \ {Greatest(t)}] * Base + s[Greatest(t)]
  <2>1. Greatest(t) \in t
    BY <1>0, <1>3, GreatestOfSome
  <2>2. it[t \ {Greatest(t)}] \in Int /\ s[Greatest(t)] \in Int
    BY <1>0, <2>1
  <2>. QED  BY <2>2
<1>4. [t \in SUBSET (1..Len(s)) |->
         IF t = {} THEN 0 ELSE G[<<it[t \ {Greatest(t)}], s[Greatest(t)]>>]]
    = [t \in SUBSET (1..Len(s)) |->
         IF t = {} THEN 0 ELSE it[t \ {Greatest(t)}] * Base + s[Greatest(t)]]
  <2>. HIDE DEF G
  <2>. QED  BY <1>3, Zenon
<1>5. NumberIter(it, s)
  <2>. HIDE DEF G
  <2>. QED  BY <1>0, <1>2, <1>4, Zenon DEF Folds, NumberIter
<1>. QED  BY <1>2, <1>5

LEMMA NumberHasValues ==
  ASSUME NEW s \in Seq(Int)
  PROVE  \E v \in [0..Len(s) -> Int] : Values(v, s) /\ Arguments!Number(s) = v[Len(s)]
<1>. DEFINE solution == CHOOSE it : NumberIter(it, s)
<1>0. Len(s) \in Nat /\ DOMAIN s = 1..Len(s) /\ \A i \in 1..Len(s) : s[i] \in Int
  BY LenProperties
<1>1. NumberIter(solution, s)
  BY NumberIterExists
<1>. HIDE DEF solution
<1>2. solution[{}] = 0
  BY <1>1 DEF NumberIter
<1>3. ASSUME NEW i \in 1..Len(s) PROVE solution[1..i] = solution[1..(i - 1)] * Base + s[i]
  <2>0. i \in Nat \ {0} /\ i <= Len(s)
    BY <1>0
  <2>1. i \in Nat \ {0} /\ 1..i \in SUBSET DOMAIN s /\ 1..i # {}
    BY <1>0, <2>0
  <2>2. Greatest(1..i) = i /\ (1..i) \ {i} = 1..(i - 1)
    BY <2>0, GreatestOfInterval
  <2>. QED  BY <1>1, <2>1, <2>2, Zenon DEF NumberIter
<1>. DEFINE T == {n \in Nat : n <= Len(s) => solution[1..n] \in Int}
<1>4. 0 \in T
  <2>1. 1..0 = {}
    OBVIOUS
  <2>. QED  BY <1>2, <2>1
<1>5. ASSUME NEW n \in Nat, n \in T PROVE n + 1 \in T
  <2>. SUFFICES ASSUME n + 1 <= Len(s) PROVE solution[1..(n + 1)] \in Int
    OBVIOUS
  <2>1. n + 1 \in 1..Len(s) /\ (n + 1) - 1 = n
    BY <1>0
  <2>2. solution[1..n] \in Int
    BY <1>0, <1>5
  <2>. QED  BY <1>0, <1>3, <2>1, <2>2, BaseInt
<1>6. Nat \subseteq T
  <2>. HIDE DEF T
  <2>. QED  BY <1>4, <1>5, NatSetInduction
<1>. DEFINE v == [n \in 0..Len(s) |-> solution[1..n]]
<1>7. v \in [0..Len(s) -> Int]
  BY <1>0, <1>6
<1>8. Values(v, s)
  <2>1. 1..0 = {}
    OBVIOUS
  <2>2. v[0] = 0
    BY <1>0, <1>2, <2>1
  <2>3. \A i \in 1..Len(s) : v[i] = v[i - 1] * Base + s[i]
    BY <1>0, <1>3
  <2>. HIDE DEF v
  <2>. QED  BY <2>2, <2>3 DEF Values
<1>9. Arguments!Number(s) = v[Len(s)]
  BY <1>0, NumberIsIter DEF solution
<1>. HIDE DEF v
<1>. QED  BY <1>7, <1>8, <1>9

\* The steps determine the value.
LEMMA ValuesUnique ==
  ASSUME NEW s \in Seq(Int), NEW v, Values(v, s), NEW w, Values(w, s)
  PROVE  \A n \in 0..Len(s) : v[n] = w[n]
<1>. DEFINE T == {n \in Nat : n <= Len(s) => v[n] = w[n]}
<1>0. Len(s) \in Nat
  BY LenProperties
<1>1. 0 \in T
  BY DEF Values
<1>2. ASSUME NEW n \in Nat, n \in T PROVE n + 1 \in T
  BY <1>0, <1>2 DEF Values
<1>3. Nat \subseteq T
  <2>. HIDE DEF T
  <2>. QED  BY <1>1, <1>2, NatSetInduction
<1>. QED  BY <1>0, <1>3

LEMMA NumberEmpty == Arguments!Number(<<>>) = 0
<1>1. <<>> \in Seq(Int) /\ Len(<<>>) = 0
  OBVIOUS
<1>. QED  BY <1>1, NumberHasValues DEF Values

LEMMA NumberAppend ==
  ASSUME NEW s \in Seq(Int), NEW d \in Int
  PROVE  /\ Arguments!Number(s) \in Int
         /\ Arguments!Number(Append(s, d)) = Arguments!Number(s) * Base + d
<1>. DEFINE t == Append(s, d)
<1>1. /\ t \in Seq(Int) /\ Len(s) \in Nat /\ Len(t) = Len(s) + 1
      /\ t[Len(s) + 1] = d /\ \A i \in 1..Len(s) : t[i] = s[i]
  BY LenProperties, AppendProperties
<1>. HIDE DEF t
<1>2. PICK v \in [0..Len(s) -> Int] : Values(v, s) /\ Arguments!Number(s) = v[Len(s)]
  BY NumberHasValues
<1>3. PICK w \in [0..Len(t) -> Int] : Values(w, t) /\ Arguments!Number(t) = w[Len(t)]
  BY <1>1, NumberHasValues
<1>4. Values(w, s)
  BY <1>1, <1>3 DEF Values
<1>5. w[Len(s)] = v[Len(s)]
  <2>1. Len(s) \in 0..Len(s)
    BY <1>1
  <2>2. \A n \in 0..Len(s) : w[n] = v[n]
    BY <1>2, <1>4, ValuesUnique
  <2>. QED  BY <2>1, <2>2
<1>6. w[Len(s) + 1] = w[Len(s)] * Base + d
  <2>1. Len(s) + 1 \in 1..Len(t) /\ (Len(s) + 1) - 1 = Len(s)
    BY <1>1
  <2>. QED  BY <1>1, <1>3, <2>1 DEF Values
<1>7. Arguments!Number(s) \in Int
  <2>1. Len(s) \in 0..Len(s)
    BY <1>1
  <2>. QED  BY <1>2, <2>1
<1>. QED  BY <1>1, <1>2, <1>3, <1>5, <1>6, <1>7 DEF t

-----------------------------------------------------------------------------
(***************************************************************************)
(* A sequence without a character.                                         *)
(***************************************************************************)
Kept(a, char, c) == IF char = c THEN a ELSE Append(a, char)

WithoutIter(it, s, c) ==
    it = [t \in SUBSET DOMAIN s |->
            IF t = {} THEN <<>> ELSE Kept(it[t \ {Greatest(t)}], s[Greatest(t)], c)]

LEMMA WithoutIsIter ==
  ASSUME NEW s, NEW c
  PROVE  Arguments!Without(s, c) = (CHOOSE it : WithoutIter(it, s, c))[DOMAIN s]
BY DEF WithoutIter, Kept, Greatest, Arguments!Without, Arguments!FoldLeft, Arguments!MapThenFoldSet,
       Arguments!Max

\* Without in steps: v[i] is what is left of the first i characters.
Remains(v, s, c) == v[0] = <<>> /\ \A i \in 1..Len(s) : v[i] = Kept(v[i - 1], s[i], c)

LEMMA KeptType ==
  ASSUME NEW a \in Seq(Int), NEW char \in Int, NEW c
  PROVE  Kept(a, char, c) \in Seq(Int)
BY AppendProperties DEF Kept

LEMMA WithoutIterExists ==
  ASSUME NEW s \in Seq(Int), NEW c
  PROVE  \E it : WithoutIter(it, s, c)
<1>. DEFINE G == [p \in Seq(Int) \X Int |-> Kept(p[1], p[2], c)]
<1>0. DOMAIN s = 1..Len(s) /\ \A i \in 1..Len(s) : s[i] \in Int
  BY LenProperties
<1>1. G \in [Seq(Int) \X Int -> Seq(Int)]
  BY KeptType
<1>2. PICK it \in [SUBSET (1..Len(s)) -> Seq(Int)] : Folds(it, G, <<>>, s, Len(s))
  <2>1. <<>> \in Seq(Int)
    OBVIOUS
  <2>. HIDE DEF G
  <2>. QED  BY <1>1, <2>1, FoldExists, Zenon
<1>3. ASSUME NEW t \in SUBSET (1..Len(s)), t # {}
      PROVE  G[<<it[t \ {Greatest(t)}], s[Greatest(t)]>>] =
               Kept(it[t \ {Greatest(t)}], s[Greatest(t)], c)
  <2>1. Greatest(t) \in t
    BY <1>3, GreatestOfSome, LenProperties
  <2>2. it[t \ {Greatest(t)}] \in Seq(Int) /\ s[Greatest(t)] \in Int
    BY <1>0, <2>1
  <2>. QED  BY <2>2
<1>4. [t \in SUBSET (1..Len(s)) |->
         IF t = {} THEN <<>> ELSE G[<<it[t \ {Greatest(t)}], s[Greatest(t)]>>]]
    = [t \in SUBSET (1..Len(s)) |->
         IF t = {} THEN <<>> ELSE Kept(it[t \ {Greatest(t)}], s[Greatest(t)], c)]
  <2>. HIDE DEF G
  <2>. QED  BY <1>3, Zenon
<1>5. WithoutIter(it, s, c)
  <2>. HIDE DEF G
  <2>. QED  BY <1>0, <1>2, <1>4, Zenon DEF Folds, WithoutIter
<1>. QED  BY <1>5

LEMMA WithoutRemains ==
  ASSUME NEW s \in Seq(Int), NEW c
  PROVE  \E v : Remains(v, s, c) /\ Arguments!Without(s, c) = v[Len(s)]
<1>. DEFINE solution == CHOOSE it : WithoutIter(it, s, c)
            v == [n \in 0..Len(s) |-> solution[1..n]]
<1>0. Len(s) \in Nat /\ DOMAIN s = 1..Len(s)
  BY LenProperties
<1>1. WithoutIter(solution, s, c)
  BY WithoutIterExists
<1>2. Arguments!Without(s, c) = v[Len(s)]
  BY <1>0, WithoutIsIter
<1>. HIDE DEF solution
<1>3. v[0] = <<>>
  <2>1. 1..0 = {}
    OBVIOUS
  <2>2. solution[{}] = <<>>
    BY <1>1 DEF WithoutIter
  <2>. QED  BY <1>0, <2>1, <2>2
<1>4. ASSUME NEW i \in 1..Len(s) PROVE v[i] = Kept(v[i - 1], s[i], c)
  <2>0. i \in Nat \ {0} /\ i <= Len(s)
    BY <1>0
  <2>1. 1..i \in SUBSET DOMAIN s /\ 1..i # {}
    BY <1>0, <2>0
  <2>2. Greatest(1..i) = i /\ (1..i) \ {i} = 1..(i - 1)
    BY <2>0, GreatestOfInterval
  <2>3. solution[1..i] = Kept(solution[1..(i - 1)], s[i], c)
    BY <1>1, <2>1, <2>2, Zenon DEF WithoutIter
  <2>4. v[i] = solution[1..i] /\ v[i - 1] = solution[1..(i - 1)]
    BY <1>0, <2>0
  <2>. QED  BY <2>3, <2>4, Zenon
<1>. HIDE DEF v
<1>. QED  BY <1>2, <1>3, <1>4 DEF Remains

LEMMA RemainsFacts ==
  ASSUME NEW s \in Seq(Int), NEW c, NEW v, Remains(v, s, c), NEW w, Remains(w, s, c)
  PROVE  \A n \in 0..Len(s) : v[n] \in Seq(Int) /\ v[n] = w[n]
<1>. DEFINE T == {n \in Nat : n <= Len(s) => v[n] \in Seq(Int) /\ v[n] = w[n]}
<1>0. Len(s) \in Nat /\ \A i \in 1..Len(s) : s[i] \in Int
  BY LenProperties
<1>1. 0 \in T
  <2>1. v[0] = <<>> /\ w[0] = <<>> /\ <<>> \in Seq(Int)
    BY EmptySeq DEF Remains
  <2>. QED  BY <2>1
<1>2. ASSUME NEW n \in Nat, n \in T PROVE n + 1 \in T
  <2>. SUFFICES ASSUME n + 1 <= Len(s) PROVE v[n + 1] \in Seq(Int) /\ v[n + 1] = w[n + 1]
    OBVIOUS
  <2>1. n + 1 \in 1..Len(s) /\ (n + 1) - 1 = n /\ s[n + 1] \in Int
    BY <1>0
  <2>2. v[n] \in Seq(Int) /\ v[n] = w[n]
    BY <1>0, <1>2
  <2>3. v[n + 1] = Kept(v[n], s[n + 1], c) /\ w[n + 1] = Kept(w[n], s[n + 1], c)
    BY <2>1 DEF Remains
  <2>. QED  BY <2>1, <2>2, <2>3, KeptType
<1>3. Nat \subseteq T
  <2>. HIDE DEF T
  <2>. QED  BY <1>1, <1>2, NatSetInduction
<1>. QED  BY <1>0, <1>3

LEMMA WithoutEmpty == ASSUME NEW c PROVE Arguments!Without(<<>>, c) = <<>>
<1>1. <<>> \in Seq(Int) /\ Len(<<>>) = 0
  OBVIOUS
<1>. QED  BY <1>1, WithoutRemains DEF Remains

LEMMA WithoutAppend ==
  ASSUME NEW s \in Seq(Int), NEW d \in Int, NEW c
  PROVE  /\ Arguments!Without(s, c) \in Seq(Int)
         /\ Arguments!Without(Append(s, d), c) = Kept(Arguments!Without(s, c), d, c)
<1>. DEFINE t == Append(s, d)
<1>1. /\ t \in Seq(Int) /\ Len(s) \in Nat /\ Len(t) = Len(s) + 1
      /\ t[Len(s) + 1] = d /\ \A i \in 1..Len(s) : t[i] = s[i]
  BY LenProperties, AppendProperties
<1>. HIDE DEF t
<1>2. PICK v : Remains(v, s, c) /\ Arguments!Without(s, c) = v[Len(s)]
  BY WithoutRemains
<1>3. PICK w : Remains(w, t, c) /\ Arguments!Without(t, c) = w[Len(t)]
  BY <1>1, WithoutRemains
<1>4. Remains(w, s, c)
  BY <1>1, <1>3 DEF Remains
<1>5. w[Len(s)] = v[Len(s)] /\ v[Len(s)] \in Seq(Int)
  BY <1>1, <1>2, <1>4, RemainsFacts
<1>6. w[Len(s) + 1] = Kept(w[Len(s)], d, c)
  <2>1. Len(s) + 1 \in 1..Len(t) /\ (Len(s) + 1) - 1 = Len(s)
    BY <1>1
  <2>. QED  BY <1>1, <1>3, <2>1 DEF Remains
<1>. QED  BY <1>1, <1>2, <1>3, <1>5, <1>6 DEF t

LEMMA WithoutType ==
  ASSUME NEW s \in Seq(Int), NEW c
  PROVE  Arguments!Without(s, c) \in Seq(Int)
BY WithoutAppend

\* Nothing is taken from a sequence that does not have the character.
LEMMA WithoutNone ==
  ASSUME NEW c, NEW s \in Seq(Int \ {c})
  PROVE  Arguments!Without(s, c) = s
<1>. DEFINE Good == {t \in Seq(Int \ {c}) : Arguments!Without(t, c) = t}
<1>0. Seq(Int \ {c}) \subseteq Seq(Int)
  BY SeqMonotonic
<1>1. <<>> \in Good
  BY WithoutEmpty
<1>2. ASSUME NEW t \in Seq(Int \ {c}), NEW e \in Int \ {c}, t \in Good PROVE Append(t, e) \in Good
  <2>1. Append(t, e) \in Seq(Int \ {c})
    BY AppendProperties
  <2>2. t \in Seq(Int) /\ e \in Int /\ e # c /\ Arguments!Without(t, c) = t
    BY <1>0, <1>2
  <2>3. Arguments!Without(Append(t, e), c) = Kept(t, e, c)
    BY <2>2, WithoutAppend
  <2>4. Kept(t, e, c) = Append(t, e)
    BY <2>2 DEF Kept
  <2>. QED  BY <2>1, <2>3, <2>4
<1>3. Seq(Int \ {c}) \subseteq Good
  <2>. HIDE DEF Good
  <2>. QED  BY <1>1, <1>2, SeqSetInduction
<1>. QED  BY <1>3

LEMMA ConcatAppend ==
  ASSUME NEW a \in Seq(Int), NEW b \in Seq(Int), NEW d \in Int
  PROVE  a \o Append(b, d) = Append(a \o b, d)
OBVIOUS

LEMMA WithoutOne ==
  ASSUME NEW c \in Int, NEW s \in Seq(Int \ {c}), NEW f \in Seq(Int \ {c})
  PROVE  Arguments!Without(Append(s, c) \o f, c) = s \o f
<1>. DEFINE Good == {t \in Seq(Int \ {c}) : Arguments!Without(Append(s, c) \o t, c) = s \o t}
<1>0. /\ s \in Seq(Int) /\ Append(s, c) \in Seq(Int)
      /\ \A t \in Seq(Int \ {c}) : t \in Seq(Int) /\ Append(s, c) \o t \in Seq(Int)
  BY SeqMonotonic, AppendProperties, ConcatProperties
<1>1. <<>> \in Good
  <2>1. Append(s, c) \o <<>> = Append(s, c) /\ s \o <<>> = s
    BY <1>0, ConcatEmptySeq
  <2>2. Arguments!Without(Append(s, c), c) = Kept(s, c, c)
    BY <1>0, WithoutAppend, WithoutNone
  <2>3. Kept(s, c, c) = s
    BY DEF Kept
  <2>4. <<>> \in Seq(Int \ {c})
    BY EmptySeq
  <2>. QED  BY <2>1, <2>2, <2>3, <2>4
<1>2. ASSUME NEW t \in Seq(Int \ {c}), NEW e \in Int \ {c}, t \in Good PROVE Append(t, e) \in Good
  <2>1. Append(t, e) \in Seq(Int \ {c})
    BY AppendProperties
  <2>2. /\ Append(s, c) \o Append(t, e) = Append(Append(s, c) \o t, e)
        /\ s \o Append(t, e) = Append(s \o t, e)
    <3>1. s \in Seq(Int) /\ Append(s, c) \in Seq(Int) /\ t \in Seq(Int) /\ e \in Int
      BY <1>0
    <3>. QED  BY <3>1, ConcatAppend
  <2>3. /\ Append(s, c) \o t \in Seq(Int) /\ e \in Int /\ e # c
        /\ Arguments!Without(Append(s, c) \o t, c) = s \o t
    BY <1>0, <1>2
  <2>4. Arguments!Without(Append(Append(s, c) \o t, e), c) = Kept(s \o t, e, c)
    BY <2>3, WithoutAppend
  <2>5. Kept(s \o t, e, c) = Append(s \o t, e)
    BY <2>3 DEF Kept
  <2>. QED  BY <2>1, <2>2, <2>4, <2>5
<1>3. Seq(Int \ {c}) \subseteq Good
  <2>. HIDE DEF Good
  <2>. QED  BY <1>1, <1>2, SeqSetInduction
<1>. QED  BY <1>3

-----------------------------------------------------------------------------
(***************************************************************************)
(* Powers and digits.                                                      *)
(***************************************************************************)
PowerEquation(f) == f = [n \in Nat |-> IF n = 0 THEN 1 ELSE Base * f[n - 1]]

LEMMA PowerIsChoice == Arguments!Power = CHOOSE f : PowerEquation(f)
BY DEF Arguments!Power, PowerEquation

LEMMA PowerSteps ==
  /\ Arguments!Power[0] = 1
  /\ \A n \in Nat : Arguments!Power[n + 1] = Base * Arguments!Power[n]
<1>. DEFINE first == [n \in Nat |-> 1]
            prev  == [n \in Nat |-> IF n = 0 THEN 0 ELSE n - 1]
            G     == [p \in Nat \X Nat |-> Base * p[2]]
<1>1. /\ first \in [Nat -> Nat] /\ prev \in [Nat -> Nat] /\ G \in [Nat \X Nat -> Nat]
      /\ Descends(prev, {0})
  BY BaseInt DEF Descends
<1>2. PICK f \in [Nat -> Nat] : Recursion(f, Nat, {0}, first, prev, G)
  <2>. HIDE DEF first, prev, G
  <2>. QED  BY <1>1, RecursionExists
<1>3. ASSUME NEW n \in Nat PROVE f[n] = IF n = 0 THEN 1 ELSE Base * f[n - 1]
  <2>1. CASE n = 0
    BY <1>2, <2>1 DEF Recursion
  <2>2. CASE n # 0
    <3>1. prev[n] = n - 1 /\ n - 1 \in Nat
      BY <2>2
    <3>2. f[n] = G[<<n, f[n - 1]>>]
      <4>. HIDE DEF prev, G
      <4>. QED  BY <1>2, <2>2, <3>1 DEF Recursion
    <3>. QED  BY <2>2, <3>1, <3>2
  <2>. QED  BY <2>1, <2>2
<1>4. PowerEquation(f)
  BY <1>3, Zenon DEF PowerEquation
<1>5. PowerEquation(Arguments!Power)
  BY <1>4, PowerIsChoice
<1>. QED  BY <1>5 DEF PowerEquation

LEMMA PowerType == \A n \in Nat : Arguments!Power[n] \in Nat \ {0}
<1>. DEFINE T == {n \in Nat : Arguments!Power[n] \in Nat \ {0}}
<1>1. 0 \in T
  BY PowerSteps
<1>2. ASSUME NEW n \in Nat, n \in T PROVE n + 1 \in T
  BY <1>2, PowerSteps, BaseInt
<1>3. Nat \subseteq T
  <2>. HIDE DEF T
  <2>. QED  BY <1>1, <1>2, NatSetInduction
<1>. QED  BY <1>3

LEMMA TimesAssociative ==
  ASSUME NEW a \in Int, NEW b \in Int, NEW c \in Int
  PROVE  a * (b * c) = b * (a * c) /\ (a * b) * c = a * (b * c) /\ (a * b) * c = (a * c) * b
OBVIOUS

LEMMA PowerSum ==
  ASSUME NEW m \in Nat, NEW n \in Nat
  PROVE  Arguments!Power[m + n] = Arguments!Power[m] * Arguments!Power[n]
<1>. DEFINE T == {k \in Nat : Arguments!Power[m + k] = Arguments!Power[m] * Arguments!Power[k]}
<1>1. 0 \in T
  BY PowerSteps, PowerType
<1>2. ASSUME NEW k \in Nat, k \in T PROVE k + 1 \in T
  <2>1. m + (k + 1) = (m + k) + 1 /\ m + k \in Nat
    OBVIOUS
  <2>2. Arguments!Power[(m + k) + 1] = Base * Arguments!Power[m + k]
    BY <2>1, PowerSteps
  <2>3. Arguments!Power[k + 1] = Base * Arguments!Power[k]
    BY PowerSteps
  <2>4. Base * (Arguments!Power[m] * Arguments!Power[k])
          = Arguments!Power[m] * (Base * Arguments!Power[k])
    BY TimesAssociative, PowerType, BaseInt
  <2>. QED  BY <1>2, <2>1, <2>2, <2>3, <2>4
<1>3. Nat \subseteq T
  <2>. HIDE DEF T
  <2>. QED  BY <1>1, <1>2, NatSetInduction
<1>. QED  BY <1>3

ToHexEquation(f) ==
    f = [n \in Nat |-> IF n < Base THEN <<n>> ELSE Append(f[n \div Base], n % Base)]

LEMMA ToHexIsChoice == Arguments!toHex = CHOOSE f : ToHexEquation(f)
BY DEF Arguments!toHex, ToHexEquation

LEMMA Quotient ==
  ASSUME NEW n \in Nat
  PROVE  /\ n \div Base \in Nat /\ n % Base \in 0..(Base - 1)
         /\ n >= Base => n \div Base < n
BY BaseInt

LEMMA ToHexSteps ==
  ASSUME NEW n \in Nat
  PROVE  Arguments!toHex[n] = IF n < Base THEN <<n>>
                              ELSE Append(Arguments!toHex[n \div Base], n % Base)
<1>. DEFINE low   == 0..(Base - 1)
            first == [k \in Nat |-> <<k>>]
            prev  == [k \in Nat |-> k \div Base]
            G     == [p \in Nat \X Seq(Int) |-> Append(p[2], p[1] % Base)]
<1>1. first \in [Nat -> Seq(Int)] /\ prev \in [Nat -> Nat]
  BY Quotient
<1>2. G \in [Nat \X Seq(Int) -> Seq(Int)]
  <2>. SUFFICES ASSUME NEW k \in Nat, NEW s \in Seq(Int) PROVE Append(s, k % Base) \in Seq(Int)
    OBVIOUS
  <2>1. k % Base \in Int
    BY Quotient
  <2>. QED  BY <2>1, AppendProperties
<1>3. Descends(prev, low)
  <2>1. \A k \in Nat \ low : k >= Base
    BY BaseInt
  <2>. QED  BY <2>1, Quotient DEF Descends
<1>4. PICK f \in [Nat -> Seq(Int)] : Recursion(f, Nat, low, first, prev, G)
  <2>. HIDE DEF low, first, prev, G
  <2>. QED  BY <1>1, <1>2, <1>3, RecursionExists
<1>5. ASSUME NEW k \in Nat
      PROVE  f[k] = IF k < Base THEN <<k>> ELSE Append(f[k \div Base], k % Base)
  <2>1. (k < Base) <=> k \in low
    BY BaseInt
  <2>2. first[k] = <<k>> /\ prev[k] = k \div Base
    OBVIOUS
  <2>3. f[k \div Base] \in Seq(Int)
    BY <1>4, Quotient
  <2>4. G[<<k, f[k \div Base]>>] = Append(f[k \div Base], k % Base)
    BY <2>3
  <2>5. f[k] = IF k \in low THEN <<k>> ELSE G[<<k, f[k \div Base]>>]
    <3>. HIDE DEF low, first, prev, G
    <3>. QED  BY <1>4, <2>2 DEF Recursion
  <2>. HIDE DEF low, G
  <2>. QED  BY <2>1, <2>4, <2>5
<1>6. f = [k \in Nat |-> f[k]]
  BY <1>4
<1>7. ToHexEquation(f)
  BY <1>5, <1>6, Zenon DEF ToHexEquation
<1>8. ToHexEquation(Arguments!toHex)
  BY <1>7, ToHexIsChoice
<1>. QED  BY <1>8, Zenon DEF ToHexEquation

-----------------------------------------------------------------------------
(***************************************************************************)
(* What a number of digits is.                                             *)
(***************************************************************************)
LEMMA DigitsAreInts ==
  /\ Arguments!Digits \subseteq Int /\ 0 \in Arguments!Digits
  /\ \A s \in Seq(Arguments!Digits) : s \in Seq(Int)
<1>1. Arguments!Digits \subseteq Int /\ 0 \in Arguments!Digits
  BY BaseInt DEF Arguments!Digits
<1>. QED  BY <1>1, SeqMonotonic

LEMMA NumberInt == ASSUME NEW s \in Seq(Int) PROVE Arguments!Number(s) \in Int
BY NumberAppend

LEMMA NextDigitBound ==
  ASSUME NEW p \in Nat \ {0}, NEW v \in 0..(p - 1), NEW d \in 0..(Base - 1)
  PROVE  v * Base + d \in 0..(Base * p - 1)
<1>1. v * Base <= (p - 1) * Base
  BY BaseInt
<1>2. (p - 1) * Base = Base * p - Base /\ v * Base >= 0 /\ v * Base \in Int /\ Base * p \in Int
  BY BaseInt
<1>. QED  BY <1>1, <1>2, BaseInt

LEMMA NumberBounds ==
  ASSUME NEW s \in Seq(Arguments!Digits)
  PROVE  Arguments!Number(s) \in 0..(Arguments!Power[Len(s)] - 1)
<1>. DEFINE Good == {t \in Seq(Arguments!Digits) :
                       Arguments!Number(t) \in 0..(Arguments!Power[Len(t)] - 1)}
<1>1. <<>> \in Good
  <2>1. <<>> \in Seq(Arguments!Digits) /\ Len(<<>>) = 0
    BY EmptySeq
  <2>. QED  BY <2>1, NumberEmpty, PowerSteps
<1>2. ASSUME NEW t \in Seq(Arguments!Digits), NEW d \in Arguments!Digits, t \in Good
      PROVE  Append(t, d) \in Good
  <2>1. Append(t, d) \in Seq(Arguments!Digits) /\ Len(Append(t, d)) = Len(t) + 1 /\ Len(t) \in Nat
    BY AppendProperties, LenProperties
  <2>2. /\ Arguments!Power[Len(t) + 1] = Base * Arguments!Power[Len(t)]
        /\ Arguments!Power[Len(t)] \in Nat \ {0}
    BY <2>1, PowerSteps, PowerType
  <2>3. Arguments!Number(Append(t, d)) = Arguments!Number(t) * Base + d
    BY DigitsAreInts, NumberAppend
  <2>4. d \in 0..(Base - 1) /\ Arguments!Number(t) \in 0..(Arguments!Power[Len(t)] - 1)
    BY <1>2 DEF Arguments!Digits
  <2>5. Arguments!Number(t) * Base + d \in 0..(Base * Arguments!Power[Len(t)] - 1)
    BY <2>2, <2>4, NextDigitBound
  <2>. QED  BY <2>1, <2>2, <2>3, <2>5
<1>3. Seq(Arguments!Digits) \subseteq Good
  <2>. HIDE DEF Good
  <2>. QED  BY <1>1, <1>2, SeqSetInduction
<1>. QED  BY <1>3

LEMMA ShiftedSum ==
  ASSUME NEW a \in Int, NEW p \in Int, NEW b \in Int, NEW d \in Int
  PROVE  (a * p + b) * Base + d = a * (Base * p) + (b * Base + d)
<1>1. (a * p + b) * Base = (a * p) * Base + b * Base
  BY BaseInt
<1>2. (a * p) * Base = a * (Base * p)
  BY BaseInt
<1>3. a * (Base * p) \in Int /\ b * Base \in Int
  BY BaseInt
<1>. QED  BY <1>1, <1>2, <1>3

\* The digits behind others count as many powers less.
LEMMA NumberConcat ==
  ASSUME NEW a \in Seq(Int), NEW b \in Seq(Int)
  PROVE  Arguments!Number(a \o b) =
           Arguments!Number(a) * Arguments!Power[Len(b)] + Arguments!Number(b)
<1>. DEFINE Good == {t \in Seq(Int) : Arguments!Number(a \o t) =
                       Arguments!Number(a) * Arguments!Power[Len(t)] + Arguments!Number(t)}
<1>0. Arguments!Number(a) \in Int
  BY NumberInt
<1>1. <<>> \in Good
  <2>1. a \o <<>> = a /\ <<>> \in Seq(Int) /\ Len(<<>>) = 0
    BY EmptySeq, ConcatEmptySeq
  <2>2. Arguments!Number(a) = Arguments!Number(a) * 1 + 0
    BY <1>0
  <2>. QED  BY <2>1, <2>2, NumberEmpty, PowerSteps
<1>2. ASSUME NEW t \in Seq(Int), NEW d \in Int, t \in Good PROVE Append(t, d) \in Good
  <2>1. Append(t, d) \in Seq(Int) /\ Len(Append(t, d)) = Len(t) + 1 /\ Len(t) \in Nat
    BY AppendProperties, LenProperties
  <2>2. /\ Arguments!Power[Len(t) + 1] = Base * Arguments!Power[Len(t)]
        /\ Arguments!Power[Len(t)] \in Nat /\ Arguments!Power[Len(t)] \in Int
    <3>1. Arguments!Power[Len(t)] \in Nat
      BY <2>1, PowerType
    <3>2. Arguments!Power[Len(t) + 1] = Base * Arguments!Power[Len(t)]
      BY <2>1, PowerSteps
    <3>. QED  BY <3>1, <3>2
  <2>3. Arguments!Number(Append(t, d)) = Arguments!Number(t) * Base + d /\ Arguments!Number(t) \in Int
    BY NumberAppend
  <2>4. a \o t \in Seq(Int) /\ a \o Append(t, d) = Append(a \o t, d)
    BY ConcatProperties, ConcatAppend
  <2>5. Arguments!Number(Append(a \o t, d)) = Arguments!Number(a \o t) * Base + d
    BY <2>4, NumberAppend
  <2>6. Arguments!Number(a \o t) = Arguments!Number(a) * Arguments!Power[Len(t)] + Arguments!Number(t)
    BY <1>2
  <2>7. (Arguments!Number(a) * Arguments!Power[Len(t)] + Arguments!Number(t)) * Base + d
          = Arguments!Number(a) * (Base * Arguments!Power[Len(t)]) + (Arguments!Number(t) * Base + d)
    <3>. DEFINE x == Arguments!Number(a)
                p == Arguments!Power[Len(t)]
                y == Arguments!Number(t)
    <3>1. x \in Int /\ p \in Int /\ y \in Int /\ d \in Int
      BY <1>0, <2>2, <2>3
    <3>. HIDE DEF x, p, y
    <3>2. (x * p + y) * Base + d = x * (Base * p) + (y * Base + d)
      BY <3>1, ShiftedSum
    <3>. QED  BY <3>2 DEF x, p, y
  <2>. QED  BY <2>1, <2>2, <2>3, <2>4, <2>5, <2>6, <2>7, Zenon
<1>3. Seq(Int) \subseteq Good
  <2>. HIDE DEF Good
  <2>. QED  BY <1>1, <1>2, SeqSetInduction
<1>. QED  BY <1>3

LEMMA NumberZeros ==
  ASSUME NEW s \in Seq({0})
  PROVE  s \in Seq(Int) /\ Arguments!Number(s) = 0
<1>. DEFINE Good == {t \in Seq({0}) : Arguments!Number(t) = 0}
<1>0. \A t \in Seq({0}) : t \in Seq(Int)
  BY SeqMonotonic
<1>1. <<>> \in Good
  BY EmptySeq, NumberEmpty
<1>2. ASSUME NEW t \in Seq({0}), NEW d \in {0}, t \in Good PROVE Append(t, d) \in Good
  <2>1. Append(t, d) \in Seq({0})
    BY AppendProperties
  <2>2. Arguments!Number(Append(t, d)) = Arguments!Number(t) * Base + d
    BY <1>0, NumberAppend
  <2>3. Arguments!Number(t) = 0 /\ d = 0 /\ 0 * Base + 0 = 0
    BY <1>2, BaseInt
  <2>. QED  BY <2>1, <2>2, <2>3
<1>3. Seq({0}) \subseteq Good
  <2>. HIDE DEF Good
  <2>. QED  BY <1>1, <1>2, SeqSetInduction
<1>. QED  BY <1>0, <1>3

LEMMA NumberOne == ASSUME NEW d \in Int PROVE Arguments!Number(<<d>>) = d
<1>1. <<d>> = Append(<<>>, d) /\ <<>> \in Seq(Int)
  OBVIOUS
<1>2. Arguments!Number(Append(<<>>, d)) = 0 * Base + d
  BY <1>1, NumberAppend, NumberEmpty
<1>. QED  BY <1>1, <1>2, BaseInt

-----------------------------------------------------------------------------
(***************************************************************************)
(* Identifiers: toHex gives the digits back, but for leading zeros.        *)
(***************************************************************************)
LEMMA DivisionUnique ==
  ASSUME NEW v \in Nat, NEW d \in 0..(Base - 1)
  PROVE  (v * Base + d) \div Base = v /\ (v * Base + d) % Base = d
BY BaseInt

\* s is h behind leading zeros.
Pads(h, s) ==
    h \in Seq(Arguments!Digits) /\ \E z \in Seq({0}) : Len(z) = Len(s) - Len(h) /\ s = z \o h

LEMMA HexPads ==
  ASSUME NEW s \in Seq(Arguments!Digits), s # <<>>
  PROVE  Pads(Arguments!toHex[Arguments!Number(s)], s)
<1>. DEFINE hex(t) == Arguments!toHex[Arguments!Number(t)]
            Good == {t \in Seq(Arguments!Digits) : t # <<>> => Pads(hex(t), t)}
<1>1. <<>> \in Good
  BY EmptySeq
<1>2. ASSUME NEW t \in Seq(Arguments!Digits), NEW d \in Arguments!Digits, t \in Good
      PROVE  Append(t, d) \in Good
  <2>0. /\ d \in 0..(Base - 1) /\ d \in Int /\ d \in Nat /\ d < Base
        /\ Append(t, d) \in Seq(Arguments!Digits) /\ Len(Append(t, d)) = Len(t) + 1 /\ Len(t) \in Nat
    BY AppendProperties, LenProperties, BaseInt DEF Arguments!Digits
  <2>1. CASE t = <<>>
    <3>1. Append(t, d) = <<d>> /\ Arguments!Number(<<d>>) = d
      BY <2>0, <2>1, NumberOne
    <3>2. hex(Append(t, d)) = <<d>>
      BY <2>0, <3>1, ToHexSteps
    <3>3. <<>> \in Seq({0}) /\ Len(<<>>) = Len(<<d>>) - Len(<<d>>) /\ <<d>> = <<>> \o <<d>>
      OBVIOUS
    <3>4. Pads(<<d>>, <<d>>)
      BY <2>0, <3>1, <3>3 DEF Pads
    <3>. QED  BY <2>0, <3>1, <3>2, <3>4
  <2>2. CASE t # <<>>
    <3>. DEFINE v == Arguments!Number(t)
                h == hex(t)
    <3>1. v \in Nat /\ Arguments!Number(Append(t, d)) = v * Base + d
      <4>1. v \in 0..(Arguments!Power[Len(t)] - 1) /\ Arguments!Power[Len(t)] \in Nat
        BY <2>0, NumberBounds, PowerType
      <4>2. Arguments!Number(Append(t, d)) = v * Base + d
        BY <2>0, DigitsAreInts, NumberAppend
      <4>. QED  BY <4>1, <4>2
    <3>2. PICK z \in Seq({0}) : Len(z) = Len(t) - Len(h) /\ t = z \o h
      BY <1>2, <2>2 DEF Pads
    <3>3. h \in Seq(Arguments!Digits)
      BY <1>2, <2>2 DEF Pads
    <3>4. h = Arguments!toHex[v]
      OBVIOUS
    <3>. HIDE DEF h, v
    <3>5. CASE v = 0
      <4>1. h = <<0>>
        <5>1. 0 \in Nat /\ 0 < Base
          BY BaseInt
        <5>2. Arguments!toHex[0] = <<0>>
          BY <5>1, ToHexSteps
        <5>. QED  BY <3>4, <3>5, <5>2
      <4>2. t \in Seq({0})
        BY <3>2, <4>1, ConcatProperties
      <4>3. v * Base + d = d
        BY <2>0, <3>5, BaseInt
      <4>4. Arguments!Number(Append(t, d)) = d
        BY <3>1, <4>3
      <4>5. hex(Append(t, d)) = <<d>>
        BY <2>0, <4>4, ToHexSteps
      <4>6. Append(t, d) = t \o <<d>>
        BY <2>0
      <4>7. <<d>> \in Seq(Arguments!Digits) /\ Len(<<d>>) = 1
        OBVIOUS
      <4>8. Len(t) = Len(Append(t, d)) - 1
        BY <2>0
      <4>9. Pads(<<d>>, Append(t, d))
        BY <4>2, <4>6, <4>7, <4>8 DEF Pads
      <4>10. Append(t, d) \in Seq(Arguments!Digits) /\ Pads(hex(Append(t, d)), Append(t, d))
        BY <2>0, <4>5, <4>9, Zenon
      <4>. QED  BY <4>10
    <3>6. CASE v # 0
      <4>. DEFINE n == v * Base + d
      <4>1. n \in Nat /\ ~(n < Base)
        BY <2>0, <3>1, <3>6, BaseInt
      <4>2. n \div Base = v /\ n % Base = d
        BY <2>0, <3>1, DivisionUnique
      <4>3. Arguments!Number(Append(t, d)) = n
        BY <3>1
      <4>. HIDE DEF n
      <4>4. Arguments!toHex[n] = Append(Arguments!toHex[n \div Base], n % Base)
        BY <4>1, ToHexSteps
      <4>5. hex(Append(t, d)) = Append(h, d)
        BY <3>4, <4>2, <4>3, <4>4
      <4>6. Append(h, d) \in Seq(Arguments!Digits) /\ Len(Append(h, d)) = Len(h) + 1 /\ Len(h) \in Nat
        BY <3>3, AppendProperties, LenProperties
      <4>7. Append(t, d) = z \o Append(h, d)
        <5>1. z \in Seq(Int) /\ h \in Seq(Int) /\ d \in Int
          BY <2>0, <3>3, DigitsAreInts, NumberZeros
        <5>2. Append(z \o h, d) = z \o Append(h, d)
          BY <5>1, ConcatAppend
        <5>. QED  BY <3>2, <5>2
      <4>8. Len(z) = Len(Append(t, d)) - Len(Append(h, d))
        BY <2>0, <3>2, <4>6
      <4>9. Pads(Append(h, d), Append(t, d))
        BY <4>6, <4>7, <4>8 DEF Pads
      <4>. QED  BY <2>0, <4>5, <4>9
    <3>. QED  BY <3>5, <3>6
  <2>. QED  BY <2>1, <2>2
<1>3. Seq(Arguments!Digits) \subseteq Good
  <2>. HIDE DEF Good
  <2>. QED  BY <1>1, <1>2, SeqSetInduction
<1>. QED  BY <1>3

LEMMA MaxWithZero == ASSUME NEW n \in Nat PROVE Arguments!Max({n, 0}) = n
<1>1. n \in {n, 0} /\ \A y \in {n, 0} : n >= y
  OBVIOUS
<1>2. \A x \in {n, 0} : (\A y \in {n, 0} : x >= y) => x = n
  OBVIOUS
<1>. QED  BY <1>1, <1>2 DEF Arguments!Max

LEMMA ZerosPad ==
  ASSUME NEW z \in Seq({0}), NEW n \in Int, Len(z) = n
  PROVE  Arguments!Zeros(n) = z
<1>1. n \in Nat /\ z \in [1..n -> {0}]
  BY LenProperties
<1>2. Arguments!Zeros(n) = [i \in 1..n |-> 0]
  BY <1>1, MaxWithZero DEF Arguments!Zeros
<1>3. z = [i \in 1..n |-> 0]
  BY <1>1
<1>. QED  BY <1>2, <1>3

\* The type of a text.
TextTyped == text \in Seq(Arguments!Digits \cup {Arguments!Hyphen, Arguments!Dot, Arguments!Other})

LEMMA TextIsInts == TextTyped => text \in Seq(Int)
<1>1. Arguments!Hyphen \in Int /\ Arguments!Dot \in Int /\ Arguments!Other \in Int
  BY DEF Arguments!Hyphen, Arguments!Dot, Arguments!Other
<1>2. Arguments!Digits \cup {Arguments!Hyphen, Arguments!Dot, Arguments!Other} \subseteq Int
  BY <1>1, DigitsAreInts
<1>. QED  BY <1>2, SeqMonotonic DEF TextTyped

LEMMA IdentifierArrives == TextTyped => Arguments!IdentifierComesBack
<1>. SUFFICES ASSUME TextTyped, Arguments!uuidToFelt252(text) # Arguments!Throws
              PROVE  Arguments!felt252ToUuid(Arguments!uuidToFelt252(text))
                       = Arguments!Hyphenated(Arguments!Clean(text))
  BY DEF Arguments!IdentifierComesBack
<1>. DEFINE s == Arguments!Clean(text)
            v == Arguments!Number(s)
            h == Arguments!toHex[v]
<1>1. s \in Seq(Int)
  <2>. QED  BY TextIsInts, WithoutType DEF Arguments!Clean
<1>2. /\ Len(s) = IdLength /\ Arguments!IsDigits(s)
      /\ Arguments!uuidToFelt252(text) = v
  BY DEF Arguments!uuidToFelt252
<1>. HIDE DEF s
<1>3. s \in Seq(Arguments!Digits) /\ s # <<>>
  <2>1. Len(s) \in Nat /\ s \in [1..Len(s) -> Int]
    BY <1>1, LenProperties
  <2>2. IdLength # 0
    BY ArgumentBounds DEF Arguments!ArgumentsAssumption
  <2>3. s \in [1..Len(s) -> Arguments!Digits]
    BY <1>2, <2>1 DEF Arguments!IsDigits
  <2>. QED  BY <1>2, <2>1, <2>2, <2>3
<1>4. Pads(h, s)
  BY <1>3, HexPads
<1>. HIDE DEF h
<1>5. PICK z \in Seq({0}) : Len(z) = Len(s) - Len(h) /\ s = z \o h
  BY <1>4 DEF Pads
<1>6. Arguments!Zeros(IdLength - Len(h)) = z
  <2>1. IdLength - Len(h) = Len(z) /\ Len(z) \in Int
    BY <1>2, <1>5, LenProperties
  <2>. QED  BY <2>1, ZerosPad
<1>7. Arguments!PadStart(h) = s
  BY <1>5, <1>6 DEF Arguments!PadStart
<1>8. Arguments!felt252ToUuid(v) = Arguments!Hyphenated(s)
  BY <1>7 DEF Arguments!felt252ToUuid, h
<1>. QED  BY <1>2, <1>8 DEF s

-----------------------------------------------------------------------------
LEMMA DivisionOf ==
  ASSUME NEW p \in Nat \ {0}, NEW a \in Nat
  PROVE  a \div p \in Nat /\ a % p \in 0..(p - 1) /\ a = p * (a \div p) + (a % p)
OBVIOUS

LEMMA QuotientUnique ==
  ASSUME NEW p \in Nat \ {0}, NEW x \in Nat, NEW y \in Nat,
         NEW r \in 0..(p - 1), NEW q \in 0..(p - 1),
         p * x + r = p * y + q
  PROVE  x = y
<1>1. CASE x < y
  <2>1. p * (y - x) >= p
    <3>1. y - x >= 1 /\ y - x \in Nat
      BY <1>1
    <3>. QED  BY <3>1
  <2>2. p * (y - x) = p * y - p * x /\ p * y \in Int /\ p * x \in Int
    OBVIOUS
  <2>. QED  BY <2>1, <2>2
<1>2. CASE y < x
  <2>1. p * (x - y) >= p
    <3>1. x - y >= 1 /\ x - y \in Nat
      BY <1>2
    <3>. QED  BY <3>1
  <2>2. p * (x - y) = p * x - p * y /\ p * y \in Int /\ p * x \in Int
    OBVIOUS
  <2>. QED  BY <2>1, <2>2
<1>. QED  BY <1>1, <1>2

LEMMA QuotientIs ==
  ASSUME NEW p \in Nat \ {0}, NEW x \in Nat, NEW r \in 0..(p - 1)
  PROVE  (p * x + r) \div p = x
<1>. DEFINE a == p * x + r
            y == a \div p
            q == a % p
<1>1. a \in Nat
  OBVIOUS
<1>2. a = p * x + r
  OBVIOUS
<1>. HIDE DEF a
<1>3. y \in Nat /\ q \in 0..(p - 1) /\ a = p * y + q
  BY <1>1, DivisionOf
<1>. HIDE DEF y, q
<1>4. x = y
  BY <1>2, <1>3, QuotientUnique
<1>. QED  BY <1>4 DEF a, y
-----------------------------------------------------------------------------
(***************************************************************************)
(* Amounts: the pieces of a decimal number.                                *)
(***************************************************************************)
LEMMA FirstDotIs ==
  ASSUME NEW s \in Seq(Int)
  PROVE  /\ Arguments!FirstDot(s) \in 1..(Len(s) + 1)
         /\ \A i \in 1..Len(s) : i < Arguments!FirstDot(s) => s[i] # Arguments!Dot
         /\ Arguments!FirstDot(s) <= Len(s) => s[Arguments!FirstDot(s)] = Arguments!Dot
<1>. DEFINE S == {i \in 1..Len(s) : s[i] = Arguments!Dot} \cup {Len(s) + 1}
<1>0. Len(s) \in Nat
  BY LenProperties
<1>1. S \subseteq Nat /\ Len(s) + 1 \in S
  BY <1>0
<1>2. \E x \in S : \A y \in S : x <= y
  <2>. HIDE DEF S
  <2>. QED  BY <1>1, LeastOfSome
<1>3. Arguments!FirstDot(s) \in S /\ \A y \in S : Arguments!FirstDot(s) <= y
  <2>. HIDE DEF S
  <2>1. Arguments!Min(S) \in S /\ \A y \in S : Arguments!Min(S) <= y
    BY <1>2 DEF Arguments!Min
  <2>2. Arguments!FirstDot(s) = Arguments!Min(S)
    BY DEF Arguments!FirstDot, S
  <2>. QED  BY <2>1, <2>2
<1>. QED  BY <1>0, <1>3

\* The digits before the dot, if there is one, and those after it.
Whole(s) == SubSeq(s, 1, Arguments!FirstDot(s) - 1)
After(s) == SubSeq(s, Arguments!FirstDot(s) + 1, Len(s))

LEMMA DotNoDigit == Arguments!Dot \in Int /\ Arguments!Dot \notin Arguments!Digits
BY BaseInt DEF Arguments!Dot, Arguments!Digits

LEMMA Pieces ==
  ASSUME NEW s \in Seq(Int), Arguments!IsDecimal(s)
  PROVE  /\ Whole(s) \in Seq(Arguments!Digits) /\ After(s) \in Seq(Arguments!Digits)
         /\ Len(Whole(s)) = Arguments!FirstDot(s) - 1
         /\ Arguments!FirstDot(s) > Len(s) => After(s) = <<>> /\ s = Whole(s)
         /\ Arguments!FirstDot(s) <= Len(s) => /\ s = Append(Whole(s), Arguments!Dot) \o After(s)
                                               /\ Len(After(s)) = Len(s) - Arguments!FirstDot(s)
<1>. DEFINE k == Arguments!FirstDot(s)
<1>0. Len(s) \in Nat /\ s \in [1..Len(s) -> Int]
  BY LenProperties
<1>1. /\ k \in 1..(Len(s) + 1)
      /\ \A i \in 1..Len(s) : i < k => s[i] # Arguments!Dot
      /\ k <= Len(s) => s[k] = Arguments!Dot
  BY FirstDotIs
<1>2. \A i \in 1..Len(s) : s[i] \in Arguments!Digits \/ (s[i] = Arguments!Dot /\ i = k)
  BY DEF Arguments!IsDecimal
<1>. HIDE DEF k
<1>3. \A i \in 1..(k - 1) : s[i] \in Arguments!Digits
  BY <1>0, <1>1, <1>2
<1>4. \A i \in (k + 1)..Len(s) : s[i] \in Arguments!Digits
  BY <1>0, <1>1, <1>2
<1>. DEFINE w == SubSeq(s, 1, k - 1)
            f == SubSeq(s, k + 1, Len(s))
<1>5. w \in Seq(Arguments!Digits) /\ Len(w) = k - 1 /\ \A i \in 1..(k - 1) : w[i] = s[i]
  <2>1. 1 \in Int /\ k - 1 \in Int /\ k \in Int /\ k >= 1
    BY <1>1
  <2>2. /\ w \in Seq(Arguments!Digits) /\ Len(w) = IF 1 <= k - 1 THEN (k - 1) - 1 + 1 ELSE 0
        /\ \A i \in 1..((k - 1) - 1 + 1) : w[i] = s[1 + i - 1]
    BY <1>3, <2>1, SubSeqProperties
  <2>3. (k - 1) - 1 + 1 = k - 1 /\ \A i \in 1..(k - 1) : 1 + i - 1 = i
    BY <1>1
  <2>. HIDE DEF w
  <2>4. Len(w) = k - 1
    <3>1. 1 <= k - 1 \/ k - 1 = 0
      BY <2>1
    <3>. QED  BY <2>2, <2>3, <3>1
  <2>5. \A i \in 1..(k - 1) : w[i] = s[i]
    BY <2>2, <2>3
  <2>. QED  BY <2>2, <2>4, <2>5
<1>6. /\ f \in Seq(Arguments!Digits)
      /\ Len(f) = IF k + 1 <= Len(s) THEN Len(s) - k ELSE 0
      /\ \A i \in 1..(Len(s) - k) : f[i] = s[k + i]
  <2>1. k + 1 \in Int /\ Len(s) \in Int
    BY <1>0, <1>1
  <2>2. /\ f \in Seq(Arguments!Digits) /\ Len(f) = IF k + 1 <= Len(s) THEN Len(s) - (k + 1) + 1 ELSE 0
        /\ \A i \in 1..(Len(s) - (k + 1) + 1) : f[i] = s[(k + 1) + i - 1]
    BY <1>4, <2>1, SubSeqProperties
  <2>3. Len(s) - (k + 1) + 1 = Len(s) - k /\ \A i \in 1..(Len(s) - k) : (k + 1) + i - 1 = k + i
    BY <1>0, <1>1
  <2>. HIDE DEF f
  <2>. QED  BY <2>2, <2>3
<1>. HIDE DEF w, f
<1>7. ASSUME k > Len(s) PROVE f = <<>> /\ s = w
  <2>1. k = Len(s) + 1
    BY <1>0, <1>1, <1>7
  <2>2. f = <<>>
    BY <1>0, <1>6, <2>1, EmptySeq
  <2>3. w \in Seq(Int)
    BY <1>5, DigitsAreInts
  <2>4. Len(w) = Len(s) /\ \A i \in 1..Len(s) : s[i] = w[i]
    BY <1>0, <1>5, <2>1
  <2>5. s = w
    BY <2>3, <2>4, SeqEqual
  <2>. QED  BY <2>2, <2>5
<1>8. ASSUME k <= Len(s) PROVE s = Append(w, Arguments!Dot) \o f /\ Len(f) = Len(s) - k
  <2>. DEFINE a == Append(w, Arguments!Dot)
              t == a \o f
  <2>0. w \in Seq(Int) /\ f \in Seq(Int) /\ Len(f) = Len(s) - k
    <3>0. k \in Int /\ Len(s) \in Int
      BY <1>0, <1>1
    <3>1. k + 1 <= Len(s) \/ k = Len(s)
      BY <1>8, <3>0
    <3>2. Len(f) = Len(s) - k
      BY <1>6, <3>0, <3>1
    <3>. QED  BY <1>5, <1>6, <3>2, DigitsAreInts
  <2>1. /\ a \in Seq(Int) /\ Len(a) = k /\ a[k] = Arguments!Dot
        /\ \A i \in 1..(k - 1) : a[i] = w[i]
    <3>1. /\ a \in Seq(Int) /\ Len(a) = Len(w) + 1 /\ a[Len(w) + 1] = Arguments!Dot
          /\ \A i \in 1..Len(w) : a[i] = w[i]
      BY <2>0, DotNoDigit, AppendProperties
    <3>2. Len(w) + 1 = k
      BY <1>1, <1>5
    <3>. HIDE DEF a
    <3>. QED  BY <1>5, <3>1, <3>2
  <2>. HIDE DEF a
  <2>2. /\ t \in Seq(Int) /\ Len(t) = Len(a) + Len(f)
        /\ \A i \in 1..(Len(a) + Len(f)) : t[i] = IF i <= Len(a) THEN a[i] ELSE f[i - Len(a)]
    BY <2>0, <2>1, ConcatProperties
  <2>. HIDE DEF t
  <2>3. Len(a) + Len(f) = Len(s)
    BY <1>0, <1>1, <2>0, <2>1
  <2>4. ASSUME NEW i \in 1..Len(s) PROVE s[i] = t[i]
    <3>1. t[i] = IF i <= k THEN a[i] ELSE f[i - k]
      BY <2>1, <2>2, <2>3
    <3>2. CASE i < k
      <4>1. i \in 1..(k - 1) /\ i <= k
        BY <1>0, <1>1, <3>2
      <4>. QED  BY <1>5, <2>1, <3>1, <4>1
    <3>3. CASE i = k
      BY <1>1, <1>8, <2>1, <3>1, <3>3
    <3>4. CASE i > k
      <4>1. i - k \in 1..(Len(s) - k) /\ k + (i - k) = i /\ ~(i <= k)
        BY <1>0, <1>1, <3>4
      <4>. QED  BY <1>6, <3>1, <4>1
    <3>. QED  BY <1>0, <1>1, <3>2, <3>3, <3>4
  <2>5. s = t
    BY <2>2, <2>3, <2>4, SeqEqual
  <2>. QED  BY <2>0, <2>5 DEF t, a
<1>. QED  BY <1>5, <1>6, <1>7, <1>8 DEF Whole, After, k, w, f

\* Digits without a dot are all before it.
LEMMA NoDot ==
  ASSUME NEW f \in Seq(Arguments!Digits)
  PROVE  Arguments!WholePart(f) = f
<1>1. f \in Seq(Int) /\ Len(f) \in Nat /\ \A i \in 1..Len(f) : f[i] # Arguments!Dot
  BY DigitsAreInts, DotNoDigit, LenProperties
<1>2. Arguments!FirstDot(f) = Len(f) + 1
  <2>1. Arguments!FirstDot(f) \in 1..(Len(f) + 1) /\ ~(Arguments!FirstDot(f) <= Len(f))
    BY <1>1, FirstDotIs
  <2>. QED  BY <1>1, <2>1
<1>3. (Len(f) + 1) - 1 = Len(f)
  BY <1>1
<1>4. SubSeq(f, 1, Len(f)) = f
  BY <1>1, SubSeqFull
<1>. QED  BY <1>2, <1>3, <1>4 DEF Arguments!WholePart

LEMMA DecimalPartIs ==
  ASSUME NEW s \in Seq(Int), Arguments!IsDecimal(s)
  PROVE  Arguments!DecimalPart(s) = IF After(s) = <<>> THEN <<0>> ELSE After(s)
<1>1. Arguments!WholePart(After(s)) = After(s)
  BY Pieces, NoDot
<1>. QED  BY <1>1 DEF Arguments!DecimalPart, After

\* The digits before and after the dot.
LEMMA WithoutDot ==
  ASSUME NEW s \in Seq(Int), Arguments!IsDecimal(s)
  PROVE  Arguments!Without(s, Arguments!Dot) = Whole(s) \o After(s)
<1>1. Arguments!Digits \subseteq Int \ {Arguments!Dot}
  BY DigitsAreInts, DotNoDigit
<1>2. Whole(s) \in Seq(Int \ {Arguments!Dot}) /\ After(s) \in Seq(Int \ {Arguments!Dot})
  BY <1>1, Pieces, SeqMonotonic
<1>3. CASE Arguments!FirstDot(s) > Len(s)
  <2>1. s = Whole(s) /\ After(s) = <<>>
    BY <1>3, Pieces
  <2>2. Arguments!Without(s, Arguments!Dot) = s
    BY <1>2, <2>1, WithoutNone
  <2>3. Whole(s) \o <<>> = Whole(s)
    BY <1>2, ConcatEmptySeq
  <2>. QED  BY <2>1, <2>2, <2>3
<1>4. CASE Arguments!FirstDot(s) <= Len(s)
  <2>1. s = Append(Whole(s), Arguments!Dot) \o After(s)
    BY <1>4, Pieces
  <2>2. Arguments!Without(Append(Whole(s), Arguments!Dot) \o After(s), Arguments!Dot)
          = Whole(s) \o After(s)
    BY <1>2, DotNoDigit, WithoutOne
  <2>. QED  BY <2>1, <2>2, Zenon
<1>5. Arguments!FirstDot(s) \in Int /\ Len(s) \in Int
  BY FirstDotIs, LenProperties
<1>. QED  BY <1>3, <1>4, <1>5

-----------------------------------------------------------------------------
(***************************************************************************)
(* The digits after the dot, padded or cut to Decimals.                    *)
(***************************************************************************)
Padded(f) == [i \in 1..Decimals |-> IF i <= Len(f) THEN f[i] ELSE 0]

LEMMA DecimalsNat == Decimals \in Nat
BY ArgumentBounds DEF Arguments!ArgumentsAssumption

LEMMA PaddedDecimalPartIs ==
  ASSUME NEW s \in Seq(Int), Arguments!IsDecimal(s)
  PROVE  Arguments!PaddedDecimalPart(s) = Padded(After(s))
<1>. DEFINE g == Arguments!DecimalPart(s)
            f == After(s)
<1>1. g = IF f = <<>> THEN <<0>> ELSE f
  BY DecimalPartIs
<1>2. Arguments!PaddedDecimalPart(s) = [i \in 1..Decimals |-> IF i <= Len(g) THEN g[i] ELSE 0]
  BY DEF Arguments!PaddedDecimalPart
<1>. HIDE DEF g, f
<1>3. ASSUME NEW i \in 1..Decimals
      PROVE  (IF i <= Len(g) THEN g[i] ELSE 0) = (IF i <= Len(f) THEN f[i] ELSE 0)
  <2>1. CASE f = <<>>
    <3>1. g = <<0>> /\ Len(g) = 1 /\ Len(f) = 0 /\ i \in Nat \ {0}
      BY <1>1, <2>1, DecimalsNat
    <3>2. i <= 1 => i = 1
      BY <3>1
    <3>. QED  BY <3>1, <3>2
  <2>2. CASE f # <<>>
    BY <1>1, <2>2
  <2>. QED  BY <2>1, <2>2
<1>4. [i \in 1..Decimals |-> IF i <= Len(g) THEN g[i] ELSE 0]
        = [i \in 1..Decimals |-> IF i <= Len(f) THEN f[i] ELSE 0]
  BY <1>3, Zenon
<1>. QED  BY <1>2, <1>4 DEF Padded, f

LEMMA PaddedType ==
  ASSUME NEW f \in Seq(Arguments!Digits)
  PROVE  Padded(f) \in Seq(Arguments!Digits) /\ Len(Padded(f)) = Decimals
<1>1. \A i \in 1..Decimals : (IF i <= Len(f) THEN f[i] ELSE 0) \in Arguments!Digits
  <2>1. Len(f) \in Nat /\ f \in [1..Len(f) -> Arguments!Digits]
    BY LenProperties
  <2>2. \A i \in 1..Decimals : i <= Len(f) => i \in 1..Len(f)
    BY <2>1, DecimalsNat
  <2>. QED  BY <2>1, <2>2, DigitsAreInts
<1>2. Padded(f) \in [1..Decimals -> Arguments!Digits]
  BY <1>1 DEF Padded
<1>. HIDE DEF Padded
<1>. QED  BY <1>2, DecimalsNat

\* A short fraction is padded with zeros.
LEMMA PaddedShort ==
  ASSUME NEW f \in Seq(Arguments!Digits), Len(f) <= Decimals
  PROVE  Arguments!Number(Padded(f)) = Arguments!Number(f) * Arguments!Power[Decimals - Len(f)]
<1>. DEFINE n == Decimals - Len(f)
            z == [i \in 1..n |-> 0]
<1>1. n \in Nat /\ Len(f) \in Nat /\ f \in Seq(Int) /\ Len(f) + n = Decimals
  BY DecimalsNat, LenProperties, DigitsAreInts
<1>. HIDE DEF n
<1>2. z \in Seq({0}) /\ Len(z) = n /\ \A i \in 1..n : z[i] = 0
  BY <1>1
<1>. HIDE DEF z
<1>3. z \in Seq(Int) /\ Arguments!Number(z) = 0
  BY <1>2, NumberZeros
<1>4. Padded(f) \in Seq(Int) /\ Len(Padded(f)) = Decimals
  BY PaddedType, DigitsAreInts
<1>5. /\ f \o z \in Seq(Int) /\ Len(f \o z) = Len(f) + n
      /\ \A i \in 1..(Len(f) + n) : (f \o z)[i] = IF i <= Len(f) THEN f[i] ELSE z[i - Len(f)]
  <2>1. /\ f \o z \in Seq(Int) /\ Len(f \o z) = Len(f) + Len(z)
        /\ \A i \in 1..(Len(f) + Len(z)) :
             (f \o z)[i] = IF i <= Len(f) THEN f[i] ELSE z[i - Len(f)]
    <3>1. f \in Seq(Int) /\ z \in Seq(Int)
      BY <1>1, <1>3
    <3>. QED  BY <3>1, ConcatProperties
  <2>2. Len(z) = n
    BY <1>2
  <2>. QED  BY <2>1, <2>2
<1>6. ASSUME NEW i \in 1..Decimals PROVE Padded(f)[i] = (f \o z)[i]
  <2>1. Padded(f)[i] = IF i <= Len(f) THEN f[i] ELSE 0
    BY DEF Padded
  <2>2. (f \o z)[i] = IF i <= Len(f) THEN f[i] ELSE z[i - Len(f)]
    BY <1>1, <1>5
  <2>3. ~(i <= Len(f)) => i - Len(f) \in 1..n
    BY <1>1, DecimalsNat
  <2>. QED  BY <1>2, <2>1, <2>2, <2>3
<1>7. Padded(f) = f \o z
  <2>. DEFINE p == Padded(f)
              t == f \o z
  <2>1. p \in Seq(Int) /\ t \in Seq(Int) /\ Len(p) = Len(t) /\ \A i \in 1..Len(p) : p[i] = t[i]
    BY <1>1, <1>4, <1>5, <1>6
  <2>. HIDE DEF p, t
  <2>2. p = t
    BY <2>1, SeqEqual
  <2>. QED  BY <2>2 DEF p, t
<1>8. Arguments!Number(f \o z) = Arguments!Number(f) * Arguments!Power[n] + 0
  BY <1>1, <1>2, <1>3, NumberConcat
<1>9. Arguments!Number(f) * Arguments!Power[n] \in Int
  BY <1>1, NumberInt, PowerType
<1>. QED  BY <1>7, <1>8, <1>9 DEF n

\* A long fraction is cut.
LEMMA PaddedLong ==
  ASSUME NEW f \in Seq(Arguments!Digits), Len(f) > Decimals
  PROVE  \E r \in 0..(Arguments!Power[Len(f) - Decimals] - 1) :
           Arguments!Number(f) = Arguments!Number(Padded(f)) * Arguments!Power[Len(f) - Decimals] + r
<1>. DEFINE p == Padded(f)
            g == SubSeq(f, Decimals + 1, Len(f))
<1>1. Len(f) \in Nat /\ \A i \in 1..Len(f) : f[i] \in Arguments!Digits
  BY LenProperties
<1>2. p \in Seq(Arguments!Digits) /\ Len(p) = Decimals
  BY PaddedType
<1>3. \A i \in 1..Decimals : p[i] = f[i]
  BY <1>1, DecimalsNat DEF Padded
<1>4. SubSeq(f, 1, Decimals) = p
  <2>1. \A i \in 1..Decimals : f[i] \in Arguments!Digits
    BY <1>1, DecimalsNat
  <2>. DEFINE q == SubSeq(f, 1, Decimals)
  <2>2. /\ q \in Seq(Arguments!Digits) /\ Len(q) = IF 1 <= Decimals THEN Decimals - 1 + 1 ELSE 0
        /\ \A i \in 1..(Decimals - 1 + 1) : q[i] = f[1 + i - 1]
    BY <2>1, DecimalsNat, SubSeqProperties
  <2>. HIDE DEF q, p
  <2>3. Len(q) = Decimals /\ Decimals - 1 + 1 = Decimals
    BY <2>2, DecimalsNat
  <2>4. \A i \in 1..Decimals : 1 + i - 1 = i
    BY DecimalsNat
  <2>5. \A i \in 1..Len(q) : q[i] = p[i]
    BY <1>3, <2>2, <2>3, <2>4
  <2>6. q = p
    BY <1>2, <2>2, <2>3, <2>5, SeqEqual
  <2>. QED  BY <2>6 DEF q
<1>5. g \in Seq(Arguments!Digits) /\ Len(g) = Len(f) - Decimals
  <2>1. \A i \in (Decimals + 1)..Len(f) : f[i] \in Arguments!Digits
    BY <1>1, DecimalsNat
  <2>2. /\ g \in Seq(Arguments!Digits)
        /\ Len(g) = IF Decimals + 1 <= Len(f) THEN Len(f) - (Decimals + 1) + 1 ELSE 0
    BY <1>1, <2>1, DecimalsNat, SubSeqProperties
  <2>. HIDE DEF g
  <2>. QED  BY <1>1, <2>2, DecimalsNat
<1>6. f = p \o g
  <2>1. 1 \in 1..(Len(f) + 1) /\ Decimals \in (1 - 1)..Len(f) /\ Len(f) \in Decimals..Len(f)
    BY <1>1, DecimalsNat
  <2>2. SubSeq(f, 1, Decimals) \o SubSeq(f, Decimals + 1, Len(f)) = SubSeq(f, 1, Len(f))
    BY <2>1, ConcatAdjacentSubSeq
  <2>3. SubSeq(f, 1, Len(f)) = f
    BY SubSeqFull
  <2>. QED  BY <1>4, <2>2, <2>3
<1>. HIDE DEF p, g
<1>7. Arguments!Number(g) \in 0..(Arguments!Power[Len(f) - Decimals] - 1)
  BY <1>5, NumberBounds
<1>8. Arguments!Number(p \o g) =
        Arguments!Number(p) * Arguments!Power[Len(f) - Decimals] + Arguments!Number(g)
  BY <1>2, <1>5, DigitsAreInts, NumberConcat
<1>. QED  BY <1>6, <1>7, <1>8 DEF p

-----------------------------------------------------------------------------
(***************************************************************************)
(* The value written and the value sent, both from the pieces.             *)
(***************************************************************************)
LEMMA DigitsNumberNat ==
  ASSUME NEW s \in Seq(Arguments!Digits)
  PROVE  Arguments!Number(s) \in Nat /\ Arguments!IsDigits(s)
<1>1. Len(s) \in Nat /\ s \in [1..Len(s) -> Arguments!Digits]
  BY LenProperties
<1>2. Arguments!Power[Len(s)] \in Nat \ {0}
  BY <1>1, PowerType
<1>3. Arguments!Number(s) \in 0..(Arguments!Power[Len(s)] - 1)
  BY NumberBounds
<1>4. Arguments!Number(s) \in Nat
  BY <1>2, <1>3
<1>. QED  BY <1>1, <1>4 DEF Arguments!IsDigits

LEMMA WeiIs ==
  ASSUME NEW s \in Seq(Int), Arguments!IsDecimal(s)
  PROVE  Arguments!convertToWei(s)
           = Arguments!Number(Whole(s)) * Arguments!Power[Decimals]
               + Arguments!Number(Padded(After(s)))
<1>. DEFINE w == Whole(s)
            p == Padded(After(s))
<1>1. w \in Seq(Arguments!Digits) /\ p \in Seq(Arguments!Digits) /\ Len(p) = Decimals
  BY Pieces, PaddedType
<1>2. Arguments!convertToWei(s) = Arguments!BigInt(w \o p)
  BY PaddedDecimalPartIs DEF Arguments!convertToWei, Arguments!WholePart, Whole
<1>. HIDE DEF w, p
<1>3. w \o p \in Seq(Arguments!Digits)
  BY <1>1, ConcatProperties
<1>4. Arguments!BigInt(w \o p) = Arguments!Number(w \o p)
  BY <1>3, DigitsNumberNat DEF Arguments!BigInt
<1>5. Arguments!Number(w \o p) = Arguments!Number(w) * Arguments!Power[Decimals] + Arguments!Number(p)
  BY <1>1, DigitsAreInts, NumberConcat
<1>. QED  BY <1>2, <1>4, <1>5 DEF w, p

LEMMA DivisionByOne == ASSUME NEW a \in Nat PROVE a \div 1 = a
OBVIOUS

LEMMA ScaledIs ==
  ASSUME NEW s \in Seq(Int), Arguments!IsDecimal(s)
  PROVE  Arguments!ScaledValue(s) =
           ((Arguments!Number(Whole(s)) * Arguments!Power[Len(After(s))] + Arguments!Number(After(s)))
              * Arguments!Power[Decimals]) \div Arguments!Power[Len(After(s))]
<1>. DEFINE w == Whole(s)
            f == After(s)
            digits == Arguments!Number(w \o f)
<1>1. w \in Seq(Arguments!Digits) /\ f \in Seq(Arguments!Digits)
  BY Pieces
<1>2. Arguments!ScaledValue(s) = IF Arguments!FirstDot(s) > Len(s)
        THEN digits * Arguments!Power[Decimals]
        ELSE (digits * Arguments!Power[Decimals]) \div Arguments!Power[Arguments!Fraction(s)]
  BY WithoutDot DEF Arguments!ScaledValue
<1>3. digits = Arguments!Number(w) * Arguments!Power[Len(f)] + Arguments!Number(f)
  BY <1>1, DigitsAreInts, NumberConcat
<1>4. digits * Arguments!Power[Decimals] \in Nat
  <2>1. w \o f \in Seq(Arguments!Digits)
    BY <1>1, ConcatProperties
  <2>2. digits \in Nat /\ Arguments!Power[Decimals] \in Nat
    BY <2>1, DigitsNumberNat, PowerType, DecimalsNat
  <2>. HIDE DEF digits
  <2>. QED  BY <2>2
<1>5. CASE Arguments!FirstDot(s) > Len(s)
  <2>1. f = <<>> /\ Len(<<>>) = 0
    BY <1>5, Pieces
  <2>2. Arguments!Power[Len(f)] = 1
    BY <2>1, PowerSteps
  <2>. DEFINE n == digits * Arguments!Power[Decimals]
  <2>3. n \in Nat /\ Arguments!ScaledValue(s) = n
    BY <1>2, <1>4, <1>5
  <2>. HIDE DEF n
  <2>4. n \div 1 = n
    BY <2>3, DivisionByOne
  <2>. HIDE DEF digits, w, f
  <2>. QED  BY <1>3, <2>2, <2>3, <2>4 DEF n, w, f
<1>6. CASE ~(Arguments!FirstDot(s) > Len(s))
  <2>1. Arguments!FirstDot(s) <= Len(s)
    <3>1. Arguments!FirstDot(s) \in Int /\ Len(s) \in Int
      BY FirstDotIs, LenProperties
    <3>. QED  BY <1>6, <3>1
  <2>2. Arguments!Fraction(s) = Len(f)
    BY <2>1, Pieces DEF Arguments!Fraction
  <2>. HIDE DEF digits
  <2>. QED  BY <1>2, <1>3, <1>6, <2>2
<1>. QED  BY <1>5, <1>6

\* The arithmetic of the two cases.
LEMMA ShortFraction ==
  ASSUME NEW W \in Nat, NEW n \in Nat, NEW p \in Nat \ {0}, NEW q \in Nat \ {0}
  PROVE  ((W * p + n) * (p * q)) \div p = W * (p * q) + n * q
<1>. DEFINE x == W * (p * q) + n * q
<1>1. x \in Nat
  OBVIOUS
<1>2. (W * p + n) * (p * q) = p * x + 0
  <2>1. (W * p + n) * (p * q) = (W * p) * (p * q) + n * (p * q)
    OBVIOUS
  <2>2. (W * p) * (p * q) = p * (W * (p * q)) /\ n * (p * q) = p * (n * q)
    OBVIOUS
  <2>3. p * x = p * (W * (p * q)) + p * (n * q)
    OBVIOUS
  <2>4. p * x \in Int
    OBVIOUS
  <2>. HIDE DEF x
  <2>. QED  BY <2>1, <2>2, <2>3, <2>4
<1>3. 0 \in 0..(p - 1)
  OBVIOUS
<1>. HIDE DEF x
<1>4. (p * x + 0) \div p = x
  BY <1>1, <1>3, QuotientIs
<1>. QED  BY <1>2, <1>4 DEF x

LEMMA LongFraction ==
  ASSUME NEW W \in Nat, NEW n \in Nat, NEW d \in Nat \ {0}, NEW q \in Nat \ {0}, NEW r \in 0..(q - 1)
  PROVE  ((W * (d * q) + (n * q + r)) * d) \div (d * q) = W * d + n
<1>. DEFINE x == W * d + n
            p == d * q
            e == r * d
<1>1. x \in Nat /\ p \in Nat \ {0}
  OBVIOUS
<1>2. e \in 0..(p - 1)
  <2>1. e \in Nat
    OBVIOUS
  <2>2. r + 1 <= q /\ (r + 1) * d <= q * d
    OBVIOUS
  <2>3. (r + 1) * d = e + d /\ q * d = p
    OBVIOUS
  <2>. HIDE DEF e, p
  <2>. QED  BY <1>1, <2>1, <2>2, <2>3
<1>3. (W * (d * q) + (n * q + r)) * d = p * x + e
  <2>1. (W * (d * q) + (n * q + r)) * d = (W * (d * q)) * d + ((n * q) * d + r * d)
    OBVIOUS
  <2>2. (W * (d * q)) * d = p * (W * d) /\ (n * q) * d = p * n
    OBVIOUS
  <2>3. p * x = p * (W * d) + p * n
    OBVIOUS
  <2>4. p * (W * d) \in Int /\ p * n \in Int /\ e \in Int
    OBVIOUS
  <2>5. r * d = e
    OBVIOUS
  <2>. HIDE DEF x, p, e
  <2>. QED  BY <2>1, <2>2, <2>3, <2>4, <2>5
<1>. HIDE DEF x, p, e
<1>4. (p * x + e) \div p = x
  BY <1>1, <1>2, QuotientIs
<1>. QED  BY <1>3, <1>4 DEF x, p

\* What is sent is what was written, rounded down.
LEMMA WeiIsScaled ==
  ASSUME NEW s \in Seq(Int), Arguments!IsDecimal(s)
  PROVE  Arguments!convertToWei(s) \in Nat /\ Arguments!convertToWei(s) = Arguments!ScaledValue(s)
<1>. DEFINE f  == After(s)
            F  == Len(f)
            W  == Arguments!Number(Whole(s))
            N  == Arguments!Number(f)
            M  == Arguments!Number(Padded(f))
            PD == Arguments!Power[Decimals]
            PF == Arguments!Power[F]
<1>1. f \in Seq(Arguments!Digits) /\ F \in Nat /\ Decimals \in Nat
  BY Pieces, LenProperties, DecimalsNat
<1>2. W \in Nat /\ N \in Nat /\ M \in Nat
  BY <1>1, Pieces, DigitsNumberNat, PaddedType
<1>3. PD \in Nat \ {0} /\ PF \in Nat \ {0}
  BY <1>1, PowerType
<1>4. Arguments!convertToWei(s) = W * PD + M /\ Arguments!ScaledValue(s) = ((W * PF + N) * PD) \div PF
  BY WeiIs, ScaledIs
<1>5. F <= Decimals \/ F > Decimals
  BY <1>1
<1>6. F <= Decimals => M = N * Arguments!Power[Decimals - F]
  BY <1>1, PaddedShort
<1>7. F > Decimals =>
        \E r \in 0..(Arguments!Power[F - Decimals] - 1) : N = M * Arguments!Power[F - Decimals] + r
  BY <1>1, PaddedLong
<1>. HIDE DEF f, W, N, M, F
<1>8. CASE F <= Decimals
  <2>. DEFINE q == Arguments!Power[Decimals - F]
  <2>1. Decimals - F \in Nat /\ F + (Decimals - F) = Decimals
    BY <1>1, <1>8
  <2>2. q \in Nat \ {0} /\ PD = PF * q
    <3>1. Arguments!Power[F + (Decimals - F)] = Arguments!Power[F] * Arguments!Power[Decimals - F]
      BY <1>1, <2>1, PowerSum
    <3>. QED  BY <2>1, <3>1, PowerType
  <2>3. M = N * q
    BY <1>6, <1>8
  <2>. HIDE DEF q, PF, PD
  <2>4. ((W * PF + N) * (PF * q)) \div PF = W * (PF * q) + N * q
    BY <1>2, <1>3, <2>2, ShortFraction
  <2>. QED  BY <1>2, <1>3, <1>4, <2>2, <2>3, <2>4
<1>9. CASE F > Decimals
  <2>. DEFINE q == Arguments!Power[F - Decimals]
  <2>1. F - Decimals \in Nat /\ Decimals + (F - Decimals) = F
    BY <1>1, <1>9
  <2>2. q \in Nat \ {0} /\ PF = PD * q
    <3>1. Arguments!Power[Decimals + (F - Decimals)] =
            Arguments!Power[Decimals] * Arguments!Power[F - Decimals]
      BY <1>1, <2>1, PowerSum
    <3>. QED  BY <2>1, <3>1, PowerType
  <2>3. PICK r \in 0..(q - 1) : N = M * q + r
    BY <1>7, <1>9
  <2>. HIDE DEF q, PF, PD
  <2>4. ((W * (PD * q) + (M * q + r)) * PD) \div (PD * q) = W * PD + M
    BY <1>2, <1>3, <2>2, LongFraction
  <2>. QED  BY <1>2, <1>3, <1>4, <2>2, <2>3, <2>4
<1>. QED  BY <1>5, <1>8, <1>9

-----------------------------------------------------------------------------
(***************************************************************************)
(* The two words.                                                          *)
(***************************************************************************)
LEMMA TwoWords ==
  ASSUME NEW n \in Nat
  PROVE  /\ n < Word * Word =>
              /\ Arguments!bnToUint256(n) # Arguments!Refused
              /\ Arguments!bnToUint256(n)[1] + Word * Arguments!bnToUint256(n)[2] = n
         /\ ~(n < Word * Word) => Arguments!bnToUint256(n) = Arguments!Refused
<1>1. Word \in Nat \ {0}
  BY ArgumentBounds DEF Arguments!ArgumentsAssumption
<1>2. CASE n < Word * Word
  <2>. DEFINE low  == n % Word
              high == n \div Word
  <2>1. low \in Int /\ Word * high \in Int /\ n = Word * high + low
    BY <1>1, DivisionOf
  <2>2. Arguments!bnToUint256(n) = <<low, high>>
    BY <1>2 DEF Arguments!bnToUint256
  <2>. HIDE DEF low, high
  <2>3. <<low, high>> # <<>>
    OBVIOUS
  <2>4. <<low, high>>[1] = low /\ <<low, high>>[2] = high
    OBVIOUS
  <2>5. low + Word * high = n
    BY <2>1
  <2>. QED  BY <1>2, <2>2, <2>3, <2>4, <2>5 DEF Arguments!Refused
<1>3. CASE ~(n < Word * Word)
  BY <1>3 DEF Arguments!bnToUint256
<1>. QED  BY <1>2, <1>3

\* A fiat amount without a fraction is the whole part.
LEMMA WholeIsScaled ==
  ASSUME NEW s \in Seq(Int), Arguments!IsDecimal(s),
         \A i \in 1..Len(Arguments!DecimalPart(s)) : Arguments!DecimalPart(s)[i] = 0
  PROVE  Arguments!Number(Whole(s)) * Arguments!Power[Decimals] = Arguments!ScaledValue(s)
<1>. DEFINE p == Padded(After(s))
            d == Arguments!DecimalPart(s)
<1>1. p \in Seq(Arguments!Digits) /\ Len(p) = Decimals
  BY Pieces, PaddedType
<1>2. p = [i \in 1..Decimals |-> IF i <= Len(d) THEN d[i] ELSE 0]
  BY PaddedDecimalPartIs DEF Arguments!PaddedDecimalPart
<1>3. Len(d) \in Nat
  <2>1. Len(After(s)) \in Nat /\ Len(<<0>>) = 1
    BY Pieces, LenProperties
  <2>. QED  BY <2>1, DecimalPartIs
<1>. HIDE DEF p, d
<1>4. \A i \in 1..Decimals : p[i] = 0
  <2>1. \A i \in 1..Decimals : i <= Len(d) => i \in 1..Len(d)
    BY <1>3, DecimalsNat
  <2>2. \A i \in 1..Len(d) : d[i] = 0
    BY DEF d
  <2>. QED  BY <1>2, <2>1, <2>2
<1>5. p \in Seq({0})
  <2>1. p \in [1..Decimals -> {0}]
    BY <1>2, <1>4
  <2>. QED  BY <2>1, DecimalsNat
<1>6. Arguments!Number(p) = 0
  BY <1>5, NumberZeros
<1>7. Arguments!Number(Whole(s)) * Arguments!Power[Decimals] \in Int
  BY Pieces, DigitsNumberNat, PowerType, DecimalsNat
<1>8. Arguments!convertToWei(s) = Arguments!Number(Whole(s)) * Arguments!Power[Decimals] + 0
  BY <1>6, WeiIs DEF p
<1>. QED  BY <1>7, <1>8, WeiIsScaled

LEMMA AmountArrivesTyped == TextTyped => Arguments!AmountArrives
<1>. SUFFICES ASSUME TextTyped, Arguments!IsDecimal(text) PROVE Arguments!AmountArrives
  BY DEF Arguments!AmountArrives
<1>1. text \in Seq(Int)
  BY TextIsInts
<1>. DEFINE n == Arguments!ScaledValue(text)
            got(a) == a[1] + Word * a[2]
            W == Arguments!Number(Whole(text))
<1>2. n \in Nat /\ Arguments!convertToWei(text) = n
  BY <1>1, WeiIsScaled
<1>3. IF n < Word * Word
        THEN Arguments!TokenAmount(text) # Arguments!Refused /\ got(Arguments!TokenAmount(text)) = n
        ELSE Arguments!TokenAmount(text) = Arguments!Refused
  <2>1. Arguments!TokenAmount(text) = Arguments!bnToUint256(n)
    BY <1>2 DEF Arguments!TokenAmount
  <2>. HIDE DEF n
  <2>. QED  BY <1>2, <2>1, TwoWords
<1>4. ASSUME Arguments!FiatAmount(text) # Arguments!Refused
      PROVE  got(Arguments!FiatAmount(text)) * Arguments!Power[Decimals] = n
  <2>1. \A i \in 1..Len(Arguments!DecimalPart(text)) : Arguments!DecimalPart(text)[i] = 0
    BY <1>4 DEF Arguments!FiatAmount
  <2>2. Arguments!FiatAmount(text) = Arguments!bnToUint256(Arguments!BigInt(Whole(text)))
    BY <2>1 DEF Arguments!FiatAmount, Arguments!WholePart, Whole
  <2>3. W \in Nat /\ Arguments!BigInt(Whole(text)) = W
    BY <1>1, Pieces, DigitsNumberNat DEF Arguments!BigInt
  <2>4. W * Arguments!Power[Decimals] = n
    BY <1>1, <2>1, WholeIsScaled
  <2>. HIDE DEF n, W
  <2>5. got(Arguments!FiatAmount(text)) = W
    BY <1>4, <2>2, <2>3, TwoWords
  <2>. QED  BY <2>4, <2>5
<1>. QED  BY <1>3, <1>4 DEF Arguments!AmountArrives

-----------------------------------------------------------------------------
(***************************************************************************)
(* A text keeps its type.                                                  *)
(***************************************************************************)
LEMMA TextInit == InitAll => TextTyped
BY EmptySeq DEF InitAll, Arguments!Init, TextTyped

LEMMA TextNext == TextTyped /\ [NextAll]_allVars => TextTyped'
<1>. DEFINE Chars == Arguments!Digits \cup {Arguments!Hyphen, Arguments!Dot, Arguments!Other}
<1>. SUFFICES ASSUME TextTyped, [NextAll]_allVars PROVE TextTyped'
  OBVIOUS
<1>1. Chars' = Chars
  OBVIOUS
<1>. QED  BY AppendProperties
   DEF TextTyped, NextAll, allVars, Arguments!Write

-----------------------------------------------------------------------------
(***************************************************************************)
(* Theorem.                                                                *)
(***************************************************************************)

\* uuidToFelt252, felt252ToUuid, convertToWei and bnToUint256, for texts of any length, any
\* base, word and number of decimals: an identifier comes back as the uuid with the same
\* digits, and the contract gets the amount that was written, rounded down to the unit, or
\* the amount is refused.
THEOREM ConversionsTrue == SpecAll => []ArgumentsArrive
<1>1. TextTyped => ArgumentsArrive
  BY IdentifierArrives, AmountArrivesTyped DEF ArgumentsArrive
<1>. QED  BY <1>1, TextInit, TextNext, PTL DEF SpecAll

=============================================================================
