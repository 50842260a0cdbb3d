-------------------------- MODULE NumberSets_proofs --------------------------
(***************************************************************************)
(* What InOrder gives, and that nothing else does: an ascending sequence   *)
(* is known by its range.                                                  *)
(***************************************************************************)
EXTENDS NumberSets, Sequences, FiniteSetTheorems, FunctionTheorems,
        SequenceTheorems, WellFoundedInduction, TLAPS

Ascends(s) == \A m, n \in 1..Len(s) : m < n => s[m] < s[n]

\* A set of natural numbers has a least one.
LEMMA LeastExists ==
  ASSUME NEW T \in SUBSET Nat, T # {}
  PROVE  \E x \in T : \A y \in T : x <= y
<1>1. PICK x \in T : \A y \in T : ~ (<<y, x>> \in OpToRel(<, Nat))
  BY NatLessThanWellFounded, WFMin
<1>2. \A y \in T : ~ (y < x)
  BY <1>1 DEF OpToRel
<1>3. \A y \in T : y \in Nat /\ x \in Nat
  OBVIOUS
<1> QED BY <1>2, <1>3

(* An element of a larger rank is larger, and the other way round. *)
LEMMA RankGrows ==
  ASSUME NEW S \in SUBSET Int, IsFiniteSet(S), NEW x \in S, NEW y \in S
  PROVE  /\ Cardinality(Smaller(S, x)) \in 0..(Cardinality(S) - 1)
         /\ x < y => Cardinality(Smaller(S, x)) < Cardinality(Smaller(S, y))
<1>1. \A z \in S : /\ IsFiniteSet(Smaller(S, z)) /\ Cardinality(Smaller(S, z)) \in Nat
                   /\ z \notin Smaller(S, z)
  <2> SUFFICES ASSUME NEW z \in S
               PROVE  /\ IsFiniteSet(Smaller(S, z)) /\ Cardinality(Smaller(S, z)) \in Nat
                      /\ z \notin Smaller(S, z)
    OBVIOUS
  <2>1. z \in Int
    OBVIOUS
  <2>2. Smaller(S, z) \in SUBSET S /\ z \notin Smaller(S, z)
    BY <2>1 DEF Smaller
  <2> QED BY <2>2, FS_Subset, FS_CardinalityType
<1>2. Cardinality(S) \in Nat
  BY FS_CardinalityType
<1>3. Smaller(S, x) \in SUBSET S /\ Smaller(S, x) # S
  BY <1>1 DEF Smaller
<1>4. Cardinality(Smaller(S, x)) < Cardinality(S)
  BY <1>1, <1>2, <1>3, FS_Subset
<1>5. ASSUME x < y PROVE Cardinality(Smaller(S, x)) < Cardinality(Smaller(S, y))
  <2>1. x \in Int /\ y \in Int
    OBVIOUS
  <2>2. Smaller(S, x) \in SUBSET Smaller(S, y)
    <3> SUFFICES ASSUME NEW z \in S, z < x PROVE z < y
      BY DEF Smaller
    <3>1. z \in Int
      OBVIOUS
    <3> QED BY <1>5, <2>1, <3>1
  <2>3. x \in Smaller(S, y)
    BY <1>5 DEF Smaller
  <2>4. Smaller(S, x) # Smaller(S, y)
    BY <1>1, <2>3
  <2> QED BY <1>1, <2>2, <2>4, FS_Subset
<1> QED BY <1>1, <1>2, <1>4, <1>5

(* Every rank up to the size of the set is that of an element: the ranks   *)
(* are as many as the elements, and no two elements share one.             *)
LEMMA RankTaken ==
  ASSUME NEW S \in SUBSET Int, IsFiniteSet(S), NEW m \in 1..Cardinality(S)
  PROVE  \E x \in S : Cardinality(Smaller(S, x)) = m - 1
<1> DEFINE n == Cardinality(S)
           rank == [x \in S |-> Cardinality(Smaller(S, x))]
           Ranks == 0..(n - 1)
<1>1. n \in Nat
  BY FS_CardinalityType
<1>2. rank \in [S -> Ranks]
  BY RankGrows
<1>3. \A x, y \in S : rank[x] = rank[y] => x = y
  <2> SUFFICES ASSUME NEW x \in S, NEW y \in S, rank[x] = rank[y] PROVE x = y
    OBVIOUS
  <2>1. ~(x < y) /\ ~(y < x)
    BY RankGrows
  <2> QED BY <2>1
<1>4. rank \in Injection(S, Ranks)
  BY <1>2, <1>3 DEF Injection, IsInjective
<1>5. IsFiniteSet(Ranks) /\ Cardinality(Ranks) = n
  <2>1. 0 \in Int /\ n - 1 \in Int
    BY <1>1
  <2>2. Cardinality(Ranks) = IF 0 > n - 1 THEN 0 ELSE n - 1 - 0 + 1
    BY <2>1, FS_Interval
  <2>3. Cardinality(Ranks) = n
    BY <1>1, <2>2
  <2> QED BY <2>1, <2>3, FS_Interval
<1>6. rank \in Surjection(S, Ranks)
  BY <1>4, <1>5, FS_Injection
<1>7. \E x \in S : rank[x] = m - 1
  <2>1. m - 1 \in Ranks
    BY <1>1
  <2> HIDE DEF rank, Ranks
  <2> QED BY <1>6, <2>1 DEF Surjection
<1> QED BY <1>7

(* InOrder gives the elements of the set, each once, in ascending order.   *)
LEMMA InOrderAscends ==
  ASSUME NEW S \in SUBSET Int, IsFiniteSet(S)
  PROVE  /\ InOrder(S) \in Seq(S) /\ Len(InOrder(S)) = Cardinality(S)
         /\ Ascends(InOrder(S))
         /\ {InOrder(S)[m] : m \in 1..Len(InOrder(S))} = S
<1> DEFINE s == InOrder(S)
           n == Cardinality(S)
<1>1. n \in Nat
  BY FS_CardinalityType
<1>2. \A m \in 1..n : s[m] \in S /\ Cardinality(Smaller(S, s[m])) = m - 1
  BY RankTaken DEF InOrder
<1>3. s \in [1..n -> S]
  BY <1>2 DEF InOrder
<1>4. s \in Seq(S) /\ Len(s) = n
  BY <1>1, <1>3
<1>5. Ascends(s)
  <2> SUFFICES ASSUME NEW i \in 1..n, NEW j \in 1..n, i < j PROVE s[i] < s[j]
    BY <1>4 DEF Ascends
  <2>1. s[i] \in Int /\ s[j] \in Int
    BY <1>3
  <2>2. /\ s[i] \in S /\ Cardinality(Smaller(S, s[i])) = i - 1
        /\ s[j] \in S /\ Cardinality(Smaller(S, s[j])) = j - 1
    BY <1>2
  <2>3. s[i] # s[j]
    BY <2>2
  <2>4. s[j] < s[i] => j - 1 < i - 1
    <3> HIDE DEF s
    <3>1. s[j] < s[i] => Cardinality(Smaller(S, s[j])) < Cardinality(Smaller(S, s[i]))
      BY <2>2, RankGrows
    <3> QED BY <2>2, <3>1
  <2> HIDE DEF s
  <2> QED BY <2>1, <2>3, <2>4
<1>6. ASSUME NEW x \in S PROVE \E m \in 1..n : s[m] = x
  <2> DEFINE m == Cardinality(Smaller(S, x)) + 1
  <2>1. m \in 1..n
    BY <1>1, RankGrows
  <2>2. Cardinality(Smaller(S, s[m])) = Cardinality(Smaller(S, x)) /\ s[m] \in S
    <3>1. Cardinality(Smaller(S, x)) \in Int
      BY RankGrows
    <3>2. Cardinality(Smaller(S, s[m])) = m - 1 /\ s[m] \in S
      BY <1>2, <2>1
    <3> QED BY <3>1, <3>2
  <2>3. s[m] \in Int /\ x \in Int
    BY <2>2
  <2>4. s[m] = x
    <3> HIDE DEF m
    <3> DEFINE c(z) == Cardinality(Smaller(S, z))
    <3> HIDE DEF s
    <3>1. s[m] < x => c(s[m]) < c(x)
      BY <2>2, RankGrows
    <3>2. x < s[m] => c(x) < c(s[m])
      BY <2>2, RankGrows
    <3>3. c(x) \in Int
      BY RankGrows
    <3> QED BY <2>2, <2>3, <3>1, <3>2, <3>3
  <2> QED BY <2>1, <2>4
<1>7. {s[m] : m \in 1..n} = S
  BY <1>2, <1>6
<1> QED BY <1>4, <1>5, <1>7

(* An ascending sequence is what InOrder makes of its range.               *)
LEMMA InOrderUnique ==
  ASSUME NEW s \in Seq(Int), Ascends(s),
         NEW S, S = {s[m] : m \in 1..Len(s)}
  PROVE  IsFiniteSet(S) /\ Cardinality(S) = Len(s) /\ InOrder(S) = s
<1> DEFINE n == Len(s)
<1>1. n \in Nat /\ s = [m \in 1..n |-> s[m]] /\ \A m \in 1..n : s[m] \in Int
  OBVIOUS
<1>2. \A i, j \in 1..n : s[i] = s[j] => i = j
  <2> SUFFICES ASSUME NEW i \in 1..n, NEW j \in 1..n, s[i] = s[j] PROVE i = j
    OBVIOUS
  <2>1. ~(i < j) /\ ~(j < i)
    BY <1>1 DEF Ascends
  <2> QED BY <2>1
<1>3. ASSUME NEW m \in 0..n, NEW T, T = {s[i] : i \in 1..m}
      PROVE  IsFiniteSet(T) /\ Cardinality(T) = m
  <2> DEFINE f == [i \in 1..m |-> s[i]]
  <2>1. f \in Bijection(1..m, T)
    <3>1. f \in [1..m -> T]
      BY <1>3
    <3>2. \A i, j \in 1..m : f[i] = f[j] => i = j
      BY <1>1, <1>2
    <3>3. \A t \in T : \E i \in 1..m : f[i] = t
      BY <1>3
    <3> HIDE DEF f
    <3> QED BY <3>1, <3>2, <3>3 DEF Bijection, Injection, Surjection, IsInjective
  <2>2. m \in Nat
    BY <1>1
  <2>3. IsFiniteSet(1..m) /\ Cardinality(1..m) = m
    <3>1. 1 \in Int /\ m \in Int
      BY <2>2
    <3>2. Cardinality(1..m) = IF 1 > m THEN 0 ELSE m - 1 + 1
      BY <3>1, FS_Interval
    <3>3. IsFiniteSet(1..m)
      BY <3>1, FS_Interval
    <3> QED BY <2>2, <3>2, <3>3
  <2>4. ExistsBijection(1..m, T)
    BY <2>1 DEF ExistsBijection
  <2> QED BY <2>3, <2>4, FS_Bijection
<1>4. S \in SUBSET Int /\ IsFiniteSet(S) /\ Cardinality(S) = n
  BY <1>1, <1>3
<1>5. ASSUME NEW m \in 1..n PROVE Cardinality(Smaller(S, s[m])) = m - 1
  <2>1. Smaller(S, s[m]) = {s[i] : i \in 1..(m - 1)}
    <3>1. \A i \in 1..n : s[i] < s[m] <=> i < m
      <4> SUFFICES ASSUME NEW i \in 1..n PROVE s[i] < s[m] <=> i < m
        OBVIOUS
      <4>1. i < m => s[i] < s[m]
        BY DEF Ascends
      <4>2. m < i => s[m] < s[i]
        BY DEF Ascends
      <4> QED BY <1>1, <4>1, <4>2
    <3> QED BY <1>1, <3>1 DEF Smaller
  <2>2. m - 1 \in 0..n
    BY <1>1
  <2> QED BY <1>3, <2>1, <2>2
<1>6. ASSUME NEW m \in 1..n
      PROVE  (CHOOSE x \in S : Cardinality(Smaller(S, x)) = m - 1) = s[m]
  <2>1. s[m] \in S
    OBVIOUS
  <2>2. \A x \in S : Cardinality(Smaller(S, x)) = m - 1 => x = s[m]
    <3> SUFFICES ASSUME NEW i \in 1..n, Cardinality(Smaller(S, s[i])) = m - 1
                 PROVE  i = m
      OBVIOUS
    <3>1. i - 1 = m - 1
      BY <1>5
    <3> QED BY <3>1
  <2> QED BY <1>5, <2>1, <2>2
<1>7. InOrder(S) = [m \in 1..n |-> s[m]]
  BY <1>4, <1>6 DEF InOrder
<1> QED BY <1>1, <1>4, <1>7

(* The least number comes first.                                           *)
LEMMA LeastFirst ==
  ASSUME NEW S \in SUBSET Int, IsFiniteSet(S), NEW x \in S, \A y \in S : x <= y
  PROVE  InOrder(S) # <<>> /\ InOrder(S)[1] = x
<1> DEFINE s == InOrder(S)
<1>1. s \in Seq(S) /\ Ascends(s) /\ {s[m] : m \in 1..Len(s)} = S
  BY InOrderAscends
<1> HIDE DEF s
<1>2. PICK m \in 1..Len(s) : s[m] = x
  BY <1>1
<1>3. s[1] \in S /\ Len(s) \in Nat
  BY <1>1, <1>2
<1>4. 1 < m => s[1] < s[m]
  <2>1. 1 \in 1..Len(s)
    BY <1>2, <1>3
  <2> QED BY <1>1, <1>2, <2>1 DEF Ascends
<1>5. x <= s[1] /\ x \in Int /\ s[1] \in Int
  BY <1>3
<1>6. m = 1
  BY <1>2, <1>3, <1>4, <1>5
<1>7. s # <<>>
  BY <1>1, <1>2
<1> QED BY <1>2, <1>6, <1>7 DEF s

(* A number above all others goes to the end.                              *)
LEMMA GreatestLast ==
  ASSUME NEW S \in SUBSET Int, IsFiniteSet(S), NEW x \in Int, \A y \in S : y < x
  PROVE  InOrder(S \cup {x}) = Append(InOrder(S), x)
<1> DEFINE s == InOrder(S)
           r == Append(s, x)
<1>1. s \in Seq(S) /\ Ascends(s) /\ {s[m] : m \in 1..Len(s)} = S
  BY InOrderAscends
<1> HIDE DEF s
<1>2. s \in Seq(Int)
  <2>1. s \in Seq(S)
    BY <1>1
  <2> QED BY <2>1, SeqMonotonic
<1>3. r \in Seq(Int) /\ Len(r) = Len(s) + 1 /\ Len(s) \in Nat
  BY <1>2
<1>4. \A m \in 1..Len(r) : r[m] = IF m = Len(s) + 1 THEN x ELSE s[m]
  BY <1>2
<1> HIDE DEF r
<1>5. Ascends(r)
  <2> SUFFICES ASSUME NEW i \in 1..Len(r), NEW j \in 1..Len(r), i < j
               PROVE  r[i] < r[j]
    BY DEF Ascends
  <2>1. i \in 1..Len(s) /\ r[i] = s[i] /\ s[i] \in S
    BY <1>1, <1>3, <1>4
  <2>2. CASE j = Len(s) + 1
    BY <1>3, <1>4, <2>1, <2>2
  <2>3. CASE j # Len(s) + 1
    <3>1. j \in 1..Len(s) /\ r[j] = s[j]
      BY <1>3, <1>4, <2>3
    <3> QED BY <1>1, <2>1, <3>1 DEF Ascends
  <2> QED BY <2>2, <2>3
<1>6. {r[m] : m \in 1..Len(r)} = S \cup {x}
  <2>1. \A m \in 1..Len(r) : r[m] \in S \cup {x}
    BY <1>1, <1>3, <1>4
  <2>2. \A y \in S : \E m \in 1..Len(r) : r[m] = y
    <3> SUFFICES ASSUME NEW m \in 1..Len(s) PROVE \E i \in 1..Len(r) : r[i] = s[m]
      BY <1>1
    <3> QED BY <1>3, <1>4
  <2>3. r[Len(s) + 1] = x /\ Len(s) + 1 \in 1..Len(r)
    BY <1>3, <1>4
  <2> QED BY <2>1, <2>2, <2>3
<1>7. InOrder(S \cup {x}) = r
  BY <1>3, <1>5, <1>6, InOrderUnique
<1> QED BY <1>7 DEF r, s
=============================================================================
