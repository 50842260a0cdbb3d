--------------------------- MODULE IndexFile_proofs ---------------------------
(***************************************************************************)
(* Theorems about IndexFile, for all indexes, lengths of names and codecs  *)
(* that give back what they were given: a cut image is refused wherever it *)
(* is cut, and a whole one is read as what was saved.                      *)
(***************************************************************************)
EXTENDS IndexFile, NumberSets_proofs

-----------------------------------------------------------------------------
(* Numbers in bytes.                                                       *)

LEMMA Sizes ==
  /\ ByteSize \in Nat /\ ByteSize >= 1
  /\ HalfSize \in Nat /\ HalfSize >= 1
  /\ WordSize \in Nat /\ WordSize >= 1
<1>1. ByteSize \in Nat /\ ByteSize >= 1
  BY ByteSizeAssumption
<1>2. ASSUME NEW n \in Nat, n >= 1 PROVE n * n \in Nat /\ n * n >= 1
  BY <1>2
<1>3. HalfSize \in Nat /\ HalfSize >= 1
  BY <1>1, <1>2 DEF HalfSize
<1>4. WordSize \in Nat /\ WordSize >= 1
  BY <1>3, <1>2 DEF WordSize
<1> QED BY <1>1, <1>3, <1>4

\* A number below the square of a size has two digits of that size.
LEMMA TwoDigits ==
  ASSUME NEW s \in Nat, s >= 1, NEW n \in Nat, n < s * s
  PROVE  /\ n % s \in 0..(s - 1) /\ n \div s \in 0..(s - 1)
         /\ n = (n % s) + s * (n \div s)
<1>1. n % s \in 0..(s - 1)
  OBVIOUS
<1>2. n \div s \in 0..(s - 1)
  OBVIOUS
<1>3. n = (n % s) + s * (n \div s)
  OBVIOUS
<1> QED BY <1>1, <1>2, <1>3

\* The bytes of data from an index on are those of s.
Holds(data, at, s) == \A i \in 1..Len(s) : data[at + i - 1] = s[i]

LEMMA Number16 ==
  ASSUME NEW n \in 0..(HalfSize - 1)
  PROVE  /\ U16(n) \in Seq(Int) /\ Len(U16(n)) = 2
         /\ U16(n)[1] + ByteSize * U16(n)[2] = n
<1>1. /\ ByteSize \in Nat /\ ByteSize >= 1
      /\ n \in Nat /\ n < ByteSize * ByteSize
  BY Sizes DEF HalfSize
<1> DEFINE lo == n % ByteSize
           hi == n \div ByteSize
<1>2. lo \in 0..(ByteSize - 1) /\ hi \in 0..(ByteSize - 1) /\ n = lo + ByteSize * hi
  BY <1>1, TwoDigits
<1>3. U16(n) = <<lo, hi % ByteSize>>
  BY DEF U16, Byte
<1> HIDE DEF lo, hi
<1>4. hi % ByteSize = hi
  BY <1>1, <1>2
<1> QED BY <1>2, <1>3, <1>4

LEMMA TwoPairs ==
  ASSUME NEW s \in Seq(Int), Len(s) = 2, NEW t \in Seq(Int), Len(t) = 2
  PROVE  /\ s \o t \in Seq(Int) /\ Len(s \o t) = 4
         /\ (s \o t)[1] = s[1] /\ (s \o t)[2] = s[2]
         /\ (s \o t)[3] = t[1] /\ (s \o t)[4] = t[2]
<1>1. /\ s \o t \in Seq(Int) /\ Len(s \o t) = 4
      /\ \A i \in 1..4 : (s \o t)[i] = IF i <= 2 THEN s[i] ELSE t[i - 2]
  <2>1. /\ s \o t \in Seq(Int) /\ Len(s \o t) = Len(s) + Len(t)
        /\ \A i \in 1..(Len(s) + Len(t)) :
             (s \o t)[i] = IF i <= Len(s) THEN s[i] ELSE t[i - Len(s)]
    BY ConcatProperties, Zenon
  <2> QED BY <2>1, 2 + 2 = 4
<1> DEFINE st == s \o t
<1> HIDE DEF st
<1>2. \A i \in 1..4 : st[i] = IF i <= 2 THEN s[i] ELSE t[i - 2]
  BY <1>1 DEF st
<1>3. st[1] = s[1] /\ st[2] = s[2] /\ st[3] = t[1] /\ st[4] = t[2]
  BY <1>2
<1> QED BY <1>1, <1>3 DEF st

LEMMA Number32 ==
  ASSUME NEW n \in 0..(WordSize - 1)
  PROVE  /\ U32(n) \in Seq(Int) /\ Len(U32(n)) = 4
         /\ U32(n)[1] + ByteSize * U32(n)[2]
              + HalfSize * (U32(n)[3] + ByteSize * U32(n)[4]) = n
<1>1. /\ HalfSize \in Nat /\ HalfSize >= 1
      /\ n \in Nat /\ n < HalfSize * HalfSize
  BY Sizes DEF WordSize
<1> DEFINE lo == n % HalfSize
           hi == n \div HalfSize
<1>2. lo \in 0..(HalfSize - 1) /\ hi \in 0..(HalfSize - 1) /\ n = lo + HalfSize * hi
  BY <1>1, TwoDigits
<1>3. U32(n) = U16(lo) \o U16(hi)
  BY DEF U32
<1> HIDE DEF lo, hi
<1>4. /\ U16(lo) \in Seq(Int) /\ Len(U16(lo)) = 2
      /\ U16(lo)[1] + ByteSize * U16(lo)[2] = lo
      /\ U16(hi) \in Seq(Int) /\ Len(U16(hi)) = 2
      /\ U16(hi)[1] + ByteSize * U16(hi)[2] = hi
  BY <1>2, Number16
<1>5. /\ U32(n) \in Seq(Int) /\ Len(U32(n)) = 4
      /\ U32(n)[1] = U16(lo)[1] /\ U32(n)[2] = U16(lo)[2]
      /\ U32(n)[3] = U16(hi)[1] /\ U32(n)[4] = U16(hi)[2]
  BY <1>3, <1>4, TwoPairs
<1> QED BY <1>2, <1>4, <1>5

\* What was written as a number is read as that number.
LEMMA Read16 ==
  ASSUME NEW n \in 0..(HalfSize - 1), NEW data, NEW at \in Nat,
         Holds(data, at, U16(n))
  PROVE  GetU16(data, at) = n
<1>1. data[at + 1 - 1] = U16(n)[1] /\ data[at + 2 - 1] = U16(n)[2]
  BY Number16 DEF Holds
<1>2. at + 1 - 1 = at /\ at + 2 - 1 = at + 1
  OBVIOUS
<1> QED BY <1>1, <1>2, Number16 DEF GetU16

LEMMA Read32 ==
  ASSUME NEW n \in 0..(WordSize - 1), NEW data, NEW at \in Nat,
         Holds(data, at, U32(n))
  PROVE  GetU32(data, at) = n
<1>1. /\ data[at + 1 - 1] = U32(n)[1] /\ data[at + 2 - 1] = U32(n)[2]
      /\ data[at + 3 - 1] = U32(n)[3] /\ data[at + 4 - 1] = U32(n)[4]
  BY Number32 DEF Holds
<1>2. /\ at + 1 - 1 = at /\ at + 2 - 1 = at + 1
      /\ at + 3 - 1 = at + 2 /\ at + 4 - 1 = at + 2 + 1
  OBVIOUS
<1> QED BY <1>1, <1>2, Number32 DEF GetU32, GetU16

-----------------------------------------------------------------------------
(* Strings within strings.                                                 *)

LEMMA ConcatHolds ==
  ASSUME NEW s \in Seq(Int), NEW t \in Seq(Int)
  PROVE  /\ s \o t \in Seq(Int) /\ Len(s \o t) = Len(s) + Len(t)
         /\ Holds(s \o t, 1, s) /\ Holds(s \o t, Len(s) + 1, t)
<1>1. s \o t \in Seq(Int) /\ Len(s \o t) = Len(s) + Len(t)
  OBVIOUS
<1>2. Holds(s \o t, 1, s)
  BY DEF Holds
<1>3. Holds(s \o t, Len(s) + 1, t)
  BY DEF Holds
<1> QED BY <1>1, <1>2, <1>3

\* A part of a part is a part.
LEMMA HoldsWithin ==
  ASSUME NEW data, NEW at \in Nat, NEW s \in Seq(Int), Holds(data, at, s),
         NEW k \in Nat, k >= 1, NEW t \in Seq(Int), Holds(s, k, t),
         k + Len(t) - 1 <= Len(s)
  PROVE  Holds(data, at + k - 1, t)
<1> SUFFICES ASSUME NEW i \in 1..Len(t) PROVE data[at + k - 1 + i - 1] = t[i]
  BY DEF Holds
<1>1. k + i - 1 \in 1..Len(s) /\ Len(t) \in Nat /\ i \in Nat
  OBVIOUS
<1>2. data[at + (k + i - 1) - 1] = s[k + i - 1] /\ s[k + i - 1] = t[i]
  BY <1>1 DEF Holds
<1>3. at + (k + i - 1) - 1 = at + k - 1 + i - 1
  BY <1>1
<1> QED BY <1>2, <1>3

\* Two functions that begin with the same value and go on in the same way.
Agree(f, g, n) == \A m \in 0..n : f[m] = g[m]
StepAlike(f, g, n) == f[0] = g[0] /\ \A m \in 1..n : f[m - 1] = g[m - 1] => f[m] = g[m]

LEMMA AgreeUpwards ==
  ASSUME NEW n \in Nat, NEW f, NEW g, StepAlike(f, g, n)
  PROVE  Agree(f, g, n)
<1> USE DEF Agree, StepAlike
<1> DEFINE T == {m \in 0..n : f[m] # g[m]}
<1> SUFFICES ASSUME T # {} PROVE FALSE
  OBVIOUS
<1>1. T \in SUBSET Nat
  OBVIOUS
<1>2. PICK m \in T : \A k \in T : m <= k
  <2> HIDE DEF T
  <2> QED BY <1>1, LeastExists
<1>3. m # 0 /\ m \in 0..n /\ f[m] # g[m]
  OBVIOUS
<1>4. m - 1 \in 0..n /\ ~(m <= m - 1) /\ m \in 1..n
  BY <1>3
<1>5. m - 1 \notin T
  <2> HIDE DEF T
  <2> QED BY <1>2, <1>4
<1> QED BY <1>3, <1>4, <1>5

\* A function that begins with 0 and grows by 4.
LEMMA StepsOfFour ==
  ASSUME NEW n \in Nat, NEW f, f[0] = 0, \A m \in 1..n : f[m] = f[m - 1] + 4
  PROVE  \A m \in 0..n : f[m] = 4 * m
<1> DEFINE g == [m \in 0..n |-> 4 * m]
<1>1. g[0] = 0 /\ \A m \in 1..n : g[m] = g[m - 1] + 4
  OBVIOUS
<1>2. \A m \in 0..n : g[m] = 4 * m
  OBVIOUS
<1> HIDE DEF g
<1>3. StepAlike(f, g, n)
  BY <1>1 DEF StepAlike
<1>4. Agree(f, g, n)
  BY <1>3, AgreeUpwards
<1> QED BY <1>2, <1>4 DEF Agree

\* The recursion of FlattenSeq has a solution.
LEMMA FlattenExists ==
  ASSUME NEW parts, NEW n \in Nat
  PROVE  \E h : h = [i \in 1..n |-> IF i = 1 THEN parts[i] ELSE h[i - 1] \o parts[i]]
<1> DEFINE Solves(h, k) ==
             h = [i \in 1..k |-> IF i = 1 THEN parts[i] ELSE h[i - 1] \o parts[i]]
           T == {k \in 0..n : ~ \E h : Solves(h, k)}
<1> SUFFICES ASSUME T # {} PROVE FALSE
  <2>1. n \in 0..n /\ (n \notin T => \E h : Solves(h, n))
    <3> HIDE DEF Solves
    <3> QED OBVIOUS
  <2> HIDE DEF T
  <2>2. T = {} => n \notin T
    OBVIOUS
  <2> QED BY <2>1, <2>2
<1>1. PICK k \in T : \A j \in T : k <= j
  <2>1. T \in SUBSET Nat
    <3> HIDE DEF Solves
    <3> QED OBVIOUS
  <2> HIDE DEF T
  <2> QED BY <2>1, LeastExists
<1>2. k # 0
  <2>1. Solves([i \in 1..0 |-> 0], 0)
    OBVIOUS
  <2> QED BY <2>1
<1>3. k - 1 \in 0..n /\ k - 1 \notin T /\ k \in Nat
  <2>1. k \in 0..n
    OBVIOUS
  <2>2. k - 1 \in 0..n /\ ~(k <= k - 1) /\ k \in Nat
    BY <1>2, <2>1
  <2> HIDE DEF T
  <2> QED BY <1>1, <2>2
<1>4. PICK h : Solves(h, k - 1)
  BY <1>3
<1> DEFINE g == [i \in 1..k |-> IF i = 1 THEN parts[i] ELSE h[i - 1] \o parts[i]]
<1>5. \A i \in 1..(k - 1) : g[i] = h[i]
  <2> SUFFICES ASSUME NEW i \in 1..(k - 1) PROVE g[i] = h[i]
    OBVIOUS
  <2>1. i \in 1..k
    BY <1>3
  <2> QED BY <1>4, <2>1
<1>6. ASSUME NEW i \in 1..k
      PROVE  g[i] = IF i = 1 THEN parts[i] ELSE g[i - 1] \o parts[i]
  <2>1. CASE i = 1
    BY <2>1
  <2>2. CASE i # 1
    <3>1. i - 1 \in 1..(k - 1)
      BY <1>3, <2>2
    <3>2. g[i - 1] = h[i - 1]
      BY <1>5, <3>1
    <3> QED BY <2>2, <3>2
  <2> QED BY <2>1, <2>2
<1>7. g = [i \in 1..k |-> IF i = 1 THEN parts[i] ELSE g[i - 1] \o parts[i]]
  <2>1. g = [i \in 1..k |-> g[i]]
    OBVIOUS
  <2> HIDE DEF g
  <2> QED BY <1>6, <2>1
<1>8. Solves(g, k)
  BY <1>7
<1> QED BY <1>8

\* A sequence of strings in one string: where each of them is.
LEMMA FlattenHolds ==
  ASSUME NEW parts \in Seq(Seq(Int))
  PROVE  /\ FlattenSeq(parts) \in Seq(Int)
         /\ \E end \in [0..Len(parts) -> Nat] :
              /\ end[0] = 0 /\ end[Len(parts)] = Len(FlattenSeq(parts))
              /\ \A d \in 1..Len(parts) :
                   /\ end[d] = end[d - 1] + Len(parts[d])
                   /\ end[d] <= Len(FlattenSeq(parts))
                   /\ Holds(FlattenSeq(parts), end[d - 1] + 1, parts[d])
<1> DEFINE n == Len(parts)
           whole == FlattenSeq(parts)
<1>1. n \in Nat /\ \A d \in 1..n : parts[d] \in Seq(Int)
  OBVIOUS
<1>2. CASE n = 0
  <2>1. whole = parts /\ parts = <<>>
    BY <1>2 DEF FlattenSeq
  <2>2. whole \in Seq(Int) /\ Len(whole) = 0
    BY <2>1
  <2> DEFINE end == [d \in 0..n |-> 0]
  <2>3. end \in [0..n -> Nat] /\ end[0] = 0 /\ end[n] = Len(whole) /\ 1..n = {}
    BY <1>2, <2>2
  <2> HIDE DEF whole, end
  <2> QED BY <2>2, <2>3 DEF whole
<1>3. CASE n # 0
  <2> DEFINE h == CHOOSE g : g = [i \in 1..n |->
                    IF i = 1 THEN parts[i] ELSE g[i - 1] \o parts[i]]
  <2>1. h = [i \in 1..n |-> IF i = 1 THEN parts[i] ELSE h[i - 1] \o parts[i]]
    <3> HIDE DEF n
    <3> QED BY <1>1, FlattenExists
  <2>2. whole = h[n]
    BY <1>3 DEF FlattenSeq
  <2> HIDE DEF h, whole, n
  <2> DEFINE end == [d \in 0..n |-> IF d = 0 THEN 0 ELSE Len(h[d])]
             Good(e) == /\ h[e] \in Seq(Int)
                        /\ end[e] = end[e - 1] + Len(parts[e])
                        /\ \A d \in 1..e : end[d] \in Nat /\ end[d] <= end[e]
                        /\ \A d \in 1..e : Holds(h[e], end[d - 1] + 1, parts[d])
             T == {e \in 1..n : ~Good(e)}
  <2>3. \A e \in 1..n : end[e] = Len(h[e]) /\ end[0] = 0
    BY <1>1
  <2> HIDE DEF end
  <2>4. T = {}
    <3> SUFFICES ASSUME T # {} PROVE FALSE
      OBVIOUS
    <3>1. PICK e \in T : \A k \in T : e <= k
      <4>1. T \in SUBSET Nat
        <5> HIDE DEF Good
        <5> QED BY <1>1
      <4> HIDE DEF T
      <4> QED BY <4>1, LeastExists
    <3>2. e \in 1..n /\ ~Good(e) /\ \A k \in 1..n : k < e => Good(k)
      <4> HIDE DEF Good
      <4>1. e \in 1..n /\ ~Good(e)
        OBVIOUS
      <4>2. ASSUME NEW k \in 1..n, k < e PROVE Good(k)
        <5>1. k \notin T
          <6> HIDE DEF T
          <6> QED BY <1>1, <3>1, <4>1, <4>2
        <5> QED BY <5>1
      <4> QED BY <4>1, <4>2
    <3>3. CASE e = 1
      <4>1. h[1] = parts[1] /\ parts[1] \in Seq(Int) /\ 1 \in 1..n
        BY <1>1, <2>1, <3>2, <3>3
      <4>2. end[1] = Len(parts[1]) /\ end[0] = 0
        BY <2>3, <4>1
      <4>3. Holds(h[1], 0 + 1, parts[1])
        BY <4>1 DEF Holds
      <4>4. 1 - 1 = 0 /\ \A d \in 1..1 : d = 1
        OBVIOUS
      <4>5. Good(1)
        BY <4>1, <4>2, <4>3, <4>4
      <4> QED BY <3>2, <3>3, <4>5
    <3>4. CASE e # 1
      <4>1. e - 1 \in 1..n /\ e - 1 < e /\ e \in 1..n /\ e \in Nat
        BY <1>1, <3>2, <3>4
      <4>2. h[e] = h[e - 1] \o parts[e]
        BY <2>1, <3>4, <4>1
      <4>3. Good(e - 1)
        <5> HIDE DEF Good
        <5> QED BY <3>2, <4>1
      <4>4. h[e - 1] \in Seq(Int) /\ parts[e] \in Seq(Int) /\ Len(parts[e]) \in Nat
        BY <1>1, <4>1, <4>3
      <4>5. /\ h[e] \in Seq(Int) /\ Len(h[e]) = Len(h[e - 1]) + Len(parts[e])
            /\ Holds(h[e], 1, h[e - 1]) /\ Holds(h[e], Len(h[e - 1]) + 1, parts[e])
        BY <4>2, <4>4, ConcatHolds
      <4>6. end[e] = Len(h[e]) /\ end[e - 1] = Len(h[e - 1]) /\ end[e] \in Nat
            /\ end[e - 1] <= end[e]
        <5>1. end[e] = Len(h[e]) /\ end[e - 1] = Len(h[e - 1])
          BY <2>3, <4>1
        <5>2. Len(h[e]) \in Nat /\ Len(h[e - 1]) \in Nat
          BY <4>4, <4>5, LenProperties
        <5>3. Len(h[e - 1]) <= Len(h[e])
          <6> DEFINE p == Len(h[e - 1])
                     q == Len(parts[e])
                     r == Len(h[e])
          <6>1. p \in Nat /\ q \in Nat /\ r = p + q
            BY <4>4, <4>5, <5>2
          <6> HIDE DEF p, q, r
          <6>2. p <= r
            BY <6>1
          <6> QED BY <6>2 DEF p, r
        <5> QED BY <5>1, <5>2, <5>3
      <4>7. ASSUME NEW d \in 1..e
            PROVE  end[d] \in Nat /\ end[d] <= end[e]
                   /\ Holds(h[e], end[d - 1] + 1, parts[d])
        <5>1. CASE d = e
          <6>1. Holds(h[e], end[e - 1] + 1, parts[e])
            BY <4>5, <4>6
          <6>2. end[e] <= end[e]
            BY <4>6
          <6> QED BY <4>6, <5>1, <6>1, <6>2
        <5>2. CASE d # e
          <6>1. d \in 1..(e - 1) /\ d \in 1..n /\ d \in Nat
            BY <1>1, <4>1, <5>2
          <6>2. /\ end[d] \in Nat /\ end[d] <= end[e - 1]
                /\ Holds(h[e - 1], end[d - 1] + 1, parts[d])
            BY <4>3, <6>1
          <6>3. end[d - 1] \in Nat /\ end[d] = end[d - 1] + Len(parts[d])
            <7>1. Good(d)
              <8> HIDE DEF Good
              <8>1. d < e
                BY <4>1, <6>1
              <8> QED BY <3>2, <6>1, <8>1
            <7>2. CASE d = 1
              <8>1. d - 1 = 0
                BY <7>2
              <8> QED BY <2>3, <4>1, <7>1, <8>1
            <7>3. CASE d # 1
              <8>1. d - 1 \in 1..(e - 1)
                BY <4>1, <6>1, <7>3
              <8> QED BY <4>3, <7>1, <8>1
            <7> QED BY <7>2, <7>3
          <6>4. parts[d] \in Seq(Int) /\ Len(parts[d]) \in Nat
            BY <1>1, <6>1
          <6>5. /\ end[d - 1] + 1 \in Nat /\ end[d - 1] + 1 >= 1
                /\ (end[d - 1] + 1) + Len(parts[d]) - 1 <= Len(h[e - 1])
                /\ 1 + (end[d - 1] + 1) - 1 = end[d - 1] + 1
            <7> DEFINE a == end[d - 1]
                       b == end[e - 1]
                       c == Len(parts[d])
            <7>1. b = Len(h[e - 1]) /\ c \in Nat
              BY <4>6, <6>4
            <7>2. end[d] = a + c /\ end[d] <= b
              BY <6>2, <6>3
            <7>3. a \in Nat /\ b \in Nat
              <8>1. Len(h[e - 1]) \in Nat
                BY <4>4, LenProperties
              <8> QED BY <4>6, <6>3, <8>1
            <7> HIDE DEF a, b, c
            <7>4. a + 1 \in Nat /\ a + 1 >= 1 /\ (a + 1) + c - 1 <= b /\ 1 + (a + 1) - 1 = a + 1
              BY <7>1, <7>2, <7>3
            <7> QED BY <7>1, <7>4 DEF a, b, c
          <6>6. Holds(h[e], 1 + (end[d - 1] + 1) - 1, parts[d])
            <7> DEFINE k == end[d - 1] + 1
                       s == h[e - 1]
                       t == parts[d]
            <7>1. /\ s \in Seq(Int) /\ Holds(h[e], 1, s)
                  /\ k \in Nat /\ k >= 1 /\ t \in Seq(Int) /\ Holds(s, k, t)
                  /\ k + Len(t) - 1 <= Len(s)
              BY <4>4, <4>5, <6>2, <6>4, <6>5
            <7>2. 1 \in Nat
              OBVIOUS
            <7> HIDE DEF k, s, t
            <7>3. Holds(h[e], 1 + k - 1, t)
              BY <7>1, <7>2, HoldsWithin
            <7> QED BY <7>3 DEF k, t
          <6>7. Holds(h[e], end[d - 1] + 1, parts[d])
            <7> DEFINE k == end[d - 1] + 1
            <7>1. 1 + k - 1 = k /\ Holds(h[e], 1 + k - 1, parts[d])
              BY <6>5, <6>6
            <7> HIDE DEF k
            <7>2. Holds(h[e], k, parts[d])
              BY <7>1
            <7> QED BY <7>2 DEF k
          <6>8. end[e] \in Nat /\ end[d] \in Nat /\ end[d] <= end[e]
            <7> DEFINE x == end[d]
                       y == end[e - 1]
                       z == end[e]
            <7>1. x \in Nat /\ x <= y
              BY <6>2
            <7>2. z \in Nat /\ y <= z /\ y \in Nat
              <8>1. Len(h[e - 1]) \in Nat
                BY <4>4, LenProperties
              <8> QED BY <4>6, <8>1
            <7> HIDE DEF x, y, z
            <7>3. x <= z
              BY <7>1, <7>2
            <7> QED BY <7>1, <7>2, <7>3 DEF x, z
          <6> QED BY <6>7, <6>8
        <5> QED BY <5>1, <5>2
      <4>8. end[e] = end[e - 1] + Len(parts[e])
        BY <4>5, <4>6
      <4>9. Good(e)
        BY <4>5, <4>7, <4>8
      <4> QED BY <3>2, <4>9
    <3> QED BY <3>3, <3>4
  <2>5. \A e \in 1..n : Good(e)
    <3> HIDE DEF Good
    <3> QED BY <2>4
  <2>6. n \in 1..n
    BY <1>1, <1>3
  <2>7. whole \in Seq(Int) /\ end[n] = Len(whole) /\ end[0] = 0
    BY <2>2, <2>3, <2>5, <2>6
  <2>8. ASSUME NEW d \in 1..n
        PROVE  /\ end[d] = end[d - 1] + Len(parts[d])
               /\ end[d] <= Len(whole) /\ end[d] \in Nat
               /\ Holds(whole, end[d - 1] + 1, parts[d])
    <3>1. Good(d) /\ Good(n)
      <4> HIDE DEF Good
      <4> QED BY <2>5, <2>6
    <3> QED BY <2>2, <2>7, <3>1
  <2>9. end \in [0..n -> Nat]
    <3>1. \A d \in 0..n : end[d] \in Nat
      <4> SUFFICES ASSUME NEW d \in 0..n PROVE end[d] \in Nat
        OBVIOUS
      <4>1. d = 0 \/ d \in 1..n
        BY <1>1
      <4> QED BY <2>7, <2>8, <4>1
    <3>2. end = [d \in 0..n |-> end[d]]
      BY DEF end
    <3> QED BY <3>1, <3>2
  <2> QED BY <2>7, <2>8, <2>9 DEF whole, n
<1> QED BY <1>2, <1>3

-----------------------------------------------------------------------------
(* The order of the terms.                                                 *)

LEMMA PrecedesStrict ==
  ASSUME NEW s \in Seq(Int)
  PROVE  ~Precedes(s, s)
<1> SUFFICES ASSUME Precedes(s, s) PROVE FALSE
  OBVIOUS
<1>1. PICK n \in 1..Len(s) : n = Len(s) + 1 \/ (n <= Len(s) /\ s[n] < s[n])
  BY DEF Precedes
<1>2. s[n] \in Int /\ n \in Nat /\ Len(s) \in Nat /\ n <= Len(s)
  OBVIOUS
<1> QED BY <1>1, <1>2

LEMMA PrecedesTransitive ==
  ASSUME NEW s \in Seq(Int), NEW t \in Seq(Int), NEW u \in Seq(Int),
         Precedes(s, t), Precedes(t, u)
  PROVE  Precedes(s, u)
<1>1. PICK n \in 1..Len(t) :
        /\ \A m \in 1..(n - 1) : m <= Len(s) /\ s[m] = t[m]
        /\ n = Len(s) + 1 \/ (n <= Len(s) /\ s[n] < t[n])
  BY DEF Precedes
<1>2. PICK k \in 1..Len(u) :
        /\ \A m \in 1..(k - 1) : m <= Len(t) /\ t[m] = u[m]
        /\ k = Len(t) + 1 \/ (k <= Len(t) /\ t[k] < u[k])
  BY DEF Precedes
<1>3. /\ Len(s) \in Nat /\ Len(t) \in Nat /\ Len(u) \in Nat
      /\ n \in Nat /\ k \in Nat /\ 1 <= n /\ 1 <= k /\ n <= Len(t) /\ k <= Len(u)
  OBVIOUS
<1>4. /\ \A m \in 1..Len(s) : s[m] \in Int
      /\ \A m \in 1..Len(t) : t[m] \in Int
      /\ \A m \in 1..Len(u) : u[m] \in Int
  OBVIOUS
<1>5. CASE n < k
  <2>1. n \in 1..Len(u) /\ n \in 1..(k - 1) /\ t[n] = u[n]
    BY <1>2, <1>3, <1>5
  <2>2. \A m \in 1..(n - 1) : m <= Len(s) /\ s[m] = u[m]
    <3> SUFFICES ASSUME NEW m \in 1..(n - 1) PROVE m <= Len(s) /\ s[m] = u[m]
      OBVIOUS
    <3>1. m \in 1..(k - 1)
      BY <1>3, <1>5
    <3> QED BY <1>1, <1>2, <3>1
  <2>3. n = Len(s) + 1 \/ (n <= Len(s) /\ s[n] < u[n])
    BY <1>1, <2>1
  <2> QED BY <2>1, <2>2, <2>3 DEF Precedes
<1>6. CASE ~(n < k)
  <2>1. k <= n /\ k # Len(t) + 1 /\ k \in 1..Len(t)
    BY <1>3, <1>6
  <2>2. t[k] < u[k] /\ t[k] \in Int /\ u[k] \in Int
    BY <1>2, <1>4, <2>1
  <2>3. \A m \in 1..(k - 1) : m <= Len(s) /\ s[m] = u[m]
    <3> SUFFICES ASSUME NEW m \in 1..(k - 1) PROVE m <= Len(s) /\ s[m] = u[m]
      OBVIOUS
    <3>1. m \in 1..(n - 1)
      BY <1>3, <2>1
    <3> QED BY <1>1, <1>2, <3>1
  <2>4. k = Len(s) + 1 \/ (k <= Len(s) /\ s[k] < u[k])
    <3>1. CASE k = n
      <4>1. CASE n = Len(s) + 1
        BY <3>1, <4>1
      <4>2. CASE n <= Len(s) /\ s[n] < t[n]
        <5>1. s[n] \in Int /\ t[n] \in Int /\ u[n] \in Int /\ t[n] < u[n]
          BY <1>3, <1>4, <2>1, <2>2, <3>1, <4>2
        <5>2. s[n] < u[n]
          BY <4>2, <5>1
        <5> QED BY <3>1, <4>2, <5>2
      <4> QED BY <1>1, <4>1, <4>2
    <3>2. CASE k # n
      <4>1. k \in 1..(n - 1)
        BY <1>3, <2>1, <3>2
      <4> QED BY <1>1, <2>2, <4>1
    <3> QED BY <3>1, <3>2
  <2> QED BY <2>3, <2>4 DEF Precedes
<1> QED BY <1>5, <1>6

LEMMA PrecedesTotal ==
  ASSUME NEW s \in Seq(Int), NEW t \in Seq(Int), s # t
  PROVE  Precedes(s, t) \/ Precedes(t, s)
<1> DEFINE Differ(n) == n > Len(s) \/ n > Len(t) \/ s[n] # t[n]
           D == {n \in Nat : n >= 1 /\ Differ(n)}
<1>1. Len(s) \in Nat /\ Len(t) \in Nat
  OBVIOUS
<1>2. Len(s) + 1 \in D
  BY <1>1
<1>3. PICK n \in D : \A k \in D : n <= k
  <2>1. D \in SUBSET Nat /\ D # {}
    BY <1>2
  <2> HIDE DEF D
  <2> QED BY <2>1, LeastExists
<1>4. n \in Nat /\ n >= 1 /\ Differ(n)
  OBVIOUS
<1>5. ASSUME NEW m \in 1..(n - 1) PROVE m <= Len(s) /\ m <= Len(t) /\ s[m] = t[m]
  <2>1. m \in Nat /\ m >= 1 /\ ~(n <= m)
    BY <1>4
  <2>2. m \notin D
    <3> HIDE DEF D
    <3> QED BY <1>3, <2>1
  <2> QED BY <1>1, <2>1, <2>2
<1>6. n <= Len(s) + 1 /\ n <= Len(t) + 1
  <2>1. CASE n = 1
    BY <1>1, <2>1
  <2>2. CASE n # 1
    <3>1. n - 1 \in 1..(n - 1)
      BY <1>4, <2>2
    <3>2. n - 1 <= Len(s) /\ n - 1 <= Len(t)
      BY <1>5, <3>1
    <3> QED BY <1>1, <1>4, <3>2
  <2> QED BY <2>1, <2>2
<1> HIDE DEF D
<1>7. CASE n = Len(s) + 1 /\ n = Len(t) + 1
  <2>1. Len(s) = Len(t) /\ \A m \in 1..Len(s) : s[m] = t[m]
    <3>1. Len(s) = Len(t) /\ n - 1 = Len(s)
      BY <1>1, <1>7
    <3> QED BY <1>5, <3>1
  <2>2. s = t
    BY <1>1, <2>1, SeqEqual
  <2> QED BY <2>2
<1>8. CASE n = Len(s) + 1 /\ n # Len(t) + 1
  <2>1. n \in 1..Len(t)
    BY <1>1, <1>4, <1>6, <1>8
  <2> QED BY <1>5, <1>8, <2>1 DEF Precedes
<1>9. CASE n # Len(s) + 1 /\ n = Len(t) + 1
  <2>1. n \in 1..Len(s)
    BY <1>1, <1>4, <1>6, <1>9
  <2>2. \A m \in 1..(n - 1) : m <= Len(t) /\ t[m] = s[m]
    BY <1>5
  <2> QED BY <1>9, <2>1, <2>2 DEF Precedes
<1>10. CASE n # Len(s) + 1 /\ n # Len(t) + 1
  <2>1. n \in 1..Len(s) /\ n \in 1..Len(t) /\ n <= Len(s) /\ n <= Len(t)
    <3> DEFINE a == Len(s)
               b == Len(t)
    <3>1. /\ a \in Nat /\ b \in Nat /\ n \in Nat /\ n >= 1
          /\ n <= a + 1 /\ n <= b + 1
      BY <1>1, <1>4, <1>6
    <3>2. n # a + 1 /\ n # b + 1
      BY <1>10
    <3> HIDE DEF a, b
    <3>3. n \in 1..a /\ n \in 1..b /\ n <= a /\ n <= b
      BY <3>1, <3>2
    <3> QED BY <3>3 DEF a, b
  <2>2. s[n] # t[n] /\ s[n] \in Int /\ t[n] \in Int
    BY <1>1, <1>4, <2>1
  <2>3. s[n] < t[n] \/ t[n] < s[n]
    BY <2>2
  <2>4. s[n] < t[n] => Precedes(s, t)
    BY <1>5, <2>1 DEF Precedes
  <2>5. t[n] < s[n] => Precedes(t, s)
    <3>1. \A m \in 1..(n - 1) : m <= Len(t) /\ t[m] = s[m]
      BY <1>5
    <3> QED BY <2>1, <3>1 DEF Precedes
  <2> QED BY <2>3, <2>4, <2>5
<1> QED BY <1>7, <1>8, <1>9, <1>10

Before(terms, t) == {s \in terms : Precedes(s, t)}

LEMMA TermRankGrows ==
  ASSUME NEW terms \in SUBSET Seq(Int), IsFiniteSet(terms), NEW s \in terms, NEW t \in terms
  PROVE  /\ Cardinality(Before(terms, s)) \in 0..(Cardinality(terms) - 1)
         /\ Precedes(s, t) => Cardinality(Before(terms, s)) < Cardinality(Before(terms, t))
<1>1. \A z \in terms : /\ IsFiniteSet(Before(terms, z)) /\ Cardinality(Before(terms, z)) \in Nat
                       /\ z \notin Before(terms, z)
  <2> SUFFICES ASSUME NEW z \in terms
               PROVE  /\ IsFiniteSet(Before(terms, z)) /\ Cardinality(Before(terms, z)) \in Nat
                      /\ z \notin Before(terms, z)
    OBVIOUS
  <2>1. Before(terms, z) \in SUBSET terms
    BY DEF Before
  <2>2. z \notin Before(terms, z)
    BY PrecedesStrict DEF Before
  <2> QED BY <2>1, <2>2, FS_Subset, FS_CardinalityType
<1>2. Cardinality(terms) \in Nat
  BY FS_CardinalityType
<1>3. Before(terms, s) \in SUBSET terms /\ Before(terms, s) # terms
  BY <1>1 DEF Before
<1>4. Cardinality(Before(terms, s)) < Cardinality(terms)
  BY <1>1, <1>2, <1>3, FS_Subset
<1>5. ASSUME Precedes(s, t)
      PROVE  Cardinality(Before(terms, s)) < Cardinality(Before(terms, t))
  <2>1. Before(terms, s) \in SUBSET Before(terms, t)
    <3> SUFFICES ASSUME NEW z \in terms, Precedes(z, s) PROVE Precedes(z, t)
      BY DEF Before
    <3> QED BY <1>5, PrecedesTransitive
  <2>2. s \in Before(terms, t)
    BY <1>5 DEF Before
  <2>3. Before(terms, s) # Before(terms, t)
    BY <1>1, <2>2
  <2> QED BY <1>1, <2>1, <2>3, FS_Subset
<1> QED BY <1>1, <1>2, <1>4, <1>5

\* Sorted gives the terms, each once.
LEMMA SortedTerms ==
  ASSUME NEW terms \in SUBSET Seq(Int), IsFiniteSet(terms)
  PROVE  /\ Cardinality(terms) \in Nat
         /\ Sorted(terms) \in [1..Cardinality(terms) -> terms]
         /\ \A m, n \in 1..Cardinality(terms) :
              Sorted(terms)[m] = Sorted(terms)[n] => m = n
         /\ {Sorted(terms)[m] : m \in 1..Cardinality(terms)} = terms
<1> DEFINE n == Cardinality(terms)
           rank == [t \in terms |-> Cardinality(Before(terms, t))]
           Ranks == 0..(n - 1)
           s == Sorted(terms)
<1>1. n \in Nat
  BY FS_CardinalityType
<1>2. rank \in [terms -> Ranks]
  BY TermRankGrows
<1>3. \A t, u \in terms : rank[t] = rank[u] => t = u
  <2> SUFFICES ASSUME NEW t \in terms, NEW u \in terms, rank[t] = rank[u] PROVE t = u
    OBVIOUS
  <2>1. ~Precedes(t, u) /\ ~Precedes(u, t)
    <3>1. rank[t] \in Int /\ rank[u] \in Int
      BY <1>2
    <3>2. /\ Precedes(t, u) => rank[t] < rank[u]
          /\ Precedes(u, t) => rank[u] < rank[t]
      BY TermRankGrows
    <3> HIDE DEF rank
    <3> QED BY <3>1, <3>2
  <2> QED BY <2>1, PrecedesTotal
<1>4. rank \in Injection(terms, Ranks)
  BY <1>2, <1>3 DEF Injection, IsInjective
<1>5. IsFiniteSet(Ranks) /\ Cardinality(Ranks) = n
  <2>1. 0 \in Int /\ n - 1 \in Int
    BY <1>1
  <2>2. Cardinality(Ranks) = IF 0 > n - 1 THEN 0 ELSE n - 1 - 0 + 1
    BY <2>1, FS_Interval
  <2>3. Cardinality(Ranks) = n
    BY <1>1, <2>2
  <2> QED BY <2>1, <2>3, FS_Interval
<1>6. rank \in Surjection(terms, Ranks)
  BY <1>4, <1>5, FS_Injection
<1>7. ASSUME NEW m \in 1..n PROVE \E t \in terms : rank[t] = m - 1
  <2>1. m - 1 \in Ranks
    BY <1>1
  <2> HIDE DEF rank, Ranks
  <2> QED BY <1>6, <2>1 DEF Surjection
<1>8. s = [m \in 1..n |-> CHOOSE t \in terms : Cardinality(Before(terms, t)) = m - 1]
  BY DEF Sorted, Before
<1>9. ASSUME NEW m \in 1..n PROVE s[m] \in terms /\ rank[s[m]] = m - 1
  <2>1. \E t \in terms : Cardinality(Before(terms, t)) = m - 1
    BY <1>7
  <2>2. s[m] = CHOOSE t \in terms : Cardinality(Before(terms, t)) = m - 1
    BY <1>8
  <2> HIDE DEF s
  <2>3. s[m] \in terms /\ Cardinality(Before(terms, s[m])) = m - 1
    BY <2>1, <2>2
  <2> QED BY <2>3
<1> HIDE DEF s
<1>10. s \in [1..n -> terms]
  BY <1>8, <1>9
<1>11. ASSUME NEW m \in 1..n, NEW k \in 1..n, s[m] = s[k] PROVE m = k
  <2> HIDE DEF rank
  <2>1. m - 1 = k - 1 /\ m \in Int /\ k \in Int
    BY <1>9, <1>11
  <2> QED BY <2>1
<1>12. ASSUME NEW t \in terms PROVE \E m \in 1..n : s[m] = t
  <2> DEFINE m == rank[t] + 1
  <2>1. m \in 1..n /\ rank[t] = m - 1
    BY <1>1, <1>2
  <2>2. s[m] \in terms /\ rank[s[m]] = rank[t]
    BY <1>9, <2>1
  <2> QED BY <1>3, <2>1, <2>2
<1>13. {s[m] : m \in 1..n} = terms
  BY <1>10, <1>12
<1> QED BY <1>1, <1>10, <1>11, <1>13 DEF s

-----------------------------------------------------------------------------
(* The layout of an image.                                                 *)

LEMMA IndexFacts ==
  ASSUME NEW ix \in Indexes, CanBeSaved(ix)
  PROVE  /\ ix.docs \in Seq([title : Strings, len : 0..(WordSize - 1)])
         /\ Len(ix.docs) \in 0..(WordSize - 1)
         /\ \A d \in 1..Len(ix.docs) :
              /\ ix.docs[d].len \in 0..(WordSize - 1)
              /\ StoredTitle(ix.docs[d]) \in Seq(Int)
              /\ Len(StoredTitle(ix.docs[d])) \in 0..(HalfSize - 1)
         /\ DOMAIN ix.postings \in SUBSET Seq(Int) /\ IsFiniteSet(DOMAIN ix.postings)
         /\ Cardinality(DOMAIN ix.postings) \in 0..(WordSize - 1)
         /\ \A t \in DOMAIN ix.postings :
              /\ t \in Seq(Int) /\ Len(t) \in 0..(HalfSize - 1)
              /\ encode(ix.postings[t]) \in Seq(Int)
              /\ Len(encode(ix.postings[t])) \in 0..(WordSize - 1)
              /\ decode(encode(ix.postings[t])) = Decoded(ix.postings[t])
<1>1. \A z \in Strings : z \in Seq(Int) /\ Len(z) \in Nat
  <2>1. 0..(ByteSize - 1) \in SUBSET Int
    BY Sizes
  <2>2. ASSUME NEW z \in Strings PROVE z \in Seq(Int)
    <3>1. Len(z) \in Nat /\ z = [i \in 1..Len(z) |-> z[i]]
      BY DEF Strings
    <3>2. \A i \in 1..Len(z) : z[i] \in 0..(ByteSize - 1)
      <4> DEFINE S == 0..(ByteSize - 1)
      <4>1. z \in Seq(S)
        BY DEF Strings
      <4> HIDE DEF S
      <4>2. \A i \in 1..Len(z) : z[i] \in S
        BY <4>1, ElementOfSeq
      <4> QED BY <4>2 DEF S
    <3>3. z \in [1..Len(z) -> Int]
      BY <2>1, <3>1, <3>2
    <3> QED BY <3>1, <3>3
  <2> QED BY <2>2, LenProperties
<1>2. MaxName \in Nat /\ MaxName <= HalfSize - 1 /\ HalfSize \in Nat /\ WordSize \in Nat
  BY NameAssumption, Sizes
<1>3. /\ ix.docs \in Seq([title : Strings, len : 0..(WordSize - 1)])
      /\ Len(ix.docs) \in 0..(WordSize - 1)
  <2>1. /\ ix.docs \in Seq([title : Strings, len : 0..(WordSize - 1)])
        /\ Len(ix.docs) < WordSize
    BY IndexAssumption
  <2>2. Len(ix.docs) \in Nat
    BY <2>1, LenProperties
  <2> QED BY <1>2, <2>1, <2>2
<1>4. ASSUME NEW d \in 1..Len(ix.docs)
      PROVE  /\ ix.docs[d].len \in 0..(WordSize - 1)
             /\ StoredTitle(ix.docs[d]) \in Seq(Int)
             /\ Len(StoredTitle(ix.docs[d])) \in 0..(HalfSize - 1)
  <2>1. ix.docs[d] \in [title : Strings, len : 0..(WordSize - 1)]
    BY <1>3, ElementOfSeq
  <2>2. ix.docs[d].len \in 0..(WordSize - 1) /\ ix.docs[d].title \in Strings
    BY <2>1
  <2> DEFINE z == ix.docs[d].title
  <2>3. z \in Seq(Int) /\ Len(z) \in Nat
    BY <1>1, <2>2
  <2>4. StoredTitle(ix.docs[d]) = IF Len(z) > MaxName THEN SubSeq(z, 1, MaxName) ELSE z
    BY DEF StoredTitle
  <2> HIDE DEF z
  <2>5. CASE Len(z) > MaxName
    <3>1. \A i \in 1..MaxName : i \in 1..Len(z)
      BY <1>2, <2>3, <2>5
    <3>2. SubSeq(z, 1, MaxName) \in Seq(Int) /\ Len(SubSeq(z, 1, MaxName)) = MaxName
      BY <1>2, <2>3, <2>5, <3>1
    <3> QED BY <1>2, <2>2, <2>4, <2>5, <3>2
  <2>6. CASE ~(Len(z) > MaxName)
    BY <1>2, <2>2, <2>3, <2>4, <2>6
  <2> QED BY <2>5, <2>6
<1>5. /\ DOMAIN ix.postings \in SUBSET Seq(Int) /\ IsFiniteSet(DOMAIN ix.postings)
      /\ Cardinality(DOMAIN ix.postings) \in 0..(WordSize - 1)
  <2>1. /\ IsFiniteSet(DOMAIN ix.postings) /\ Cardinality(DOMAIN ix.postings) < WordSize
        /\ \A t \in DOMAIN ix.postings : t \in Strings
    BY IndexAssumption
  <2>2. Cardinality(DOMAIN ix.postings) \in Nat
    BY <2>1, FS_CardinalityType
  <2> QED BY <1>1, <1>2, <2>1, <2>2
<1>6. ASSUME NEW t \in DOMAIN ix.postings
      PROVE  /\ t \in Seq(Int) /\ Len(t) \in 0..(HalfSize - 1)
             /\ encode(ix.postings[t]) \in Seq(Int)
             /\ Len(encode(ix.postings[t])) \in 0..(WordSize - 1)
             /\ decode(encode(ix.postings[t])) = Decoded(ix.postings[t])
  <2>1. t \in Strings /\ Len(t) <= MaxName
    BY IndexAssumption DEF CanBeSaved
  <2>2. t \in Seq(Int) /\ Len(t) \in Nat
    BY <1>1, <2>1
  <2>3. /\ encode(ix.postings[t]) \in Strings /\ Len(encode(ix.postings[t])) < WordSize
        /\ decode(encode(ix.postings[t])) = Decoded(ix.postings[t])
    BY CodecAssumption
  <2>4. encode(ix.postings[t]) \in Seq(Int) /\ Len(encode(ix.postings[t])) \in Nat
    BY <1>1, <2>3
  <2> QED BY <1>2, <2>1, <2>2, <2>3, <2>4
<1> QED BY <1>3, <1>4, <1>5, <1>6

LEMMA NamedHolds ==
  ASSUME NEW s \in Seq(Int), Len(s) \in 0..(HalfSize - 1)
  PROVE  /\ Named(s) \in Seq(Int) /\ Len(Named(s)) = 2 + Len(s)
         /\ Holds(Named(s), 1, U16(Len(s))) /\ Holds(Named(s), 3, s)
<1>1. U16(Len(s)) \in Seq(Int) /\ Len(U16(Len(s))) = 2
  BY Number16
<1> DEFINE u == U16(Len(s))
<1>2. Named(s) = u \o s
  BY DEF Named
<1> HIDE DEF u
<1>3. /\ u \o s \in Seq(Int) /\ Len(u \o s) = Len(u) + Len(s)
      /\ Holds(u \o s, 1, u) /\ Holds(u \o s, Len(u) + 1, s)
  BY <1>1, ConcatHolds DEF u
<1>4. Len(u) = 2 /\ Len(u) + 1 = 3
  BY <1>1 DEF u
<1> QED BY <1>2, <1>3, <1>4 DEF u

LEMMA ChunkHolds ==
  ASSUME NEW s \in Seq(Int), Len(s) \in 0..(WordSize - 1)
  PROVE  /\ Chunk(s) \in Seq(Int) /\ Len(Chunk(s)) = 4 + Len(s)
         /\ Holds(Chunk(s), 1, U32(Len(s))) /\ Holds(Chunk(s), 5, s)
<1>1. U32(Len(s)) \in Seq(Int) /\ Len(U32(Len(s))) = 4
  BY Number32
<1> DEFINE u == U32(Len(s))
<1>2. Chunk(s) = u \o s
  BY DEF Chunk
<1> HIDE DEF u
<1>3. /\ u \o s \in Seq(Int) /\ Len(u \o s) = Len(u) + Len(s)
      /\ Holds(u \o s, 1, u) /\ Holds(u \o s, Len(u) + 1, s)
  BY <1>1, ConcatHolds DEF u
<1>4. Len(u) = 4 /\ Len(u) + 1 = 5
  BY <1>1 DEF u
<1> QED BY <1>2, <1>3, <1>4 DEF u

LEMMA EntryHolds ==
  ASSUME NEW ix \in Indexes, CanBeSaved(ix), NEW t \in DOMAIN ix.postings
  PROVE  LET raw == encode(ix.postings[t])
             l   == Len(t)
         IN  /\ TermEntry(ix, t) \in Seq(Int) /\ Len(TermEntry(ix, t)) = 6 + l + Len(raw)
             /\ Holds(TermEntry(ix, t), 1, U16(l)) /\ Holds(TermEntry(ix, t), 3, t)
             /\ Holds(TermEntry(ix, t), 3 + l, U32(Len(raw)))
             /\ Holds(TermEntry(ix, t), 7 + l, raw)
<1> DEFINE raw == encode(ix.postings[t])
           l == Len(t)
           n == Named(t)
           c == Chunk(raw)
           e == TermEntry(ix, t)
<1>1. /\ t \in Seq(Int) /\ l \in 0..(HalfSize - 1) /\ l \in Nat
      /\ raw \in Seq(Int) /\ Len(raw) \in 0..(WordSize - 1) /\ Len(raw) \in Nat
  BY IndexFacts
<1> HIDE DEF raw
<1>2. /\ n \in Seq(Int) /\ Len(n) = 2 + l
      /\ Holds(n, 1, U16(l)) /\ Holds(n, 3, t)
  BY <1>1, NamedHolds
<1>3. /\ c \in Seq(Int) /\ Len(c) = 4 + Len(raw)
      /\ Holds(c, 1, U32(Len(raw))) /\ Holds(c, 5, raw)
  BY <1>1, ChunkHolds
<1>4. e = n \o c
  BY DEF TermEntry, raw
<1>5. U16(l) \in Seq(Int) /\ Len(U16(l)) = 2 /\ U32(Len(raw)) \in Seq(Int) /\ Len(U32(Len(raw))) = 4
  BY <1>1, Number16, Number32
<1> HIDE DEF n, c, e, l
<1>6. /\ e \in Seq(Int) /\ Len(e) = Len(n) + Len(c)
      /\ Holds(e, 1, n) /\ Holds(e, Len(n) + 1, c)
  BY <1>2, <1>3, <1>4, ConcatHolds
<1>7. Len(e) = 6 + l + Len(raw) /\ Len(n) + 1 = 3 + l
  BY <1>1, <1>2, <1>3, <1>6
<1>8. Holds(e, 1 + 1 - 1, U16(l))
  <2>1. 1 + Len(U16(l)) - 1 <= Len(n) /\ 1 \in Nat /\ 1 >= 1
    BY <1>1, <1>2, <1>5
  <2> QED BY <1>2, <1>5, <1>6, <2>1, HoldsWithin, Zenon
<1>9. Holds(e, 1 + 3 - 1, t)
  <2>1. 3 + Len(t) - 1 <= Len(n) /\ 1 \in Nat /\ 3 \in Nat /\ 3 >= 1
    BY <1>1, <1>2 DEF l
  <2> QED BY <1>1, <1>2, <1>6, <2>1, HoldsWithin, Zenon
<1>10. Holds(e, (3 + l) + 1 - 1, U32(Len(raw)))
  <2>1. 1 + Len(U32(Len(raw))) - 1 <= Len(c) /\ 3 + l \in Nat /\ 1 \in Nat /\ 1 >= 1
    BY <1>1, <1>3, <1>5
  <2> QED BY <1>3, <1>5, <1>6, <1>7, <2>1, HoldsWithin, Zenon
<1>11. Holds(e, (3 + l) + 5 - 1, raw)
  <2>1. 5 + Len(raw) - 1 <= Len(c) /\ 3 + l \in Nat /\ 5 \in Nat /\ 5 >= 1
    BY <1>1, <1>3
  <2> QED BY <1>1, <1>3, <1>6, <1>7, <2>1, HoldsWithin, Zenon
<1>12. 1 + 1 - 1 = 1 /\ 1 + 3 - 1 = 3 /\ (3 + l) + 1 - 1 = 3 + l /\ (3 + l) + 5 - 1 = 7 + l
  BY <1>1
<1> QED BY <1>6, <1>7, <1>8, <1>9, <1>10, <1>11, <1>12 DEF e, l, raw

LEMMA HoldsInside ==
  ASSUME NEW data, NEW s \in Seq(Int), Holds(data, 1, s),
         NEW k \in Nat, k >= 1, NEW t \in Seq(Int), Holds(s, k, t),
         k + Len(t) - 1 <= Len(s)
  PROVE  Holds(data, k, t)
<1>1. 1 + k - 1 = k /\ 1 \in Nat
  OBVIOUS
<1>2. Holds(data, 1 + k - 1, t)
  BY <1>1, HoldsWithin, Zenon
<1> QED BY <1>1, <1>2

\* The arithmetic of a part of length p that ends at e, in a whole of length w
\* that begins behind b and has r more behind it.
LEMMA PlaceWithin ==
  ASSUME NEW b \in Nat, NEW e \in Nat, NEW p \in Nat, NEW w \in Nat, NEW r \in Nat,
         NEW f \in Nat, f = e + p, f <= w
  PROVE  /\ e + 1 \in Nat /\ e + 1 >= 1 /\ (e + 1) + p - 1 <= w
         /\ (17 + b) + (e + 1) - 1 = 17 + b + e /\ 17 + b + e \in Nat /\ 17 + b \in Nat
         /\ 17 + b + f = (17 + b + e) + p
         /\ 17 + b + f <= (16 + b + w + r) + 1
OBVIOUS

\* Where the titles and the terms of an image are.
LEMMA ImageLayout ==
  ASSUME NEW ix \in Indexes, CanBeSaved(ix)
  PROVE  LET docs  == ix.docs
             terms == Sorted(DOMAIN ix.postings)
         IN
         /\ Image(ix) \in Seq(Int)
         /\ Holds(Image(ix), 1, fileMagic)
         /\ Holds(Image(ix), 9, U32(Len(docs)))
         /\ Holds(Image(ix), 13, U32(Len(terms)))
         /\ 16 + 4 * Len(docs) <= Len(Image(ix))
         /\ \A d \in 1..Len(docs) : Holds(Image(ix), 17 + 4 * (d - 1), U32(docs[d].len))
         /\ \E titleAt \in [0..Len(docs) -> Nat], termAt \in [0..Len(terms) -> Nat] :
              /\ titleAt[0] = 17 + 4 * Len(docs)
              /\ \A d \in 1..Len(docs) :
                   LET title == StoredTitle(docs[d])
                   IN  /\ titleAt[d] = titleAt[d - 1] + 2 + Len(title)
                       /\ titleAt[d] <= Len(Image(ix)) + 1
                       /\ Holds(Image(ix), titleAt[d - 1], U16(Len(title)))
                       /\ Holds(Image(ix), titleAt[d - 1] + 2, title)
              /\ termAt[0] = titleAt[Len(docs)]
              /\ termAt[Len(terms)] = Len(Image(ix)) + 1
              /\ \A n \in 1..Len(terms) :
                   LET t   == terms[n]
                       raw == encode(ix.postings[t])
                       at  == termAt[n - 1]
                   IN  /\ termAt[n] = at + 6 + Len(t) + Len(raw)
                       /\ termAt[n] <= Len(Image(ix)) + 1
                       /\ Holds(Image(ix), at, U16(Len(t))) /\ Holds(Image(ix), at + 2, t)
                       /\ Holds(Image(ix), at + 2 + Len(t), U32(Len(raw)))
                       /\ Holds(Image(ix), at + 6 + Len(t), raw)
<1> DEFINE docs == ix.docs
           terms == Sorted(DOMAIN ix.postings)
           nD == Len(docs)
           nT == Len(terms)
           LenParts == [d \in 1..nD |-> U32(docs[d].len)]
           TitleParts == [d \in 1..nD |-> Named(StoredTitle(docs[d]))]
           TermParts == [n \in 1..nT |-> TermEntry(ix, terms[n])]
           a == fileMagic
           b == U32(nD)
           c == U32(nT)
           ls == FlattenSeq(LenParts)
           ti == FlattenSeq(TitleParts)
           te == FlattenSeq(TermParts)
           ab == a \o b
           abc == ab \o c
           abcl == abc \o ls
           abclt == abcl \o ti
           whole == abclt \o te
<1>1. Image(ix) = whole
  BY DEF Image
<1>2. /\ nD \in 0..(WordSize - 1) /\ nT \in 0..(WordSize - 1) /\ nD \in Nat /\ nT \in Nat
      /\ \A n \in 1..nT : terms[n] \in DOMAIN ix.postings
  <2>1. /\ nD \in 0..(WordSize - 1) /\ Cardinality(DOMAIN ix.postings) \in 0..(WordSize - 1)
        /\ DOMAIN ix.postings \in SUBSET Seq(Int) /\ IsFiniteSet(DOMAIN ix.postings)
    BY IndexFacts
  <2>2. Sorted(DOMAIN ix.postings) \in [1..Cardinality(DOMAIN ix.postings) -> DOMAIN ix.postings]
    BY <2>1, SortedTerms
  <2>3. nT = Cardinality(DOMAIN ix.postings)
    BY <2>1, <2>2
  <2>4. \A n \in 1..nT : terms[n] \in DOMAIN ix.postings
    BY <2>2, <2>3
  <2> QED BY <2>1, <2>3, <2>4, Sizes
<1>3. /\ LenParts \in Seq(Seq(Int)) /\ Len(LenParts) = nD
      /\ \A d \in 1..nD : LenParts[d] = U32(docs[d].len) /\ Len(LenParts[d]) = 4
  <2>1. \A d \in 1..nD : docs[d].len \in 0..(WordSize - 1)
    BY IndexFacts
  <2>2. \A d \in 1..nD : U32(docs[d].len) \in Seq(Int) /\ Len(U32(docs[d].len)) = 4
    BY <2>1, Number32
  <2> HIDE DEF docs, nD
  <2> QED BY <1>2, <2>2
<1>4. /\ TitleParts \in Seq(Seq(Int)) /\ Len(TitleParts) = nD
      /\ \A d \in 1..nD : TitleParts[d] = Named(StoredTitle(docs[d]))
  <2>1. \A d \in 1..nD : /\ StoredTitle(docs[d]) \in Seq(Int)
                         /\ Len(StoredTitle(docs[d])) \in 0..(HalfSize - 1)
    BY IndexFacts
  <2>2. \A d \in 1..nD : Named(StoredTitle(docs[d])) \in Seq(Int)
    BY <2>1, NamedHolds
  <2> HIDE DEF docs, nD
  <2> QED BY <1>2, <2>2
<1>5. /\ TermParts \in Seq(Seq(Int)) /\ Len(TermParts) = nT
      /\ \A n \in 1..nT : TermParts[n] = TermEntry(ix, terms[n])
  <2>1. \A n \in 1..nT : TermEntry(ix, terms[n]) \in Seq(Int)
    BY <1>2, EntryHolds
  <2> HIDE DEF terms, nT
  <2> QED BY <1>2, <2>1
<1> HIDE DEF LenParts, TitleParts, TermParts, docs, terms, nD, nT
<1>6. a \in Seq(Int) /\ Len(a) = 8
  BY DEF fileMagic
<1>7. b \in Seq(Int) /\ Len(b) = 4 /\ c \in Seq(Int) /\ Len(c) = 4
  BY <1>2, Number32
<1>8. PICK lenEnd \in [0..nD -> Nat] :
        /\ lenEnd[0] = 0 /\ lenEnd[nD] = Len(ls)
        /\ \A d \in 1..nD : /\ lenEnd[d] = lenEnd[d - 1] + 4
                            /\ lenEnd[d] <= Len(ls)
                            /\ Holds(ls, lenEnd[d - 1] + 1, U32(docs[d].len))
  <2>1. PICK end \in [0..nD -> Nat] :
          /\ end[0] = 0 /\ end[nD] = Len(ls)
          /\ \A d \in 1..nD : /\ end[d] = end[d - 1] + Len(LenParts[d])
                              /\ end[d] <= Len(ls)
                              /\ Holds(ls, end[d - 1] + 1, LenParts[d])
    BY <1>3, FlattenHolds
  <2> HIDE DEF ls
  <2> QED BY <1>3, <2>1
<1>9. PICK titleEnd \in [0..nD -> Nat] :
        /\ titleEnd[0] = 0 /\ titleEnd[nD] = Len(ti)
        /\ \A d \in 1..nD : /\ titleEnd[d] = titleEnd[d - 1] + Len(TitleParts[d])
                            /\ titleEnd[d] <= Len(ti)
                            /\ Holds(ti, titleEnd[d - 1] + 1, TitleParts[d])
  BY <1>4, FlattenHolds
<1>10. PICK termEnd \in [0..nT -> Nat] :
        /\ termEnd[0] = 0 /\ termEnd[nT] = Len(te)
        /\ \A n \in 1..nT : /\ termEnd[n] = termEnd[n - 1] + Len(TermParts[n])
                            /\ termEnd[n] <= Len(te)
                            /\ Holds(te, termEnd[n - 1] + 1, TermParts[n])
  BY <1>5, FlattenHolds
<1>11. ls \in Seq(Int) /\ ti \in Seq(Int) /\ te \in Seq(Int)
       /\ Len(ls) \in Nat /\ Len(ti) \in Nat /\ Len(te) \in Nat
  BY <1>3, <1>4, <1>5, FlattenHolds, LenProperties
<1> HIDE DEF a, b, c, ls, ti, te
<1>12. ab \in Seq(Int) /\ Len(ab) = 12 /\ Holds(ab, 1, a) /\ Holds(ab, 9, b)
  <2>1. /\ ab \in Seq(Int) /\ Len(ab) = Len(a) + Len(b) /\ Holds(ab, 1, a)
        /\ Holds(ab, Len(a) + 1, b)
    BY <1>6, <1>7, ConcatHolds
  <2>2. Len(a) + Len(b) = 12 /\ Len(a) + 1 = 9
    BY <1>6, <1>7
  <2> HIDE DEF ab
  <2> QED BY <2>1, <2>2
<1> HIDE DEF ab
<1>13. abc \in Seq(Int) /\ Len(abc) = 16 /\ Holds(abc, 1, ab) /\ Holds(abc, 13, c)
  <2>1. /\ abc \in Seq(Int) /\ Len(abc) = Len(ab) + Len(c) /\ Holds(abc, 1, ab)
        /\ Holds(abc, Len(ab) + 1, c)
    BY <1>7, <1>12, ConcatHolds
  <2>2. Len(ab) + Len(c) = 16 /\ Len(ab) + 1 = 13
    BY <1>7, <1>12
  <2> HIDE DEF abc
  <2> QED BY <2>1, <2>2
<1> HIDE DEF abc
<1>14. /\ abcl \in Seq(Int) /\ Len(abcl) = 16 + Len(ls) /\ Holds(abcl, 1, abc)
       /\ Holds(abcl, 17, ls)
  <2>1. /\ abcl \in Seq(Int) /\ Len(abcl) = Len(abc) + Len(ls) /\ Holds(abcl, 1, abc)
        /\ Holds(abcl, Len(abc) + 1, ls)
    BY <1>11, <1>13, ConcatHolds
  <2>2. Len(abc) = 16 /\ Len(abc) + 1 = 17
    BY <1>13
  <2> HIDE DEF abcl
  <2> QED BY <2>1, <2>2
<1> HIDE DEF abcl
<1>15. /\ abclt \in Seq(Int) /\ Len(abclt) = 16 + Len(ls) + Len(ti) /\ Holds(abclt, 1, abcl)
       /\ Holds(abclt, 17 + Len(ls), ti)
  <2>1. /\ abclt \in Seq(Int) /\ Len(abclt) = Len(abcl) + Len(ti) /\ Holds(abclt, 1, abcl)
        /\ Holds(abclt, Len(abcl) + 1, ti)
    BY <1>11, <1>14, ConcatHolds
  <2>2. Len(abcl) + Len(ti) = 16 + Len(ls) + Len(ti) /\ Len(abcl) + 1 = 17 + Len(ls)
    BY <1>11, <1>14
  <2> HIDE DEF abclt
  <2> QED BY <2>1, <2>2
<1> HIDE DEF abclt
<1>16. /\ whole \in Seq(Int) /\ Len(whole) = 16 + Len(ls) + Len(ti) + Len(te)
       /\ Holds(whole, 1, abclt) /\ Holds(whole, 17 + Len(ls) + Len(ti), te)
  <2>1. /\ whole \in Seq(Int) /\ Len(whole) = Len(abclt) + Len(te) /\ Holds(whole, 1, abclt)
        /\ Holds(whole, Len(abclt) + 1, te)
    BY <1>11, <1>15, ConcatHolds
  <2>2. /\ Len(abclt) + Len(te) = 16 + Len(ls) + Len(ti) + Len(te)
        /\ Len(abclt) + 1 = 17 + Len(ls) + Len(ti)
    BY <1>11, <1>15
  <2> HIDE DEF whole
  <2> QED BY <2>1, <2>2
<1> HIDE DEF whole
<1>17. Holds(whole, 1, abcl) /\ Holds(whole, 17 + Len(ls), ti)
  <2>1. /\ 1 + Len(abcl) - 1 <= Len(abclt) /\ (17 + Len(ls)) + Len(ti) - 1 <= Len(abclt)
        /\ 1 \in Nat /\ 1 >= 1 /\ 17 + Len(ls) \in Nat /\ 17 + Len(ls) >= 1
    BY <1>11, <1>14, <1>15
  <2> QED BY <1>11, <1>14, <1>15, <1>16, <2>1, HoldsInside, Zenon
<1>18. Holds(whole, 1, abc) /\ Holds(whole, 17, ls)
  <2>1. /\ 1 + Len(abc) - 1 <= Len(abcl) /\ 17 + Len(ls) - 1 <= Len(abcl)
        /\ 1 \in Nat /\ 1 >= 1 /\ 17 \in Nat /\ 17 >= 1
    BY <1>11, <1>13, <1>14
  <2> QED BY <1>11, <1>13, <1>14, <1>17, <2>1, HoldsInside, Zenon
<1>19. Holds(whole, 1, ab) /\ Holds(whole, 13, c)
  <2>1. /\ 1 + Len(ab) - 1 <= Len(abc) /\ 13 + Len(c) - 1 <= Len(abc)
        /\ 1 \in Nat /\ 1 >= 1 /\ 13 \in Nat /\ 13 >= 1
    BY <1>7, <1>12, <1>13
  <2> QED BY <1>7, <1>12, <1>13, <1>18, <2>1, HoldsInside, Zenon
<1>20. Holds(whole, 1, a) /\ Holds(whole, 9, b)
  <2>1. /\ 1 + Len(a) - 1 <= Len(ab) /\ 9 + Len(b) - 1 <= Len(ab)
        /\ 1 \in Nat /\ 1 >= 1 /\ 9 \in Nat /\ 9 >= 1
    BY <1>6, <1>7, <1>12
  <2> QED BY <1>6, <1>7, <1>12, <1>19, <2>1, HoldsInside, Zenon
<1>21. \A d \in 0..nD : lenEnd[d] = 4 * d
  <2>1. nD \in Nat /\ lenEnd[0] = 0 /\ \A d \in 1..nD : lenEnd[d] = lenEnd[d - 1] + 4
    BY <1>2, <1>8
  <2> QED BY <2>1, StepsOfFour
<1>22. Len(ls) = 4 * nD
  <2>1. nD \in 0..nD
    BY <1>2
  <2> QED BY <1>8, <1>21, <2>1
<1>23. ASSUME NEW d \in 1..nD PROVE Holds(whole, 17 + 4 * (d - 1), U32(docs[d].len))
  <2>1. d - 1 \in 0..nD /\ d \in 0..nD /\ d \in Nat
    BY <1>2
  <2>2. lenEnd[d - 1] = 4 * (d - 1) /\ lenEnd[d] = 4 * d
    BY <1>21, <2>1
  <2>3. docs[d].len \in 0..(WordSize - 1)
    BY IndexFacts DEF docs, nD
  <2> DEFINE p == U32(docs[d].len)
             k == 4 * (d - 1) + 1
  <2>4. p \in Seq(Int) /\ Len(p) = 4 /\ Holds(ls, lenEnd[d - 1] + 1, p) /\ 4 * d <= Len(ls)
    BY <1>8, <2>2, <2>3, Number32
  <2> HIDE DEF p
  <2>5. k \in Nat /\ k >= 1 /\ k + Len(p) - 1 <= Len(ls) /\ Holds(ls, k, p) /\ 17 \in Nat
    BY <1>11, <2>1, <2>2, <2>4
  <2>6. 17 + k - 1 = 17 + 4 * (d - 1)
    BY <2>1
  <2> HIDE DEF k
  <2>7. Holds(whole, 17 + k - 1, p)
    BY <1>11, <1>18, <2>4, <2>5, HoldsWithin, Zenon
  <2> QED BY <2>6, <2>7 DEF p
<1> DEFINE titleAt == [d \in 0..nD |-> 17 + 4 * nD + titleEnd[d]]
           termAt == [n \in 0..nT |-> 17 + 4 * nD + Len(ti) + termEnd[n]]
<1>24. /\ titleAt \in [0..nD -> Nat] /\ titleAt[0] = 17 + 4 * nD
       /\ \A d \in 0..nD : titleAt[d] = 17 + 4 * nD + titleEnd[d]
       /\ titleAt[nD] = 17 + 4 * nD + Len(ti)
  <2> DEFINE f == 17 + 4 * nD
  <2>1. f \in Nat /\ 0 \in 0..nD /\ nD \in 0..nD
    BY <1>2
  <2>2. titleAt = [d \in 0..nD |-> f + titleEnd[d]]
    OBVIOUS
  <2> HIDE DEF f, titleAt
  <2>3. \A d \in 0..nD : titleEnd[d] \in Nat /\ f + titleEnd[d] \in Nat
    BY <1>9, <2>1
  <2>4. titleAt[0] = f + titleEnd[0] /\ titleAt[nD] = f + titleEnd[nD]
    BY <2>1, <2>2, Zenon
  <2>5. titleEnd[0] = 0 /\ titleEnd[nD] = Len(ti)
    BY <1>9, Zenon
  <2>6. f + 0 = f
    BY <2>1
  <2> QED BY <2>2, <2>3, <2>4, <2>5, <2>6 DEF f
<1>25. /\ termAt \in [0..nT -> Nat] /\ termAt[0] = 17 + 4 * nD + Len(ti)
       /\ \A n \in 0..nT : termAt[n] = 17 + 4 * nD + Len(ti) + termEnd[n]
       /\ termAt[nT] = 17 + 4 * nD + Len(ti) + Len(te)
  <2> DEFINE f == 17 + 4 * nD + Len(ti)
  <2>1. f \in Nat /\ 0 \in 0..nT /\ nT \in 0..nT
    BY <1>2, <1>11
  <2>2. termAt = [n \in 0..nT |-> f + termEnd[n]]
    OBVIOUS
  <2> HIDE DEF f, termAt
  <2>3. \A n \in 0..nT : termEnd[n] \in Nat /\ f + termEnd[n] \in Nat
    BY <1>10, <2>1
  <2>4. termAt[0] = f + termEnd[0] /\ termAt[nT] = f + termEnd[nT]
    BY <2>1, <2>2, Zenon
  <2>5. termEnd[0] = 0 /\ termEnd[nT] = Len(te)
    BY <1>10, Zenon
  <2>6. f + 0 = f
    BY <2>1
  <2> QED BY <2>2, <2>3, <2>4, <2>5, <2>6 DEF f
<1>26. Len(whole) = 16 + 4 * nD + Len(ti) + Len(te)
  BY <1>16, <1>22
<1> HIDE DEF titleAt, termAt
<1>27. ASSUME NEW d \in 1..nD
       PROVE  LET title == StoredTitle(docs[d])
              IN  /\ titleAt[d] = titleAt[d - 1] + 2 + Len(title)
                  /\ titleAt[d] <= Len(whole) + 1
                  /\ Holds(whole, titleAt[d - 1], U16(Len(title)))
                  /\ Holds(whole, titleAt[d - 1] + 2, title)
  <2> DEFINE title == StoredTitle(docs[d])
             p == TitleParts[d]
             at == titleAt[d - 1]
  <2>1. title \in Seq(Int) /\ Len(title) \in 0..(HalfSize - 1) /\ Len(title) \in Nat
    BY IndexFacts DEF docs, nD
  <2>2. p = Named(title)
    BY <1>4
  <2> HIDE DEF title
  <2>3. /\ p \in Seq(Int) /\ Len(p) = 2 + Len(title)
        /\ Holds(p, 1, U16(Len(title))) /\ Holds(p, 3, title)
        /\ U16(Len(title)) \in Seq(Int) /\ Len(U16(Len(title))) = 2
    BY <2>1, <2>2, NamedHolds, Number16
  <2>4. d - 1 \in 0..nD /\ d \in 0..nD
    BY <1>2
  <2>5. /\ titleEnd[d - 1] \in Nat /\ titleEnd[d] \in Nat
        /\ titleEnd[d] = titleEnd[d - 1] + Len(p) /\ titleEnd[d] <= Len(ti)
        /\ Holds(ti, titleEnd[d - 1] + 1, p)
        /\ titleAt[d] = 17 + 4 * nD + titleEnd[d] /\ at = 17 + 4 * nD + titleEnd[d - 1]
    BY <1>9, <1>24, <2>4
  <2> HIDE DEF p, at
  <2> DEFINE k == titleEnd[d - 1] + 1
             from == 17 + Len(ls)
  <2>6. /\ k \in Nat /\ k >= 1 /\ k + Len(p) - 1 <= Len(ti) /\ from \in Nat
        /\ from + k - 1 = at /\ at \in Nat
    <3> DEFINE b0 == Len(ls)
               e0 == titleEnd[d - 1]
               f0 == titleEnd[d]
               p0 == Len(p)
               w0 == Len(ti)
    <3>1. /\ b0 \in Nat /\ e0 \in Nat /\ p0 \in Nat /\ w0 \in Nat /\ f0 \in Nat
          /\ f0 = e0 + p0 /\ f0 <= w0
      BY <1>11, <2>1, <2>3, <2>5
    <3>2. 4 * nD = b0 /\ at = 17 + b0 + e0 /\ 0 \in Nat
      BY <1>22, <2>5
    <3> HIDE DEF b0, e0, f0, p0, w0
    <3>3. /\ e0 + 1 \in Nat /\ e0 + 1 >= 1 /\ (e0 + 1) + p0 - 1 <= w0
          /\ (17 + b0) + (e0 + 1) - 1 = 17 + b0 + e0 /\ 17 + b0 + e0 \in Nat
          /\ 17 + b0 \in Nat
      BY <3>1, <3>2, PlaceWithin
    <3> QED BY <3>2, <3>3 DEF b0, e0, p0, w0
  <2>7. Holds(whole, from + k - 1, p)
    <3>1. Holds(ti, k, p) /\ Holds(whole, from, ti)
      BY <1>17, <2>5
    <3> HIDE DEF k, from
    <3> QED BY <1>11, <2>3, <2>6, <3>1, HoldsWithin, Zenon
  <2>8. Holds(whole, at, p)
    BY <2>6, <2>7
  <2>9. Holds(whole, at + 1 - 1, U16(Len(title))) /\ Holds(whole, at + 3 - 1, title)
    <3>1. /\ 1 + Len(U16(Len(title))) - 1 <= Len(p) /\ 3 + Len(title) - 1 <= Len(p)
          /\ 1 \in Nat /\ 1 >= 1 /\ 3 \in Nat /\ 3 >= 1
      BY <2>1, <2>3
    <3> QED BY <2>1, <2>3, <2>6, <2>8, <3>1, HoldsWithin, Zenon
  <2>10. at + 1 - 1 = at /\ at + 3 - 1 = at + 2
    BY <2>6
  <2>11. titleAt[d] = at + 2 + Len(title) /\ titleAt[d] <= Len(whole) + 1
    <3> DEFINE b0 == 4 * nD
               e0 == titleEnd[d - 1]
               f0 == titleEnd[d]
               p0 == Len(p)
               w0 == Len(ti)
               r0 == Len(te)
    <3>1. /\ b0 \in Nat /\ e0 \in Nat /\ p0 \in Nat /\ w0 \in Nat /\ f0 \in Nat /\ r0 \in Nat
          /\ f0 = e0 + p0 /\ f0 <= w0
      BY <1>2, <1>11, <2>1, <2>3, <2>5
    <3>2. /\ titleAt[d] = 17 + b0 + f0 /\ at = 17 + b0 + e0
          /\ Len(whole) = 16 + b0 + w0 + r0 /\ p0 = 2 + Len(title)
      BY <1>26, <2>3, <2>5
    <3> HIDE DEF b0, e0, f0, p0, w0, r0
    <3>3. 17 + b0 + f0 = (17 + b0 + e0) + p0 /\ 17 + b0 + f0 <= (16 + b0 + w0 + r0) + 1
      BY <3>1, PlaceWithin
    <3>4. at + p0 = at + 2 + Len(title)
      BY <2>1, <2>6, <3>2
    <3> QED BY <3>2, <3>3, <3>4
  <2> QED BY <2>9, <2>10, <2>11 DEF at, title
<1>28. ASSUME NEW n \in 1..nT
       PROVE  LET t   == terms[n]
                  raw == encode(ix.postings[t])
                  at  == termAt[n - 1]
              IN  /\ termAt[n] = at + 6 + Len(t) + Len(raw)
                  /\ termAt[n] <= Len(whole) + 1
                  /\ Holds(whole, at, U16(Len(t))) /\ Holds(whole, at + 2, t)
                  /\ Holds(whole, at + 2 + Len(t), U32(Len(raw)))
                  /\ Holds(whole, at + 6 + Len(t), raw)
  <2> DEFINE t == terms[n]
             raw == encode(ix.postings[t])
             p == TermParts[n]
             at == termAt[n - 1]
             l == Len(t)
             m == Len(raw)
  <2>1. t \in DOMAIN ix.postings
    BY <1>2
  <2>2. /\ t \in Seq(Int) /\ l \in 0..(HalfSize - 1) /\ l \in Nat
        /\ raw \in Seq(Int) /\ m \in 0..(WordSize - 1) /\ m \in Nat
    BY <2>1, IndexFacts
  <2>3. p = TermEntry(ix, t)
    BY <1>5
  <2>4. /\ p \in Seq(Int) /\ Len(p) = 6 + l + m
        /\ Holds(p, 1, U16(l)) /\ Holds(p, 3, t)
        /\ Holds(p, 3 + l, U32(m)) /\ Holds(p, 7 + l, raw)
    <3> HIDE DEF t, p
    <3> QED BY <2>1, <2>3, EntryHolds
  <2>5. /\ U16(l) \in Seq(Int) /\ Len(U16(l)) = 2
        /\ U32(m) \in Seq(Int) /\ Len(U32(m)) = 4
    BY <2>2, Number16, Number32
  <2>6. n - 1 \in 0..nT /\ n \in 0..nT
    BY <1>2
  <2>7. /\ termEnd[n - 1] \in Nat /\ termEnd[n] \in Nat
        /\ termEnd[n] = termEnd[n - 1] + Len(p) /\ termEnd[n] <= Len(te)
        /\ Holds(te, termEnd[n - 1] + 1, p)
        /\ termAt[n] = 17 + 4 * nD + Len(ti) + termEnd[n]
        /\ at = 17 + 4 * nD + Len(ti) + termEnd[n - 1]
    BY <1>10, <1>25, <2>6
  <2> HIDE DEF p, at, t, raw, l, m
  <2> DEFINE k == termEnd[n - 1] + 1
             from == 17 + Len(ls) + Len(ti)
  <2>8. /\ k \in Nat /\ k >= 1 /\ k + Len(p) - 1 <= Len(te) /\ from \in Nat
        /\ from + k - 1 = at /\ at \in Nat
    <3> DEFINE b0 == Len(ls) + Len(ti)
               e0 == termEnd[n - 1]
               f0 == termEnd[n]
               p0 == Len(p)
               w0 == Len(te)
    <3>1. /\ b0 \in Nat /\ e0 \in Nat /\ p0 \in Nat /\ w0 \in Nat /\ f0 \in Nat
          /\ f0 = e0 + p0 /\ f0 <= w0
      BY <1>11, <2>2, <2>4, <2>7
    <3>2. 17 + Len(ls) + Len(ti) = 17 + b0 /\ 0 \in Nat
      BY <1>11
    <3>3. at = 17 + b0 + e0
      BY <1>22, <2>7, <3>2
    <3> HIDE DEF b0, e0, f0, p0, w0
    <3>4. /\ e0 + 1 \in Nat /\ e0 + 1 >= 1 /\ (e0 + 1) + p0 - 1 <= w0
          /\ (17 + b0) + (e0 + 1) - 1 = 17 + b0 + e0 /\ 17 + b0 + e0 \in Nat
          /\ 17 + b0 \in Nat
      BY <3>1, <3>2, PlaceWithin
    <3> QED BY <3>2, <3>3, <3>4 DEF e0, p0, w0
  <2>9. Holds(whole, from + k - 1, p)
    <3>1. Holds(te, k, p) /\ Holds(whole, from, te)
      BY <1>16, <2>7
    <3> HIDE DEF k, from
    <3> QED BY <1>11, <2>4, <2>8, <3>1, HoldsWithin, Zenon
  <2>10. Holds(whole, at, p)
    BY <2>8, <2>9
  <2>11. /\ Holds(whole, at + 1 - 1, U16(l)) /\ Holds(whole, at + 3 - 1, t)
         /\ Holds(whole, at + (3 + l) - 1, U32(m)) /\ Holds(whole, at + (7 + l) - 1, raw)
    <3>1. /\ 1 + Len(U16(l)) - 1 <= Len(p) /\ 3 + Len(t) - 1 <= Len(p)
          /\ (3 + l) + Len(U32(m)) - 1 <= Len(p) /\ (7 + l) + Len(raw) - 1 <= Len(p)
          /\ 1 \in Nat /\ 1 >= 1 /\ 3 \in Nat /\ 3 >= 1
          /\ 3 + l \in Nat /\ 3 + l >= 1 /\ 7 + l \in Nat /\ 7 + l >= 1
      BY <2>2, <2>4, <2>5 DEF l, m
    <3> QED BY <2>2, <2>4, <2>5, <2>8, <2>10, <3>1, HoldsWithin, Zenon
  <2>12. /\ at + 1 - 1 = at /\ at + 3 - 1 = at + 2
         /\ at + (3 + l) - 1 = at + 2 + l /\ at + (7 + l) - 1 = at + 6 + l
    BY <2>2, <2>8
  <2>13. termAt[n] = at + 6 + l + m /\ termAt[n] <= Len(whole) + 1
    <3> DEFINE b0 == 4 * nD + Len(ti)
               e0 == termEnd[n - 1]
               f0 == termEnd[n]
               p0 == Len(p)
               w0 == Len(te)
    <3>1. /\ b0 \in Nat /\ e0 \in Nat /\ p0 \in Nat /\ w0 \in Nat /\ f0 \in Nat /\ 0 \in Nat
          /\ f0 = e0 + p0 /\ f0 <= w0
      BY <1>2, <1>11, <2>2, <2>4, <2>7
    <3>2. /\ 17 + 4 * nD + Len(ti) = 17 + b0 /\ p0 = 6 + l + m
          /\ 16 + 4 * nD + Len(ti) = 16 + b0
      BY <1>2, <1>11, <2>4
    <3>3. /\ termAt[n] = 17 + b0 + f0 /\ at = 17 + b0 + e0 /\ Len(whole) = 16 + b0 + w0
      BY <1>26, <2>7, <3>2
    <3> HIDE DEF b0, e0, f0, p0, w0
    <3>4. 17 + b0 + f0 = (17 + b0 + e0) + p0 /\ 17 + b0 + f0 <= (16 + b0 + w0 + 0) + 1
      BY <3>1, PlaceWithin
    <3>5. at + p0 = at + 6 + l + m /\ 16 + b0 + w0 + 0 = 16 + b0 + w0
      BY <2>2, <2>8, <3>1, <3>2
    <3> QED BY <3>3, <3>4, <3>5
  <2> QED BY <2>11, <2>12, <2>13 DEF at, t, raw, l, m
<1>29. /\ termAt[0] = titleAt[nD] /\ termAt[nT] = Len(whole) + 1
       /\ 16 + 4 * nD <= Len(whole)
  BY <1>2, <1>11, <1>24, <1>25, <1>26
<1>30. /\ whole \in Seq(Int) /\ Holds(whole, 1, a) /\ Holds(whole, 9, b) /\ Holds(whole, 13, c)
  BY <1>16, <1>19, <1>20
<1> QED BY <1>1, <1>23, <1>24, <1>25, <1>27, <1>28, <1>29, <1>30 DEF docs, terms, nD, nT, a, b, c

-----------------------------------------------------------------------------
(* What parseHeader makes of the bytes that a save has written.            *)

Begins(s, t) == Len(s) <= Len(t) /\ \A n \in 1..Len(s) : s[n] = t[n]

Shows(data, at, s) == Holds(data, at, s) /\ Slice(data, at, Len(s)) = s

\* What a string holds, a beginning of it holds as far as it reaches.
LEMMA BeginningHolds ==
  ASSUME NEW data \in Seq(Int), NEW all \in Seq(Int), Begins(data, all),
         NEW at \in Nat, at >= 1, NEW s \in Seq(Int), Holds(all, at, s),
         at + Len(s) - 1 <= Len(data)
  PROVE  Shows(data, at, s)
<1>1. Len(data) \in Nat /\ Len(s) \in Nat /\ s = [i \in 1..Len(s) |-> s[i]]
  OBVIOUS
<1>2. ASSUME NEW i \in 1..Len(s) PROVE data[at + i - 1] = s[i]
  <2>1. at + i - 1 \in 1..Len(data)
    <3> DEFINE l == Len(s)
               z == Len(data)
    <3>1. l \in Nat /\ z \in Nat /\ i \in 1..l /\ at + l - 1 <= z
      BY <1>1
    <3> HIDE DEF l, z
    <3>2. at + i - 1 \in 1..z
      BY <3>1
    <3> QED BY <3>2 DEF z
  <2> QED BY <2>1 DEF Begins, Holds
<1>3. Slice(data, at, Len(s)) = s
  <2> DEFINE l == Len(s)
             m == at + l - 1
  <2>1. m \in Int /\ l \in Nat /\ m - at + 1 = l
    BY <1>1
  <2>2. \A i \in 1..l : i + at - 1 = at + i - 1 /\ data[at + i - 1] = s[i]
    BY <1>2
  <2> HIDE DEF l, m
  <2>3. Slice(data, at, l) = SubSeq(data, at, m)
    BY DEF Slice, m
  <2>4. /\ Len(SubSeq(data, at, m)) = l /\ SubSeq(data, at, m) \in Seq(Int)
        /\ \A i \in 1..l : SubSeq(data, at, m)[i] = data[at + i - 1]
    <3>1. \A j \in at..m : data[j] \in Int
      <4>1. \A j \in at..m : j \in 1..Len(data)
        BY <1>1 DEF m, l
      <4> QED BY <4>1
    <3>2. /\ SubSeq(data, at, m) \in Seq(Int)
          /\ Len(SubSeq(data, at, m)) = IF at <= m THEN m - at + 1 ELSE 0
          /\ \A i \in 1..(m - at + 1) : SubSeq(data, at, m)[i] = data[at + i - 1]
      BY <2>1, <3>1, SubSeqProperties
    <3>3. (IF at <= m THEN m - at + 1 ELSE 0) = l
      BY <2>1
    <3> QED BY <2>1, <3>2, <3>3
  <2> DEFINE z == SubSeq(data, at, m)
  <2>5. Len(z) = Len(s) /\ z \in Seq(Int) /\ \A i \in 1..Len(z) : z[i] = s[i]
    BY <2>2, <2>4 DEF l
  <2> HIDE DEF z
  <2>6. z = s
    BY <2>5, SeqEqual
  <2> QED BY <2>3, <2>6 DEF z, l
<1> QED BY <1>2, <1>3 DEF Holds, Shows

TitlesRead(vals, at, data, d) ==
  IF at[d] <= Len(data) + 1
  THEN [err |-> FALSE, val |-> [i \in 1..d |-> vals[i]], next |-> at[d]]
  ELSE Refused

\* Reading one title behind those that come before it.
LEMMA TitleStep ==
  ASSUME NEW data \in Seq(Int), NEW vals, NEW at, NEW d \in Nat \ {0},
         at[d - 1] \in Nat, at[d - 1] >= 1, vals[d] \in Seq(Int),
         Len(vals[d]) \in 0..(HalfSize - 1),
         at[d] = at[d - 1] + 2 + Len(vals[d]),
         at[d - 1] + 1 <= Len(data) => Holds(data, at[d - 1], U16(Len(vals[d]))),
         at[d] <= Len(data) + 1 => Slice(data, at[d - 1] + 2, Len(vals[d])) = vals[d]
  PROVE  ReadTitle(data, TitlesRead(vals, at, data, d - 1)) = TitlesRead(vals, at, data, d)
<1> DEFINE k == at[d - 1]
           l == Len(vals[d])
           n == Len(data)
           before == [i \in 1..(d - 1) |-> vals[i]]
           soFar == TitlesRead(vals, at, data, d - 1)
<1>1. n \in Nat /\ k \in Nat /\ l \in Nat
  OBVIOUS
<1>2. CASE ~(k <= n + 1)
  <2>1. soFar = Refused
    BY <1>2 DEF TitlesRead
  <2>2. ReadTitle(data, soFar) = Refused
    BY <2>1 DEF ReadTitle, Refused
  <2>3. ~(at[d] <= n + 1)
    BY <1>1, <1>2
  <2> QED BY <2>2, <2>3 DEF TitlesRead
<1>3. CASE k <= n + 1
  <2>1. soFar = [err |-> FALSE, val |-> before, next |-> k]
    BY <1>3 DEF TitlesRead
  <2> HIDE DEF before, soFar
  <2>2. soFar.err = FALSE /\ soFar.val = before /\ soFar.next = k
    BY <2>1
  <2>3. CASE n < k + 1
    <3>1. ReadTitle(data, soFar) = Refused
      BY <1>1, <2>2, <2>3 DEF ReadTitle, EndsBefore
    <3>2. ~(at[d] <= n + 1)
      BY <1>1, <2>3
    <3> QED BY <3>1, <3>2 DEF TitlesRead, soFar
  <2>4. CASE ~(n < k + 1)
    <3>1. GetU16(data, k) = l
      <4>1. Holds(data, k, U16(l))
        BY <1>1, <2>4
      <4> QED BY <1>1, <4>1, Read16
    <3>2. ~EndsBefore(data, k, 2)
      BY <1>1, <2>4 DEF EndsBefore
    <3>3. EndsBefore(data, k + 2, l) <=> ~(at[d] <= n + 1)
      <4> DEFINE z == at[d]
      <4>1. n \in Nat /\ k \in Nat /\ l \in Nat /\ z = k + 2 + l
        BY <1>1
      <4> HIDE DEF k, l, n, z
      <4>2. n < (k + 2) + l - 1 <=> ~(z <= n + 1)
        BY <4>1
      <4> QED BY <4>2 DEF EndsBefore, n, z
    <3>4. CASE ~(at[d] <= n + 1)
      BY <2>2, <3>1, <3>2, <3>3, <3>4 DEF ReadTitle, TitlesRead, soFar
    <3>5. CASE at[d] <= n + 1
      <4>1. Slice(data, k + 2, l) = vals[d]
        BY <3>5
      <4>2. ReadTitle(data, soFar)
              = [err |-> FALSE, val |-> Append(before, vals[d]), next |-> at[d]]
        BY <2>2, <3>1, <3>2, <3>3, <3>5, <4>1 DEF ReadTitle
      <4>3. Append(before, vals[d]) = [i \in 1..d |-> vals[i]]
        BY DEF before
      <4> QED BY <3>5, <4>2, <4>3 DEF TitlesRead, soFar
    <3> QED BY <3>4, <3>5
  <2> QED BY <2>3, <2>4
<1> QED BY <1>2, <1>3

\* All the titles, as far as the bytes reach.
LEMMA ReadTitlesGives ==
  ASSUME NEW data \in Seq(Int), NEW n \in Nat, NEW vals, NEW at \in [0..n -> Nat],
         at[0] >= 1, at[0] <= Len(data) + 1,
         \A d \in 1..n :
           /\ vals[d] \in Seq(Int) /\ Len(vals[d]) \in 0..(HalfSize - 1)
           /\ at[d] = at[d - 1] + 2 + Len(vals[d]) /\ at[d - 1] >= 1
           /\ at[d - 1] + 1 <= Len(data) => Holds(data, at[d - 1], U16(Len(vals[d])))
           /\ at[d] <= Len(data) + 1
                => Slice(data, at[d - 1] + 2, Len(vals[d])) = vals[d]
  PROVE  ReadTitles(data, at[0], n) = TitlesRead(vals, at, data, n)
<1> DEFINE first == ReadNothing(at[0])
           Solves(h) == h = [d \in 0..n |-> IF d = 0 THEN first
                                            ELSE ReadTitle(data, h[d - 1])]
           g == [d \in 0..n |-> TitlesRead(vals, at, data, d)]
           after == CHOOSE h : Solves(h)
<1>1. TitlesRead(vals, at, data, 0) = first
  <2>1. [i \in 1..0 |-> vals[i]] = <<>>
    OBVIOUS
  <2> QED BY <2>1 DEF TitlesRead, ReadNothing
<1>2. ASSUME NEW d \in 1..n
      PROVE  TitlesRead(vals, at, data, d) = ReadTitle(data, TitlesRead(vals, at, data, d - 1))
  <2>1. d - 1 \in 0..n /\ d \in Nat \ {0}
    OBVIOUS
  <2>2. at[d - 1] \in Nat
    BY <2>1
  <2> QED BY <2>1, <2>2, TitleStep
<1>3. Solves(g)
  <2>1. ASSUME NEW d \in 0..n
        PROVE  TitlesRead(vals, at, data, d)
                 = IF d = 0 THEN first ELSE ReadTitle(data, g[d - 1])
    <3>1. CASE d = 0
      BY <1>1, <3>1
    <3>2. CASE d # 0
      <4>1. d \in 1..n /\ d - 1 \in 0..n
        BY <3>2
      <4>2. g[d - 1] = TitlesRead(vals, at, data, d - 1)
        BY <4>1
      <4> HIDE DEF g
      <4> QED BY <1>2, <3>2, <4>1, <4>2
    <3> QED BY <3>1, <3>2
  <2>2. g = [d \in 0..n |-> TitlesRead(vals, at, data, d)]
    OBVIOUS
  <2> HIDE DEF g, first
  <2> QED BY <2>1, <2>2
<1>4. Solves(after)
  <2> HIDE DEF Solves, g
  <2> QED BY <1>3
<1> HIDE DEF after
<1>5. after[0] = first /\ \A d \in 1..n : after[d] = ReadTitle(data, after[d - 1])
  <2> HIDE DEF first
  <2> QED BY <1>4
<1>6. g[0] = first /\ \A d \in 1..n : g[d] = ReadTitle(data, g[d - 1])
  <2>1. \A d \in 0..n : g[d] = TitlesRead(vals, at, data, d)
    OBVIOUS
  <2> HIDE DEF g, first
  <2>2. 0 \in 0..n /\ \A d \in 1..n : d \in 0..n /\ d - 1 \in 0..n
    OBVIOUS
  <2> QED BY <1>1, <1>2, <2>1, <2>2
<1>7. after[n] = TitlesRead(vals, at, data, n)
  <2> HIDE DEF g, first
  <2>1. StepAlike(after, g, n)
    BY <1>5, <1>6 DEF StepAlike
  <2>2. Agree(after, g, n) /\ n \in 0..n
    BY <2>1, AgreeUpwards
  <2> QED BY <2>2 DEF Agree, g
<1>8. ReadTitles(data, at[0], n) = after[n]
  BY DEF ReadTitles, after
<1> QED BY <1>7, <1>8

\* The map of the terms that have been read, and where its lists are.
FirstTerms(names, meta, m) == [t \in {names[i] : i \in 1..m} |-> meta[t]]

TermsRead(names, meta, at, data, m) ==
  IF at[m] <= Len(data) + 1
  THEN [err |-> FALSE, val |-> FirstTerms(names, meta, m), next |-> at[m]]
  ELSE Refused

\* One more entry in a map.
LEMMA OneMore ==
  ASSUME NEW names, NEW meta, NEW m \in Nat \ {0}
  PROVE  WithEntry(FirstTerms(names, meta, m - 1), names[m], meta[names[m]])
           = FirstTerms(names, meta, m)
<1> DEFINE A == {names[i] : i \in 1..(m - 1)}
           B == {names[i] : i \in 1..m}
<1>1. B = A \union {names[m]}
  <2>1. \A i \in 1..m : i = m \/ i \in 1..(m - 1)
    OBVIOUS
  <2>2. m \in 1..m /\ \A i \in 1..(m - 1) : i \in 1..m
    OBVIOUS
  <2> QED BY <2>1, <2>2
<1> HIDE DEF A, B
<1>2. WithEntry([t \in A |-> meta[t]], names[m], meta[names[m]]) = [t \in B |-> meta[t]]
  BY <1>1 DEF WithEntry
<1> QED BY <1>2 DEF A, B, FirstTerms

\* The arithmetic of an entry at k, with a name of length l and a list of length r,
\* in n bytes.
LEMMA EntryFits ==
  ASSUME NEW n \in Nat, NEW k \in Nat, NEW l \in Nat, NEW r \in Nat, NEW z,
         z = k + 6 + l + r
  PROVE  /\ ~(k <= n + 1) => ~(z <= n + 1)
         /\ n < k + 1 => ~(z <= n + 1)
         /\ n < k + 5 + l => ~(z <= n + 1)
         /\ (k + 2 + l) + 4 + r = z /\ k + 2 + l \in Nat
         /\ n < (k + 2) + (l + 4) - 1 <=> n < k + 5 + l
         /\ n < (k + 2 + l + 4) + r - 1 <=> ~(z <= n + 1)
         /\ n < k + 2 - 1 <=> n < k + 1
         /\ ~(n < k + 1) => k + 1 <= n
         /\ ~(n < k + 5 + l) => k + 5 + l <= n
OBVIOUS

\* Entry m of the terms, as far as data reaches.
EntryAt(names, lens, meta, at, data, m) ==
  /\ names[m] \in Seq(Int) /\ Len(names[m]) \in 0..(HalfSize - 1)
  /\ lens[m] \in 0..(WordSize - 1) /\ at[m - 1] >= 1
  /\ at[m] = at[m - 1] + 6 + Len(names[m]) + lens[m]
  /\ meta[names[m]] = [off |-> PlaceOf(at[m - 1] + 2 + Len(names[m])), ln |-> lens[m]]
  /\ at[m - 1] + 1 <= Len(data) => Holds(data, at[m - 1], U16(Len(names[m])))
  /\ at[m - 1] + 5 + Len(names[m]) <= Len(data)
       => /\ Slice(data, at[m - 1] + 2, Len(names[m])) = names[m]
          /\ Holds(data, at[m - 1] + 2 + Len(names[m]), U32(lens[m]))

\* Reading one term behind those that come before it.
LEMMA TermStep ==
  ASSUME NEW data \in Seq(Int), NEW names, NEW lens, NEW meta, NEW at, NEW m \in Nat \ {0},
         at[m - 1] \in Nat, EntryAt(names, lens, meta, at, data, m)
  PROVE  ReadTerm(data, TermsRead(names, meta, at, data, m - 1))
           = TermsRead(names, meta, at, data, m)
<1> DEFINE k == at[m - 1]
           l == Len(names[m])
           r == lens[m]
           n == Len(data)
           before == FirstTerms(names, meta, m - 1)
           soFar == TermsRead(names, meta, at, data, m - 1)
<1>1. n \in Nat /\ k \in Nat /\ l \in Nat /\ r \in Nat
  BY Sizes DEF EntryAt
<1> DEFINE z == at[m]
<1>4. /\ ~(k <= n + 1) => ~(z <= n + 1)
      /\ n < k + 1 => ~(z <= n + 1)
      /\ n < k + 5 + l => ~(z <= n + 1)
      /\ (k + 2 + l) + 4 + r = z /\ k + 2 + l \in Nat
      /\ n < (k + 2) + (l + 4) - 1 <=> n < k + 5 + l
      /\ n < (k + 2 + l + 4) + r - 1 <=> ~(z <= n + 1)
      /\ n < k + 2 - 1 <=> n < k + 1
      /\ ~(n < k + 1) => k + 1 <= n
      /\ ~(n < k + 5 + l) => k + 5 + l <= n
  <2>1. z = k + 6 + l + r
    BY DEF EntryAt
  <2> HIDE DEF n, k, l, r, z
  <2> QED BY <1>1, <2>1, EntryFits
<1>2. CASE ~(k <= n + 1)
  <2>1. soFar = Refused
    BY <1>2 DEF TermsRead
  <2>2. ReadTerm(data, soFar) = Refused
    BY <2>1 DEF ReadTerm, Refused
  <2>3. ~(at[m] <= n + 1)
    BY <1>4, <1>2, Zenon
  <2> QED BY <2>2, <2>3 DEF TermsRead
<1>3. CASE k <= n + 1
  <2>1. soFar = [err |-> FALSE, val |-> before, next |-> k]
    BY <1>3 DEF TermsRead
  <2> HIDE DEF before, soFar
  <2>2. soFar.err = FALSE /\ soFar.val = before /\ soFar.next = k
    BY <2>1
  <2>3. CASE n < k + 1
    <3>1. ReadTerm(data, soFar) = Refused
      <4>1. EndsBefore(data, k, 2)
        BY <1>4, <2>3, Zenon DEF EndsBefore
      <4> QED BY <2>2, <4>1 DEF ReadTerm
    <3>2. ~(at[m] <= n + 1)
      BY <1>4, <2>3, Zenon
    <3> QED BY <3>1, <3>2 DEF TermsRead, soFar
  <2>4. CASE ~(n < k + 1)
    <3>1. GetU16(data, k) = l
      <4>1. Holds(data, k, U16(l))
        BY <1>4, <2>4, Zenon DEF EntryAt
      <4> QED BY <1>1, <4>1, Read16 DEF EntryAt
    <3>2. ~EndsBefore(data, k, 2)
      BY <1>4, <2>4, Zenon DEF EndsBefore
    <3>3. EndsBefore(data, k + 2, l + 4) <=> n < k + 5 + l
      BY <1>4, Zenon DEF EndsBefore
    <3>4. CASE n < k + 5 + l
      <4>1. ~(at[m] <= n + 1)
        BY <1>4, <3>4, Zenon
      <4>2. ReadTerm(data, soFar) = Refused
        BY <2>2, <3>1, <3>2, <3>3, <3>4 DEF ReadTerm
      <4> QED BY <4>1, <4>2 DEF TermsRead, soFar
    <3>5. CASE ~(n < k + 5 + l)
      <4>1. Slice(data, k + 2, l) = names[m] /\ Holds(data, k + 2 + l, U32(r))
        BY <1>4, <3>5, Zenon DEF EntryAt
      <4>2. GetU32(data, k + 2 + l) = r
        BY <1>4, <4>1, Read32 DEF EntryAt
      <4>3. EndsBefore(data, k + 2 + l + 4, r) <=> ~(at[m] <= n + 1)
        BY <1>4, Zenon DEF EndsBefore
      <4>4. CASE ~(at[m] <= n + 1)
        BY <2>2, <3>1, <3>2, <4>2, <4>3, <4>4 DEF ReadTerm, TermsRead, soFar
      <4>5. CASE at[m] <= n + 1
        <5>1. k + 2 + l + 4 + r = at[m]
          BY <1>4, Zenon
        <5>2. ReadTerm(data, soFar)
                = [err |-> FALSE,
                   val |-> WithEntry(before, names[m], [off |-> PlaceOf(k + 2 + l), ln |-> r]),
                   next |-> k + 2 + l + 4 + r]
          BY <2>2, <3>1, <3>2, <3>3, <3>5, <4>1, <4>2, <4>3, <4>5 DEF ReadTerm
        <5>3. WithEntry(before, names[m], meta[names[m]])
                = FirstTerms(names, meta, m)
          BY OneMore DEF before
        <5> QED BY <4>5, <5>1, <5>2, <5>3 DEF TermsRead, soFar, EntryAt
      <4> QED BY <4>4, <4>5
    <3> QED BY <3>4, <3>5
  <2> QED BY <2>3, <2>4
<1> QED BY <1>2, <1>3

\* All the terms, as far as the bytes reach.
LEMMA ReadTermsGives ==
  ASSUME NEW data \in Seq(Int), NEW n \in Nat, NEW names, NEW lens, NEW meta,
         NEW at \in [0..n -> Nat], at[0] >= 1, at[0] <= Len(data) + 1,
         \A m \in 1..n : EntryAt(names, lens, meta, at, data, m)
  PROVE  ReadTerms(data, at[0], n) = TermsRead(names, meta, at, data, n)
<1> DEFINE first == ReadNothing(at[0])
           Solves(h) == h = [m \in 0..n |-> IF m = 0 THEN first
                                            ELSE ReadTerm(data, h[m - 1])]
           g == [m \in 0..n |-> TermsRead(names, meta, at, data, m)]
           after == CHOOSE h : Solves(h)
<1>1. TermsRead(names, meta, at, data, 0) = first
  <2>1. FirstTerms(names, meta, 0) = <<>>
    <3>1. {names[i] : i \in 1..0} = 1..0
      OBVIOUS
    <3>2. [t \in 1..0 |-> meta[t]] = <<>>
      OBVIOUS
    <3> QED BY <3>1, <3>2 DEF FirstTerms
  <2> QED BY <2>1 DEF TermsRead, ReadNothing
<1>2. ASSUME NEW m \in 1..n
      PROVE  TermsRead(names, meta, at, data, m)
               = ReadTerm(data, TermsRead(names, meta, at, data, m - 1))
  <2>1. m - 1 \in 0..n /\ m \in Nat \ {0}
    OBVIOUS
  <2>2. at[m - 1] \in Nat
    BY <2>1
  <2> QED BY <2>1, <2>2, TermStep
<1>3. Solves(g)
  <2>1. ASSUME NEW m \in 0..n
        PROVE  TermsRead(names, meta, at, data, m)
                 = IF m = 0 THEN first ELSE ReadTerm(data, g[m - 1])
    <3>1. CASE m = 0
      BY <1>1, <3>1
    <3>2. CASE m # 0
      <4>1. m \in 1..n /\ m - 1 \in 0..n
        BY <3>2
      <4>2. g[m - 1] = TermsRead(names, meta, at, data, m - 1)
        BY <4>1
      <4> HIDE DEF g
      <4> QED BY <1>2, <3>2, <4>1, <4>2
    <3> QED BY <3>1, <3>2
  <2>2. g = [m \in 0..n |-> TermsRead(names, meta, at, data, m)]
    OBVIOUS
  <2> HIDE DEF g, first
  <2> QED BY <2>1, <2>2
<1>4. Solves(after)
  <2> HIDE DEF Solves, g
  <2> QED BY <1>3
<1> HIDE DEF after
<1>5. after[0] = first /\ \A m \in 1..n : after[m] = ReadTerm(data, after[m - 1])
  <2> HIDE DEF first
  <2> QED BY <1>4
<1>6. g[0] = first /\ \A m \in 1..n : g[m] = ReadTerm(data, g[m - 1])
  <2>1. \A m \in 0..n : g[m] = TermsRead(names, meta, at, data, m)
    OBVIOUS
  <2> HIDE DEF g, first
  <2>2. 0 \in 0..n /\ \A m \in 1..n : m \in 0..n /\ m - 1 \in 0..n
    OBVIOUS
  <2> QED BY <1>1, <1>2, <2>1, <2>2
<1>7. after[n] = TermsRead(names, meta, at, data, n)
  <2> HIDE DEF g, first
  <2>1. StepAlike(after, g, n)
    BY <1>5, <1>6 DEF StepAlike
  <2>2. Agree(after, g, n) /\ n \in 0..n
    BY <2>1, AgreeUpwards
  <2> QED BY <2>2 DEF Agree, g
<1>8. ReadTerms(data, at[0], n) = after[n]
  BY DEF ReadTerms, after
<1> QED BY <1>7, <1>8

\* The ways through parseHeader.
LEMMA HeaderCases ==
  ASSUME NEW data, NEW nDocs, NEW nTerms, NEW titles, NEW terms,
         nDocs = GetU32(data, 9), nTerms = GetU32(data, 13),
         titles = ReadTitles(data, 17 + 4 * nDocs, nDocs),
         terms = ReadTerms(data, titles.next, nTerms)
  PROVE  /\ \/ Len(data) < 16 \/ SubSeq(data, 1, 8) # fileMagic
            \/ EndsBefore(data, 17, 4 * nDocs) \/ titles.err \/ terms.err
            => parseHeader(data).err
         /\ ~(Len(data) < 16) /\ SubSeq(data, 1, 8) = fileMagic
              /\ ~EndsBefore(data, 17, 4 * nDocs) /\ ~titles.err /\ ~terms.err
            => /\ ~parseHeader(data).err
               /\ parseHeader(data).val
                    = [docLens |-> [d \in 1..nDocs |-> GetU32(data, 17 + 4 * (d - 1))],
                       titles  |-> titles.val,
                       terms   |-> terms.val]
<1>1. parseHeader(data)
        = IF Len(data) < 16 THEN Failed
          ELSE IF SubSeq(data, 1, 8) # fileMagic THEN Failed
          ELSE IF EndsBefore(data, 17, 4 * nDocs) THEN Failed
          ELSE IF titles.err THEN Failed
          ELSE IF terms.err THEN Failed
          ELSE Decoded([docLens |-> [d \in 1..nDocs |-> GetU32(data, 17 + 4 * (d - 1))],
                        titles  |-> titles.val,
                        terms   |-> terms.val])
  BY Zenon DEF parseHeader
<1>2. Failed.err
  BY DEF Failed
<1> DEFINE v == [docLens |-> [d \in 1..nDocs |-> GetU32(data, 17 + 4 * (d - 1))],
                 titles  |-> titles.val,
                 terms   |-> terms.val]
<1>3. ~Decoded(v).err /\ Decoded(v).val = v
  BY DEF Decoded
<1>4. parseHeader(data)
        = IF Len(data) < 16 THEN Failed
          ELSE IF SubSeq(data, 1, 8) # fileMagic THEN Failed
          ELSE IF EndsBefore(data, 17, 4 * nDocs) THEN Failed
          ELSE IF titles.err THEN Failed
          ELSE IF terms.err THEN Failed
          ELSE Decoded(v)
  BY <1>1
<1> HIDE DEF v
<1>5. /\ \/ Len(data) < 16 \/ SubSeq(data, 1, 8) # fileMagic
         \/ EndsBefore(data, 17, 4 * nDocs) \/ titles.err \/ terms.err
         => parseHeader(data).err
      /\ ~(Len(data) < 16) /\ SubSeq(data, 1, 8) = fileMagic
           /\ ~EndsBefore(data, 17, 4 * nDocs) /\ ~titles.err /\ ~terms.err
         => ~parseHeader(data).err /\ parseHeader(data).val = v
  BY <1>2, <1>3, <1>4
<1> QED BY <1>5 DEF v

\* The places of an image, as far as a beginning of it reaches.
LEMMA BeginningLayout ==
  ASSUME NEW ix \in Indexes, CanBeSaved(ix), NEW data \in Seq(Int),
         Begins(data, Image(ix)), ~(Len(data) < 16)
  PROVE  LET docs  == ix.docs
             terms == Sorted(DOMAIN ix.postings)
         IN  /\ SubSeq(data, 1, 8) = fileMagic
             /\ GetU32(data, 9) = Len(docs) /\ GetU32(data, 13) = Len(terms)
             /\ \A d \in 1..Len(docs) :
                  16 + 4 * d <= Len(data) => GetU32(data, 17 + 4 * (d - 1)) = docs[d].len
<1> DEFINE docs == ix.docs
           terms == Sorted(DOMAIN ix.postings)
           all == Image(ix)
<1>1. Len(docs) \in 0..(WordSize - 1) /\ \A d \in 1..Len(docs) : docs[d].len \in 0..(WordSize - 1)
  BY IndexFacts
<1>2. Len(terms) \in 0..(WordSize - 1)
  <2>1. /\ Cardinality(DOMAIN ix.postings) \in 0..(WordSize - 1)
        /\ DOMAIN ix.postings \in SUBSET Seq(Int) /\ IsFiniteSet(DOMAIN ix.postings)
    BY IndexFacts
  <2>2. Sorted(DOMAIN ix.postings) \in [1..Cardinality(DOMAIN ix.postings) -> DOMAIN ix.postings]
    BY <2>1, SortedTerms
  <2> QED BY <2>1, <2>2
<1>3. /\ all \in Seq(Int) /\ Holds(all, 1, fileMagic) /\ Holds(all, 9, U32(Len(docs)))
      /\ Holds(all, 13, U32(Len(terms)))
      /\ \A d \in 1..Len(docs) : Holds(all, 17 + 4 * (d - 1), U32(docs[d].len))
  BY ImageLayout
<1> HIDE DEF all
<1>4. Begins(data, all)
  BY DEF all
<1>5. ASSUME NEW z \in Seq(Int), NEW at \in Nat, at >= 1, Holds(all, at, z),
             at + Len(z) - 1 <= Len(data)
      PROVE  Holds(data, at, z) /\ Slice(data, at, Len(z)) = z
  BY <1>3, <1>4, <1>5, BeginningHolds DEF Shows
<1>6. SubSeq(data, 1, 8) = fileMagic
  <2>1. fileMagic \in Seq(Int) /\ Len(fileMagic) = 8
    BY DEF fileMagic
  <2>2. 1 \in Nat /\ 1 >= 1 /\ 1 + Len(fileMagic) - 1 <= Len(data) /\ 1 + Len(fileMagic) - 1 = 8
    BY <2>1
  <2>3. Slice(data, 1, Len(fileMagic)) = fileMagic
    BY <1>3, <1>5, <2>1, <2>2, Zenon
  <2> QED BY <2>2, <2>3, Zenon DEF Slice
<1>7. ASSUME NEW k \in 0..(WordSize - 1), NEW at \in Nat, at >= 1, Holds(all, at, U32(k)),
             at + 3 <= Len(data)
      PROVE  GetU32(data, at) = k
  <2>1. U32(k) \in Seq(Int) /\ Len(U32(k)) = 4
    BY Number32
  <2>2. at + Len(U32(k)) - 1 <= Len(data)
    BY <1>7, <2>1
  <2>3. Holds(data, at, U32(k))
    BY <1>5, <1>7, <2>1, <2>2, Zenon
  <2> QED BY <2>3, Read32
<1>8. GetU32(data, 9) = Len(docs) /\ GetU32(data, 13) = Len(terms)
  <2>1. /\ 9 \in Nat /\ 9 >= 1 /\ 9 + 3 <= Len(data)
        /\ 13 \in Nat /\ 13 >= 1 /\ 13 + 3 <= Len(data)
    OBVIOUS
  <2> HIDE DEF docs, terms
  <2> QED BY <1>1, <1>2, <1>3, <1>7, <2>1, Zenon
<1>9. ASSUME NEW d \in 1..Len(docs), 16 + 4 * d <= Len(data)
      PROVE  GetU32(data, 17 + 4 * (d - 1)) = docs[d].len
  <2>1. d \in Nat /\ d >= 1
    BY <1>1
  <2>2. 17 + 4 * (d - 1) \in Nat /\ 17 + 4 * (d - 1) >= 1 /\ 17 + 4 * (d - 1) + 3 <= Len(data)
    <3> HIDE DEF docs
    <3> QED BY <1>9, <2>1
  <2> HIDE DEF docs
  <2> QED BY <1>1, <1>3, <1>7, <2>2, Zenon
<1> QED BY <1>6, <1>8, <1>9

\* The header of a file that holds an index, and the places of the lists in it.
HeaderOf(h, ix) ==
  /\ h.docLens = [d \in 1..Len(ix.docs) |-> ix.docs[d].len]
  /\ h.titles = [d \in 1..Len(ix.docs) |-> StoredTitle(ix.docs[d])]
  /\ DOMAIN h.terms = DOMAIN ix.postings
  /\ \A t \in DOMAIN ix.postings :
       Slice(Image(ix), h.terms[t].off, h.terms[t].ln) = encode(ix.postings[t])

\* Where the titles end, in the bytes of an index, and what comes before that.
TitlesAt(ix, at, data) ==
  /\ at \in [0..Len(ix.docs) -> Nat] /\ at[0] = 17 + 4 * Len(ix.docs)
  /\ \A d \in 1..Len(ix.docs) :
       LET title == StoredTitle(ix.docs[d])
       IN  /\ at[d] = at[d - 1] + 2 + Len(title)
           /\ at[d] <= Len(data) + 1
           /\ Holds(data, at[d - 1], U16(Len(title)))
           /\ Holds(data, at[d - 1] + 2, title)

\* The same of the terms and their posting lists.
TermsAt(ix, at, data) ==
  LET terms == Sorted(DOMAIN ix.postings)
  IN  /\ at \in [0..Len(terms) -> Nat] /\ at[Len(terms)] = Len(data) + 1
      /\ \A n \in 1..Len(terms) :
           LET t   == terms[n]
               raw == encode(ix.postings[t])
           IN  /\ at[n] = at[n - 1] + 6 + Len(t) + Len(raw)
               /\ at[n] <= Len(data) + 1
               /\ Holds(data, at[n - 1], U16(Len(t))) /\ Holds(data, at[n - 1] + 2, t)
               /\ Holds(data, at[n - 1] + 2 + Len(t), U32(Len(raw)))
               /\ Holds(data, at[n - 1] + 6 + Len(t), raw)

LEMMA ImagePlaces ==
  ASSUME NEW ix \in Indexes, CanBeSaved(ix)
  PROVE  /\ Image(ix) \in Seq(Int) /\ 16 + 4 * Len(ix.docs) <= Len(Image(ix))
         /\ \E titleAt, termAt : /\ TitlesAt(ix, titleAt, Image(ix))
                                 /\ TermsAt(ix, termAt, Image(ix))
                                 /\ termAt[0] = titleAt[Len(ix.docs)]
<1> HIDE DEF Image
<1> QED BY ImageLayout DEF TitlesAt, TermsAt

\* What never falls is least at the beginning.
LEMMA NeverFalls ==
  ASSUME NEW n \in Nat, NEW f \in [0..n -> Nat], \A m \in 1..n : f[m - 1] <= f[m]
  PROVE  \A m \in 0..n : f[0] <= f[m]
<1> DEFINE T == {m \in 0..n : ~(f[0] <= f[m])}
<1> SUFFICES ASSUME T # {} PROVE FALSE
  OBVIOUS
<1>1. T \in SUBSET Nat
  OBVIOUS
<1>2. PICK m \in T : \A k \in T : m <= k
  <2> HIDE DEF T
  <2> QED BY <1>1, LeastExists
<1>3. m # 0 /\ m \in 0..n /\ ~(f[0] <= f[m])
  BY DEF T
<1>4. m - 1 \in 0..n /\ ~(m <= m - 1) /\ m \in 1..n /\ 0 \in 0..n
  BY <1>3
<1>5. m - 1 \notin T
  <2> HIDE DEF T
  <2> QED BY <1>2, <1>4
<1>6. f[0] <= f[m - 1] /\ f[m - 1] <= f[m]
  BY <1>4, <1>5
<1>7. f[0] \in Nat /\ f[m - 1] \in Nat /\ f[m] \in Nat
  BY <1>4
<1> QED BY <1>3, <1>6, <1>7

LEMMA TitlesOfBeginning ==
  ASSUME NEW ix \in Indexes, CanBeSaved(ix), NEW data \in Seq(Int), Begins(data, Image(ix)),
         16 + 4 * Len(ix.docs) <= Len(data), NEW at, TitlesAt(ix, at, Image(ix))
  PROVE  LET n     == Len(ix.docs)
             read  == ReadTitles(data, 17 + 4 * n, n)
         IN  /\ at[n] <= Len(data) + 1
                  => /\ ~read.err /\ read.next = at[n]
                     /\ read.val = [d \in 1..n |-> StoredTitle(ix.docs[d])]
             /\ ~(at[n] <= Len(data) + 1) => read.err
             /\ at[n] \in Nat /\ at[n] >= 1 /\ at[n] <= Len(Image(ix)) + 1
<1> DEFINE docs == ix.docs
           n == Len(docs)
           all == Image(ix)
           vals == [d \in 1..n |-> StoredTitle(docs[d])]
<1>1. /\ n \in Nat
      /\ \A d \in 1..n : /\ StoredTitle(docs[d]) \in Seq(Int)
                         /\ Len(StoredTitle(docs[d])) \in 0..(HalfSize - 1)
  <2>1. n \in 0..(WordSize - 1)
    BY IndexFacts
  <2>2. \A d \in 1..n : /\ StoredTitle(docs[d]) \in Seq(Int)
                        /\ Len(StoredTitle(docs[d])) \in 0..(HalfSize - 1)
    BY IndexFacts
  <2>3. n \in Nat
    <3> HIDE DEF n
    <3> QED BY <2>1
  <2> QED BY <2>2, <2>3
<1>2. all \in Seq(Int) /\ 16 + 4 * n <= Len(all) /\ Begins(data, all)
  BY ImagePlaces
<1>3. /\ at \in [0..n -> Nat] /\ at[0] = 17 + 4 * n
      /\ \A d \in 1..n : /\ at[d] = at[d - 1] + 2 + Len(StoredTitle(docs[d]))
                         /\ at[d] <= Len(all) + 1
                         /\ Holds(all, at[d - 1], U16(Len(StoredTitle(docs[d]))))
                         /\ Holds(all, at[d - 1] + 2, StoredTitle(docs[d]))
  BY DEF TitlesAt
<1>4. at[0] >= 1 /\ at[0] <= Len(data) + 1 /\ Len(data) \in Nat /\ 16 + 4 * n <= Len(data)
  <2>1. 16 + 4 * n <= Len(data)
    OBVIOUS
  <2> HIDE DEF n
  <2> QED BY <1>1, <1>3, <2>1
<1> HIDE DEF all, n, docs
<1>5. \A d \in 1..n : d - 1 \in 0..n /\ d \in 0..n
  BY <1>1
<1>6. \A d \in 0..n : at[d] \in Nat
  BY <1>3
<1>7. \A d \in 0..n : at[0] <= at[d]
  <2>1. ASSUME NEW d \in 1..n PROVE at[d - 1] <= at[d]
    <3>1. /\ at[d - 1] \in Nat /\ Len(StoredTitle(docs[d])) \in Nat
          /\ at[d] = at[d - 1] + 2 + Len(StoredTitle(docs[d]))
      BY <1>1, <1>3, <1>5, <1>6
    <3> QED BY <3>1
  <2> QED BY <1>1, <1>3, <2>1, NeverFalls
<1>8. \A d \in 1..n : vals[d] = StoredTitle(docs[d])
  OBVIOUS
<1> HIDE DEF vals
<1>9. ASSUME NEW d \in 1..n
      PROVE  /\ vals[d] \in Seq(Int) /\ Len(vals[d]) \in 0..(HalfSize - 1)
             /\ at[d] = at[d - 1] + 2 + Len(vals[d]) /\ at[d - 1] >= 1
             /\ at[d - 1] + 1 <= Len(data) => Holds(data, at[d - 1], U16(Len(vals[d])))
             /\ at[d] <= Len(data) + 1
                  => Slice(data, at[d - 1] + 2, Len(vals[d])) = vals[d]
  <2> DEFINE v == vals[d]
             l == Len(vals[d])
             k == at[d - 1]
             z == at[d]
  <2>1. /\ v \in Seq(Int) /\ l \in 0..(HalfSize - 1) /\ l \in Nat
        /\ z = k + 2 + l /\ Holds(all, k, U16(l)) /\ Holds(all, k + 2, v)
    BY <1>1, <1>3, <1>8
  <2>2. k \in Nat /\ k >= 1 /\ z \in Nat
    <3>1. k \in Nat /\ z \in Nat /\ at[0] <= k /\ at[0] \in Nat
      BY <1>1, <1>5, <1>6, <1>7
    <3> HIDE DEF k, z
    <3> QED BY <1>4, <3>1
  <2>3. U16(l) \in Seq(Int) /\ Len(U16(l)) = 2 /\ l = Len(v)
    BY <2>1, Number16
  <2> HIDE DEF v, l, k, z
  <2>4. k + 1 <= Len(data) => Holds(data, k, U16(l))
    <3>1. SUFFICES ASSUME k + 1 <= Len(data) PROVE Holds(data, k, U16(l))
      OBVIOUS
    <3>2. k + Len(U16(l)) - 1 <= Len(data)
      BY <2>2, <2>3, <3>1
    <3> QED BY <1>2, <2>1, <2>2, <2>3, <3>2, BeginningHolds, Zenon DEF Shows
  <2>5. z <= Len(data) + 1 => Slice(data, k + 2, l) = v
    <3>1. SUFFICES ASSUME z <= Len(data) + 1 PROVE Slice(data, k + 2, l) = v
      OBVIOUS
    <3>2. (k + 2) + Len(v) - 1 <= Len(data) /\ k + 2 \in Nat /\ k + 2 >= 1
      BY <1>4, <2>1, <2>2, <2>3, <3>1
    <3>3. Holds(data, k + 2, v) /\ Slice(data, k + 2, Len(v)) = v
      <4>1. Shows(data, k + 2, v)
        BY <1>2, <2>1, <3>2, BeginningHolds, Zenon
      <4> QED BY <4>1 DEF Shows
    <3> QED BY <2>3, <3>3
  <2> QED BY <2>1, <2>2, <2>4, <2>5 DEF v, l, k, z
<1>10. ReadTitles(data, at[0], n) = TitlesRead(vals, at, data, n)
  BY <1>1, <1>3, <1>4, <1>9, ReadTitlesGives
<1>11. n \in 0..n /\ at[n] \in Nat /\ at[n] >= 1
  <2>1. n \in 0..n /\ at[n] \in Nat /\ at[0] <= at[n] /\ at[0] \in Nat
    BY <1>1, <1>6, <1>7
  <2> QED BY <1>4, <2>1
<1>12. [i \in 1..n |-> vals[i]] = [d \in 1..n |-> StoredTitle(docs[d])]
  BY <1>8
<1>13. at[n] <= Len(all) + 1
  <2>1. CASE n = 0
    BY <1>2, <1>3, <2>1
  <2>2. CASE n # 0
    <3>1. n \in 1..n
      BY <1>1, <2>2
    <3> QED BY <1>3, <3>1
  <2> QED BY <2>1, <2>2
<1>14. CASE at[n] <= Len(data) + 1
  <2>1. TitlesRead(vals, at, data, n)
          = [err |-> FALSE, val |-> [d \in 1..n |-> StoredTitle(docs[d])], next |-> at[n]]
    BY <1>12, <1>14 DEF TitlesRead
  <2> DEFINE read == ReadTitles(data, 17 + 4 * n, n)
  <2>2. read = [err |-> FALSE, val |-> [d \in 1..n |-> StoredTitle(docs[d])], next |-> at[n]]
    BY <1>3, <1>10, <2>1
  <2> HIDE DEF read
  <2>3. ~read.err /\ read.next = at[n] /\ read.val = [d \in 1..n |-> StoredTitle(docs[d])]
    BY <2>2
  <2> QED BY <1>11, <1>13, <1>14, <2>3 DEF read, n, docs, all
<1>15. CASE ~(at[n] <= Len(data) + 1)
  <2> DEFINE read == ReadTitles(data, 17 + 4 * n, n)
  <2>1. read = Refused
    BY <1>3, <1>10, <1>15 DEF TitlesRead
  <2> HIDE DEF read
  <2>2. read.err
    BY <2>1 DEF Refused
  <2> QED BY <1>11, <1>13, <1>15, <2>2 DEF read, n, docs, all
<1> QED BY <1>14, <1>15

\* Each term has one place in the order, so its list has one place in the file.
LEMMA ListPlaces ==
  ASSUME NEW ix \in Indexes, CanBeSaved(ix), NEW at
  PROVE  LET terms == Sorted(DOMAIN ix.postings)
         IN  \E meta :
               /\ DOMAIN meta = DOMAIN ix.postings
               /\ \A m \in 1..Len(terms) :
                    meta[terms[m]]
                      = [off |-> PlaceOf(at[m - 1] + 2 + Len(terms[m])),
                         ln  |-> Len(encode(ix.postings[terms[m]]))]
<1> DEFINE D == DOMAIN ix.postings
           terms == Sorted(D)
           n == Len(terms)
           Entry(m) == [off |-> PlaceOf(at[m - 1] + 2 + Len(terms[m])),
                        ln  |-> Len(encode(ix.postings[terms[m]]))]
           Place(t) == CHOOSE m \in 1..n : terms[m] = t
           meta == [t \in D |-> Entry(Place(t))]
<1>1. /\ n \in Nat /\ \A m \in 1..n : terms[m] \in D
      /\ \A l, m \in 1..n : terms[l] = terms[m] => l = m
  <2>1. D \in SUBSET Seq(Int) /\ IsFiniteSet(D)
    BY IndexFacts
  <2> HIDE DEF D
  <2>2. /\ Cardinality(D) \in Nat /\ terms \in [1..Cardinality(D) -> D]
        /\ \A l, m \in 1..Cardinality(D) : terms[l] = terms[m] => l = m
    BY <2>1, SortedTerms
  <2> HIDE DEF terms
  <2>3. n = Cardinality(D)
    BY <2>2
  <2> QED BY <2>2, <2>3
<1> HIDE DEF terms, n, D
<1>2. ASSUME NEW m \in 1..n PROVE Place(terms[m]) = m
  BY <1>1
<1> HIDE DEF Place, Entry
<1>3. \A m \in 1..n : meta[terms[m]] = Entry(m)
  BY <1>1, <1>2
<1>4. DOMAIN meta = D
  OBVIOUS
<1> HIDE DEF meta
<1> QED BY <1>3, <1>4 DEF Entry, terms, n, D

LEMMA EntryParts ==
  ASSUME NEW n \in Nat, NEW k \in Nat, NEW l \in Nat, k + 5 + l <= n, k >= 1, NEW a, NEW b,
         a = l, b = 4
  PROVE  /\ (k + 2) + a - 1 <= n /\ k + 2 \in Nat /\ k + 2 >= 1
         /\ (k + 2 + l) + b - 1 <= n /\ k + 2 + l \in Nat /\ k + 2 + l >= 1
OBVIOUS

LEMMA TermsOfBeginning ==
  ASSUME NEW ix \in Indexes, CanBeSaved(ix), NEW data \in Seq(Int), Begins(data, Image(ix)),
         NEW at, TermsAt(ix, at, Image(ix)), at[0] >= 1, at[0] <= Len(data) + 1
  PROVE  LET n    == Len(Sorted(DOMAIN ix.postings))
             read == ReadTerms(data, at[0], n)
         IN  /\ Len(data) < Len(Image(ix)) => read.err
             /\ ~(Len(data) < Len(Image(ix)))
                  => /\ ~read.err /\ DOMAIN read.val = DOMAIN ix.postings
                     /\ \A t \in DOMAIN ix.postings :
                          Slice(Image(ix), read.val[t].off, read.val[t].ln)
                            = encode(ix.postings[t])
<1> DEFINE D == DOMAIN ix.postings
           terms == Sorted(D)
           n == Len(terms)
           all == Image(ix)
           Raw(m) == encode(ix.postings[terms[m]])
           lens == [m \in 1..n |-> Len(Raw(m))]
<1>1. /\ n \in Nat /\ \A m \in 1..n : terms[m] \in D
      /\ {terms[m] : m \in 1..n} = D
  <2>1. D \in SUBSET Seq(Int) /\ IsFiniteSet(D)
    BY IndexFacts
  <2> HIDE DEF D
  <2>2. /\ Cardinality(D) \in Nat /\ terms \in [1..Cardinality(D) -> D]
        /\ {terms[m] : m \in 1..Cardinality(D)} = D
    BY <2>1, SortedTerms
  <2> HIDE DEF terms
  <2>3. n = Cardinality(D)
    BY <2>2
  <2> QED BY <2>2, <2>3
<1>2. \A m \in 1..n : /\ terms[m] \in Seq(Int) /\ Len(terms[m]) \in 0..(HalfSize - 1)
                      /\ Raw(m) \in Seq(Int) /\ Len(Raw(m)) \in 0..(WordSize - 1)
  <2> HIDE DEF terms, n
  <2> QED BY <1>1, IndexFacts
<1>3. all \in Seq(Int) /\ Begins(data, all)
  BY ImagePlaces
<1>4. /\ at \in [0..n -> Nat] /\ at[n] = Len(all) + 1
      /\ \A m \in 1..n :
           /\ at[m] = at[m - 1] + 6 + Len(terms[m]) + Len(Raw(m))
           /\ at[m] <= Len(all) + 1
           /\ Holds(all, at[m - 1], U16(Len(terms[m]))) /\ Holds(all, at[m - 1] + 2, terms[m])
           /\ Holds(all, at[m - 1] + 2 + Len(terms[m]), U32(Len(Raw(m))))
           /\ Holds(all, at[m - 1] + 6 + Len(terms[m]), Raw(m))
  <2> HIDE DEF all
  <2> QED BY DEF TermsAt, all
<1>5. PICK meta :
        /\ DOMAIN meta = D
        /\ \A m \in 1..n :
             meta[terms[m]] = [off |-> PlaceOf(at[m - 1] + 2 + Len(terms[m])),
                               ln  |-> Len(Raw(m))]
  BY ListPlaces
<1> HIDE DEF all, terms, Raw, D
<1>6. \A m \in 1..n : lens[m] = Len(Raw(m))
  OBVIOUS
<1> HIDE DEF lens, n
<1>7. \A m \in 1..n : m - 1 \in 0..n /\ m \in 0..n
  BY <1>1
<1>8. \A m \in 0..n : at[m] \in Nat
  BY <1>4
<1>9. \A m \in 0..n : at[0] <= at[m]
  <2>1. ASSUME NEW m \in 1..n PROVE at[m - 1] <= at[m]
    <3>1. /\ at[m - 1] \in Nat /\ Len(terms[m]) \in Nat /\ Len(Raw(m)) \in Nat
          /\ at[m] = at[m - 1] + 6 + Len(terms[m]) + Len(Raw(m))
      BY <1>2, <1>4, <1>7, <1>8, LenProperties
    <3> QED BY <3>1
  <2> QED BY <1>1, <1>4, <2>1, NeverFalls
<1>10. ASSUME NEW m \in 1..n
       PROVE  /\ EntryAt(terms, lens, meta, at, data, m)
              /\ Slice(all, meta[terms[m]].off, meta[terms[m]].ln) = Raw(m)
  <2> DEFINE v == terms[m]
             w == Raw(m)
             l == Len(v)
             r == Len(w)
             k == at[m - 1]
             z == at[m]
  <2>1. /\ v \in Seq(Int) /\ l \in 0..(HalfSize - 1) /\ l \in Nat
        /\ w \in Seq(Int) /\ r \in 0..(WordSize - 1) /\ r \in Nat /\ lens[m] = r
        /\ z = k + 6 + l + r /\ z <= Len(all) + 1
        /\ Holds(all, k, U16(l)) /\ Holds(all, k + 2, v)
        /\ Holds(all, k + 2 + l, U32(r)) /\ Holds(all, k + 6 + l, w)
        /\ meta[v] = [off |-> PlaceOf(k + 2 + l), ln |-> r]
    BY <1>2, <1>4, <1>5, <1>6, LenProperties
  <2>2. k \in Nat /\ k >= 1 /\ z \in Nat
    <3>1. m - 1 \in 0..n /\ m \in 0..n /\ 0 \in 0..n
      BY <1>1, <1>7
    <3>2. k \in Nat /\ z \in Nat /\ at[0] <= k /\ at[0] \in Nat
      BY <1>8, <1>9, <3>1, Zenon
    <3> HIDE DEF k, z
    <3> QED BY <3>2
  <2>3. /\ U16(l) \in Seq(Int) /\ Len(U16(l)) = 2 /\ l = Len(v)
        /\ U32(r) \in Seq(Int) /\ Len(U32(r)) = 4 /\ r = Len(w)
    BY <2>1, Number16, Number32
  <2> HIDE DEF v, w, l, r, k, z
  <2>4. k + 1 <= Len(data) => Holds(data, k, U16(l))
    <3>1. SUFFICES ASSUME k + 1 <= Len(data) PROVE Holds(data, k, U16(l))
      OBVIOUS
    <3>2. k + Len(U16(l)) - 1 <= Len(data)
      BY <2>2, <2>3, <3>1
    <3> QED BY <1>3, <2>1, <2>2, <2>3, <3>2, BeginningHolds, Zenon DEF Shows
  <2>5. k + 5 + l <= Len(data)
          => Slice(data, k + 2, l) = v /\ Holds(data, k + 2 + l, U32(r))
    <3>1. SUFFICES ASSUME k + 5 + l <= Len(data)
                   PROVE  Slice(data, k + 2, l) = v /\ Holds(data, k + 2 + l, U32(r))
      OBVIOUS
    <3>2. Len(data) \in Nat
      OBVIOUS
    <3>3. /\ (k + 2) + Len(v) - 1 <= Len(data) /\ k + 2 \in Nat /\ k + 2 >= 1
          /\ (k + 2 + l) + Len(U32(r)) - 1 <= Len(data)
          /\ k + 2 + l \in Nat /\ k + 2 + l >= 1
      BY <2>1, <2>2, <2>3, <3>1, <3>2, EntryParts
    <3>4. Holds(data, k + 2, v) /\ Slice(data, k + 2, Len(v)) = v
      <4>1. Shows(data, k + 2, v)
        BY <1>3, <2>1, <3>3, BeginningHolds, Zenon
      <4> QED BY <4>1 DEF Shows
    <3>5. Holds(data, k + 2 + l, U32(r))
      BY <1>3, <2>1, <2>3, <3>3, BeginningHolds, Zenon DEF Shows
    <3> QED BY <2>3, <3>4, <3>5
  <2>6. Slice(all, k + 6 + l, r) = w
    <3>1. Begins(all, all)
      BY <1>3 DEF Begins
    <3>2. (k + 6 + l) + Len(w) - 1 <= Len(all) /\ k + 6 + l \in Nat /\ k + 6 + l >= 1
      <4>1. Len(all) \in Nat
        BY <1>3
      <4> QED BY <2>1, <2>2, <2>3, <4>1
    <3>3. Holds(all, k + 6 + l, w) /\ Slice(all, k + 6 + l, Len(w)) = w
      <4>1. Shows(all, k + 6 + l, w)
        BY <1>3, <2>1, <3>1, <3>2, BeginningHolds, Zenon
      <4> QED BY <4>1 DEF Shows
    <3> QED BY <2>3, <3>3
  <2>7. PlaceOf(k + 2 + l) = k + 6 + l
    BY <2>1, <2>2 DEF PlaceOf
  <2>8. meta[v].off = k + 6 + l /\ meta[v].ln = r
    BY <2>1, <2>7
  <2>9. Slice(all, meta[v].off, meta[v].ln) = w
    BY <2>6, <2>8
  <2>10. EntryAt(terms, lens, meta, at, data, m)
    BY <2>1, <2>2, <2>4, <2>5, Zenon DEF EntryAt, v, w, l, r, k, z
  <2> QED BY <2>9, <2>10 DEF v, w
<1>11. ReadTerms(data, at[0], n) = TermsRead(terms, meta, at, data, n)
  BY <1>1, <1>4, <1>10, ReadTermsGives
<1> DEFINE read == ReadTerms(data, at[0], n)
<1>12. CASE Len(data) < Len(all)
  <2>1. ~(at[n] <= Len(data) + 1)
    BY <1>3, <1>4, <1>12
  <2>2. read = Refused
    BY <1>11, <2>1 DEF TermsRead
  <2> HIDE DEF read
  <2>3. read.err
    BY <2>2 DEF Refused
  <2> QED BY <1>12, <2>3 DEF read, n, terms, D, all
<1>13. CASE ~(Len(data) < Len(all))
  <2>1. at[n] <= Len(data) + 1
    BY <1>3, <1>4, <1>13
  <2>2. read = [err |-> FALSE, val |-> FirstTerms(terms, meta, n), next |-> at[n]]
    BY <1>11, <2>1 DEF TermsRead
  <2>3. FirstTerms(terms, meta, n) = [t \in D |-> meta[t]]
    BY <1>1 DEF FirstTerms
  <2> HIDE DEF read
  <2>4. ~read.err /\ DOMAIN read.val = D /\ \A t \in D : read.val[t] = meta[t]
    BY <2>2, <2>3
  <2>5. ASSUME NEW t \in D
        PROVE  Slice(all, read.val[t].off, read.val[t].ln) = encode(ix.postings[t])
    <3>1. PICK m \in 1..n : t = terms[m]
      BY <1>1
    <3> QED BY <1>10, <2>4, <3>1 DEF Raw
  <2> QED BY <1>13, <2>4, <2>5 DEF read, n, terms, D, all
<1> QED BY <1>12, <1>13 DEF all

-----------------------------------------------------------------------------
(* An index that was saved to the end is read back, and nothing less is.   *)

\* parseHeader accepts the bytes of a saved index only if none of them is missing, and
\* then gives back its lengths and titles, a place for each of its terms and none for
\* any other, where the bytes are those the list was encoded to.
THEOREM CutFileRefused ==
  ASSUME NEW ix \in Indexes, CanBeSaved(ix), NEW data \in Seq(Int), Begins(data, Image(ix))
  PROVE  /\ data # Image(ix) => parseHeader(data).err
         /\ data = Image(ix) => /\ ~parseHeader(data).err
                                /\ HeaderOf(parseHeader(data).val, ix)
<1> DEFINE all == Image(ix)
           nD == Len(ix.docs)
           nT == Len(Sorted(DOMAIN ix.postings))
           n == Len(data)
           titles == ReadTitles(data, 17 + 4 * nD, nD)
           terms == ReadTerms(data, titles.next, nT)
<1>1. PICK titleAt, termAt : /\ TitlesAt(ix, titleAt, all) /\ TermsAt(ix, termAt, all)
                             /\ termAt[0] = titleAt[nD]
  BY ImagePlaces
<1>2. /\ all \in Seq(Int) /\ 16 + 4 * nD <= Len(all) /\ nD \in Nat /\ n \in Nat
      /\ Len(all) \in Nat /\ n <= Len(all)
  BY ImagePlaces, IndexFacts, LenProperties DEF Begins
<1>3. n = Len(all) <=> data = all
  <2> HIDE DEF all
  <2>1. \A i \in 1..n : data[i] = all[i]
    BY DEF Begins, all
  <2>2. n = Len(all) => data = all
    BY <1>2, <2>1, SeqEqual
  <2> QED BY <2>2
<1>4. n < Len(all) <=> data # all
  <2> HIDE DEF all, n
  <2> QED BY <1>2, <1>3
<1> HIDE DEF all
<1>5. CASE n < 16
  <2>1. parseHeader(data).err
    BY <1>5, HeaderCases
  <2>2. n < Len(all)
    <3> HIDE DEF n, nD
    <3> QED BY <1>2, <1>5
  <2> QED BY <1>4, <2>1, <2>2 DEF all
<1>6. CASE ~(n < 16)
  <2>1. /\ SubSeq(data, 1, 8) = fileMagic /\ GetU32(data, 9) = nD /\ GetU32(data, 13) = nT
        /\ \A d \in 1..nD :
             16 + 4 * d <= n => GetU32(data, 17 + 4 * (d - 1)) = ix.docs[d].len
    BY <1>6, BeginningLayout
  <2>2. /\ \/ EndsBefore(data, 17, 4 * nD) \/ titles.err \/ terms.err
           => parseHeader(data).err
        /\ ~EndsBefore(data, 17, 4 * nD) /\ ~titles.err /\ ~terms.err
           => /\ ~parseHeader(data).err
              /\ parseHeader(data).val
                   = [docLens |-> [d \in 1..nD |-> GetU32(data, 17 + 4 * (d - 1))],
                      titles  |-> titles.val,
                      terms   |-> terms.val]
    <3>1. nD = GetU32(data, 9) /\ nT = GetU32(data, 13)
      BY <2>1
    <3> HIDE DEF nD, nT
    <3> QED BY <1>6, <2>1, <3>1, HeaderCases
  <2>3. EndsBefore(data, 17, 4 * nD) <=> n < 16 + 4 * nD
    <3> HIDE DEF nD
    <3> QED BY <1>2 DEF EndsBefore
  <2>4. CASE n < 16 + 4 * nD
    <3>1. n < Len(all)
      <4> HIDE DEF n, nD
      <4> QED BY <1>2, <2>4
    <3> QED BY <1>4, <2>2, <2>3, <2>4, <3>1, Zenon DEF all
  <2>5. CASE ~(n < 16 + 4 * nD)
    <3>1. 16 + 4 * nD <= n
      <4> HIDE DEF n, nD
      <4> QED BY <1>2, <2>5
    <3>2. /\ titleAt[nD] <= n + 1
               => /\ ~titles.err /\ titles.next = titleAt[nD]
                  /\ titles.val = [d \in 1..nD |-> StoredTitle(ix.docs[d])]
          /\ ~(titleAt[nD] <= n + 1) => titles.err
          /\ titleAt[nD] \in Nat /\ titleAt[nD] >= 1 /\ titleAt[nD] <= Len(all) + 1
      BY <1>1, <3>1, TitlesOfBeginning DEF all
    <3>3. CASE ~(titleAt[nD] <= n + 1)
      <4>1. n < Len(all)
        <5> HIDE DEF n, nD
        <5> QED BY <1>2, <3>2, <3>3
      <4> HIDE DEF titles
      <4> QED BY <1>4, <2>2, <3>2, <3>3, <4>1, Zenon DEF all
    <3>4. CASE titleAt[nD] <= n + 1
      <4> DEFINE read == ReadTerms(data, termAt[0], nT)
      <4>1. /\ n < Len(all) => read.err
            /\ ~(n < Len(all))
                 => /\ ~read.err /\ DOMAIN read.val = DOMAIN ix.postings
                    /\ \A t \in DOMAIN ix.postings :
                         Slice(all, read.val[t].off, read.val[t].ln) = encode(ix.postings[t])
        <5>1. termAt[0] >= 1 /\ termAt[0] <= Len(data) + 1
          BY <1>1, <3>2, <3>4
        <5> QED BY <1>1, <5>1, TermsOfBeginning DEF all
      <4>2. terms = read
        BY <1>1, <3>2, <3>4
      <4>3. CASE n < Len(all)
        <5> HIDE DEF terms, titles, read, n
        <5> QED BY <1>4, <2>2, <4>1, <4>2, <4>3, Zenon DEF all
      <4>4. CASE ~(n < Len(all))
        <5>1. n = Len(all) /\ data = all
          BY <1>4, <4>4
        <5>2. \A d \in 1..nD : GetU32(data, 17 + 4 * (d - 1)) = ix.docs[d].len
          <6>1. ASSUME NEW d \in 1..nD PROVE 16 + 4 * d <= n
            <7> HIDE DEF n, nD
            <7> QED BY <1>2, <3>1
          <6> HIDE DEF nD
          <6> QED BY <2>1, <6>1, Zenon
        <5> DEFINE h == parseHeader(data).val
        <5>3. /\ ~parseHeader(data).err
              /\ h = [docLens |-> [d \in 1..nD |-> GetU32(data, 17 + 4 * (d - 1))],
                      titles  |-> titles.val,
                      terms   |-> terms.val]
          <6> HIDE DEF terms, titles, read, n, nD
          <6> QED BY <2>2, <2>3, <2>5, <3>2, <3>4, <4>1, <4>2, <4>4, Zenon
        <5> HIDE DEF h, titles, terms, read
        <5>4. /\ h.docLens = [d \in 1..nD |-> GetU32(data, 17 + 4 * (d - 1))]
              /\ h.titles = titles.val /\ h.terms = read.val
          BY <4>2, <5>3
        <5>5. h.docLens = [d \in 1..nD |-> ix.docs[d].len]
          <6> HIDE DEF nD
          <6> QED BY <5>2, <5>4
        <5>6. h.titles = [d \in 1..nD |-> StoredTitle(ix.docs[d])]
          BY <3>2, <3>4, <5>4
        <5>7. /\ DOMAIN h.terms = DOMAIN ix.postings
              /\ \A t \in DOMAIN ix.postings :
                   Slice(all, h.terms[t].off, h.terms[t].ln) = encode(ix.postings[t])
          BY <4>1, <4>4, <5>4
        <5>8. HeaderOf(h, ix)
          BY <5>5, <5>6, <5>7 DEF HeaderOf, all
        <5> QED BY <5>1, <5>3, <5>8 DEF h, all
      <4> QED BY <4>3, <4>4
    <3> QED BY <3>3, <3>4
  <2> QED BY <2>4, <2>5
<1> QED BY <1>5, <1>6

-----------------------------------------------------------------------------
(* The inductive invariant: the file is a beginning of the last index that *)
(* was saved, a save adds the rest of it, and a reader that no save has    *)
(* disturbed has mapped the file as it is; an open one has parsed all of   *)
(* it.                                                                     *)
FileInv ==
  /\ file \in Seq(Int) /\ unwritten \in Seq(Int)
  /\ writing \/ file # <<>>
       => asked \in Indexes /\ CanBeSaved(asked) /\ Begins(file, Image(asked))
  /\ writing => Image(asked) = file \o unwritten
  /\ reader # "closed" /\ ~touched => size = Len(file) /\ file # <<>>
  /\ reader = "open" /\ ~touched => file = Image(asked) /\ HeaderOf(header, asked)
  /\ reader # "open" => got = {}
  /\ LookupsExact

\* One byte more from what is left to write.
LEMMA OneByteMore ==
  ASSUME NEW f \in Seq(Int), NEW u \in Seq(Int), u # <<>>
  PROVE  /\ Append(f, Head(u)) \in Seq(Int) /\ Tail(u) \in Seq(Int)
         /\ f \o u = Append(f, Head(u)) \o Tail(u)
         /\ Begins(Append(f, Head(u)), f \o u)
<1>1. Head(u) \in Int /\ Tail(u) \in Seq(Int) /\ Len(u) \in Nat \ {0} /\ Len(f) \in Nat
  BY HeadTailProperties, EmptySeq, LenProperties
<1>2. Append(f, Head(u)) \in Seq(Int) /\ Len(Append(f, Head(u))) = Len(f) + 1
  BY <1>1, AppendProperties
<1>3. f \o u = Append(f, Head(u)) \o Tail(u)
  <2>1. /\ f \o u \in Seq(Int) /\ Len(f \o u) = Len(f) + Len(u)
        /\ Append(f, Head(u)) \o Tail(u) \in Seq(Int)
        /\ Len(Append(f, Head(u)) \o Tail(u)) = Len(f) + 1 + Len(Tail(u))
    BY <1>1, <1>2
  <2>2. Len(Tail(u)) = Len(u) - 1 /\ Len(f \o u) = Len(Append(f, Head(u)) \o Tail(u))
    BY <1>1, <2>1, HeadTailProperties
  <2>3. ASSUME NEW i \in 1..Len(f \o u) PROVE (f \o u)[i] = (Append(f, Head(u)) \o Tail(u))[i]
    BY <1>1, <1>2, <2>1, <2>2
  <2> QED BY <2>1, <2>2, <2>3, SeqEqual
<1>4. Begins(Append(f, Head(u)), f \o u)
  <2>1. Append(f, Head(u)) \o Tail(u) \in Seq(Int)
    BY <1>1, <1>2
  <2> DEFINE a == Append(f, Head(u))
             b == Tail(u)
  <2>2. a \in Seq(Int) /\ b \in Seq(Int)
    BY <1>1, <1>2
  <2> HIDE DEF a, b
  <2>3. Begins(a, a \o b)
    BY <2>2 DEF Begins
  <2> QED BY <1>3, <2>3 DEF a, b
<1> QED BY <1>1, <1>2, <1>3, <1>4

\* A mapping that is as long as the file shows the file.
LEMMA MappedIsFile ==
  ASSUME file \in Seq(Int), size = Len(file)
  PROVE  Mapped = file
<1>1. Mapped = [n \in 1..Len(file) |-> file[n]]
  BY DEF Mapped
<1> QED BY <1>1

LEMMA FileInitially == FileInit => FileInv
<1>1. <<>> \in Seq(Int)
  OBVIOUS
<1> QED BY <1>1 DEF FileInit, FileInv, LookupsExact

LEMMA SaveKeepsFileInv ==
  ASSUME FileInv, NEW ix \in Indexes, SaveCompressed(ix)
  PROVE  FileInv'
<1>1. CASE ~CanBeSaved(ix) /\ UNCHANGED <<file, writing, unwritten, asked, touched>>
  BY <1>1 DEF FileInv, LookupsExact, SaveCompressed, readerVars
<1>2. CASE /\ CanBeSaved(ix)
           /\ file' = <<>> /\ writing' = TRUE /\ unwritten' = Image(ix) /\ asked' = ix
           /\ Touch
  <2>1. Image(ix) \in Seq(Int)
    BY <1>2, ImagePlaces
  <2> DEFINE all == Image(ix)
  <2>2. UNCHANGED <<reader, size, header, got>>
    BY DEF SaveCompressed, readerVars
  <2>3. <<>> \in Seq(Int) /\ <<>> \o all = all /\ Begins(<<>>, all)
    <3>1. all \in Seq(Int)
      BY <2>1
    <3> HIDE DEF all
    <3> QED BY <3>1 DEF Begins
  <2>4. touched' <=> reader # "closed"
    BY <1>2 DEF Touch
  <2>5. got' = {} \/ touched'
    BY <2>2, <2>4 DEF FileInv
  <2>6. LookupsExact'
    BY <2>5 DEF LookupsExact
  <2>7. /\ file' = <<>> /\ unwritten' = all /\ all \in Seq(Int) /\ asked' = ix
        /\ ix \in Indexes /\ CanBeSaved(ix) /\ all = Image(ix)
    BY <1>2, <2>1
  <2> HIDE DEF all
  <2>8. /\ file' \in Seq(Int) /\ unwritten' \in Seq(Int)
        /\ asked' \in Indexes /\ CanBeSaved(asked') /\ Begins(file', Image(asked'))
        /\ Image(asked') = file' \o unwritten'
    BY <2>3, <2>7
  <2>9. /\ reader' # "closed" /\ ~touched' => FALSE
        /\ reader' # "open" => got' = {}
        /\ reader' = "open" => reader' # "closed"
    BY <2>2, <2>4 DEF FileInv
  <2> QED BY <2>6, <2>8, <2>9 DEF FileInv
<1> QED BY <1>1, <1>2 DEF SaveCompressed

LEMMA WriteKeepsFileInv ==
  ASSUME FileInv, Write
  PROVE  FileInv'
<1>1. /\ writing /\ unwritten # <<>> /\ file \in Seq(Int) /\ unwritten \in Seq(Int)
      /\ asked \in Indexes /\ CanBeSaved(asked) /\ Image(asked) = file \o unwritten
      /\ file' = Append(file, Head(unwritten)) /\ unwritten' = Tail(unwritten)
      /\ UNCHANGED <<writing, asked, reader, size, header, got>>
  BY DEF FileInv, Write, readerVars
<1>2. /\ Append(file, Head(unwritten)) \in Seq(Int) /\ Tail(unwritten) \in Seq(Int)
      /\ file \o unwritten = Append(file, Head(unwritten)) \o Tail(unwritten)
      /\ Begins(Append(file, Head(unwritten)), file \o unwritten)
  BY <1>1, OneByteMore
<1>3. /\ file' \in Seq(Int) /\ unwritten' \in Seq(Int)
      /\ asked' \in Indexes /\ CanBeSaved(asked') /\ Begins(file', Image(asked'))
      /\ Image(asked') = file' \o unwritten'
  BY <1>1, <1>2
<1>4. touched' <=> reader # "closed"
  BY DEF Write, Touch
<1>5. got' = {} \/ touched'
  BY <1>1, <1>4 DEF FileInv
<1>6. LookupsExact'
  BY <1>5 DEF LookupsExact
<1>7. /\ reader' # "closed" /\ ~touched' => FALSE
      /\ reader' # "open" => got' = {}
      /\ reader' = "open" => reader' # "closed"
  BY <1>1, <1>4 DEF FileInv
<1> QED BY <1>3, <1>6, <1>7 DEF FileInv

LEMMA StopKeepsFileInv ==
  ASSUME FileInv, StopSaving
  PROVE  FileInv'
<1>1. /\ writing' = FALSE /\ unwritten' = <<>>
      /\ UNCHANGED <<file, asked, reader, size, header, got, touched>>
  BY DEF StopSaving, readerVars
<1>2. unwritten' \in Seq(Int)
  BY <1>1
<1> QED BY <1>1, <1>2 DEF FileInv, LookupsExact

LEMMA ForgetKeepsFileInv ==
  ASSUME FileInv, Forget
  PROVE  FileInv'
BY DEF FileInv, Forget, LookupsExact, writerVars

LEMMA StatKeepsFileInv ==
  ASSUME FileInv, Stat
  PROVE  FileInv'
BY DEF FileInv, Stat, LookupsExact, writerVars

LEMMA ParseKeepsFileInv ==
  ASSUME FileInv, Parse
  PROVE  FileInv'
<1> DEFINE parsed == parseHeader(Mapped)
<1>1. CASE Forget
  BY <1>1, ForgetKeepsFileInv
<1>2. CASE /\ ~parsed.err /\ reader' = "open" /\ header' = parsed.val
           /\ UNCHANGED <<writerVars, size, got, touched>>
  <2>1. /\ reader = "opening" /\ reader' = "open" /\ header' = parsed.val
        /\ UNCHANGED <<file, writing, unwritten, saves, asked, size, got, touched>>
    BY <1>2 DEF Parse, writerVars
  <2>2. CASE touched
    <3> HIDE DEF parsed
    <3> QED BY <2>1, <2>2 DEF FileInv, LookupsExact
  <2>3. CASE ~touched
    <3>1. /\ size = Len(file) /\ file # <<>> /\ file \in Seq(Int) /\ asked \in Indexes
          /\ CanBeSaved(asked) /\ Begins(file, Image(asked)) /\ got = {}
      BY <2>1, <2>3 DEF FileInv
    <3>2. Mapped = file
      BY <3>1, MappedIsFile
    <3>3. ~parseHeader(file).err /\ header' = parseHeader(file).val
      BY <1>2, <3>2
    <3>4. file = Image(asked) /\ HeaderOf(parseHeader(file).val, asked)
      BY <3>1, <3>3, CutFileRefused
    <3>5. file' = Image(asked') /\ HeaderOf(header', asked')
      BY <2>1, <3>3, <3>4
    <3>6. LookupsExact'
      BY <2>1, <3>1 DEF LookupsExact
    <3> HIDE DEF parsed
    <3> QED BY <2>1, <2>3, <3>1, <3>5, <3>6 DEF FileInv
  <2> QED BY <2>2, <2>3
<1> QED BY <1>1, <1>2 DEF Parse

LEMMA LookupKeepsFileInv ==
  ASSUME FileInv, NEW t \in LookedUp, LookupPostings(t)
  PROVE  FileInv'
<1> DEFINE list == Postings(t)
<1>1. /\ reader = "open"
      /\ got' = {[term |-> t, list |-> list, docIDs |-> DocIDs(list.val)]}
      /\ UNCHANGED <<file, writing, unwritten, asked, size, header, touched, reader>>
  BY DEF LookupPostings, writerVars
<1>2. CASE touched
  <2> HIDE DEF list
  <2> QED BY <1>1, <1>2 DEF FileInv, LookupsExact
<1>3. CASE ~touched
  <2> DEFINE saved == IF t \in DOMAIN asked.postings THEN asked.postings[t] ELSE <<>>
  <2>1. /\ size = Len(file) /\ file # <<>> /\ file \in Seq(Int) /\ asked \in Indexes
        /\ CanBeSaved(asked) /\ file = Image(asked) /\ HeaderOf(header, asked)
    BY <1>1, <1>3 DEF FileInv
  <2>2. Mapped = file
    BY <2>1, MappedIsFile
  <2>3. list = Decoded(saved)
    <3>1. DOMAIN header.terms = DOMAIN asked.postings
      BY <2>1 DEF HeaderOf
    <3>2. CASE t \notin DOMAIN asked.postings
      BY <3>1, <3>2 DEF Postings
    <3>3. CASE t \in DOMAIN asked.postings
      <4>1. Slice(Image(asked), header.terms[t].off, header.terms[t].ln)
              = encode(asked.postings[t])
        BY <2>1, <3>3 DEF HeaderOf
      <4>2. list = decode(encode(asked.postings[t]))
        BY <2>1, <2>2, <3>1, <3>3, <4>1 DEF Postings
      <4>3. decode(encode(asked.postings[t])) = Decoded(asked.postings[t])
        BY <2>1, <3>3, IndexFacts
      <4> QED BY <3>3, <4>2, <4>3
    <3> QED BY <3>2, <3>3
  <2>4. list.val = saved
    BY <2>3 DEF Decoded
  <2> HIDE DEF list
  <2>5. LookupsExact'
    <3> SUFFICES ASSUME NEW g \in got'
                 PROVE  LET old == IF g.term \in DOMAIN asked'.postings
                                   THEN asked'.postings[g.term] ELSE <<>>
                        IN  g.list = Decoded(old) /\ g.docIDs = DocIDs(old)
      BY DEF LookupsExact
    <3>1. g.term = t /\ g.list = list /\ g.docIDs = DocIDs(list.val)
      BY <1>1
    <3> QED BY <1>1, <2>3, <2>4, <3>1
  <2> QED BY <1>1, <2>5 DEF FileInv
<1> QED BY <1>2, <1>3

\* The invariant holds in every state.
THEOREM FileInvariant == FileSpec => []FileInv
<1>1. FileInv /\ [FileStep]_fileVars => FileInv'
  <2> SUFFICES ASSUME FileInv, [FileStep]_fileVars PROVE FileInv'
    OBVIOUS
  <2>1. ASSUME NEW ix \in Indexes, SaveCompressed(ix) PROVE FileInv'
    BY <2>1, SaveKeepsFileInv
  <2>2. CASE Write
    BY <2>2, WriteKeepsFileInv
  <2>3. CASE StopSaving
    BY <2>3, StopKeepsFileInv
  <2>4. CASE Stat
    BY <2>4, StatKeepsFileInv
  <2>5. CASE Parse
    BY <2>5, ParseKeepsFileInv
  <2>6. CASE Close \/ Fault
    BY <2>6, ForgetKeepsFileInv DEF Close, Fault
  <2>7. ASSUME NEW t \in LookedUp, LookupPostings(t) PROVE FileInv'
    BY <2>7, LookupKeepsFileInv
  <2>8. CASE UNCHANGED fileVars
    BY <2>8 DEF FileInv, LookupsExact, fileVars, writerVars, readerVars
  <2> QED BY <2>1, <2>2, <2>3, <2>4, <2>5, <2>6, <2>7, <2>8 DEF FileStep
<1> QED BY FileInitially, <1>1, PTL DEF FileSpec

\* An index that opens, with no save in between, is one that was saved to the end, with
\* the lengths, titles and terms that were saved: whatever a failed or interrupted save
\* has left, parseHeader refuses.
THEOREM OpenedAlwaysWhole == FileSpec => []OpenedIsWhole
<1>1. FileInv => OpenedIsWhole
  BY DEF FileInv, OpenedIsWhole, HeaderOf
<1> QED BY FileInvariant, <1>1, PTL

\* As long as no save has come in between, every lookup returns the posting list that
\* was saved, and none fails.
THEOREM LookupsAlwaysExact == FileSpec => []LookupsExact
<1>1. FileInv => LookupsExact
  BY DEF FileInv
<1> QED BY FileInvariant, <1>1, PTL
=============================================================================
