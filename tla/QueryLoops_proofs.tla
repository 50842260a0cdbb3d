-------------------------- MODULE QueryLoops_proofs --------------------------
(***************************************************************************)
(* Proofs about the loops of query evaluation: the merges of SortedMerge,  *)
(* for all ascending lists, the position scans of PositionScan and the     *)
(* window of TermWindow.                                                   *)
(***************************************************************************)
EXTENDS SortedMerge, PositionScan, TermWindow, NumberSets_proofs,
        SequenceTheorems, WellFoundedInduction, TLAPS

-----------------------------------------------------------------------------
(***************************************************************************)
(* Proofs about the merges of SortedMerge, for all ascending lists.        *)
(*                                                                         *)
(* Three invariants, each on top of the one before: ControlInv (types and  *)
(* what the inner loops may rely on), FrontsApart (the passed part of one  *)
(* list is below the rest of the other) and Content (the result so far is  *)
(* the set operation on the passed parts).                                 *)
(***************************************************************************)

-----------------------------------------------------------------------------
(* There is a least stride, and it is at least 1: the search loop of       *)
(* intersectSortedSkipInto ends.                                           *)
LEMMA StrideExists ==
  ASSUME NEW n \in Nat
  PROVE  Stride(n) \in 1..(n + 1)
<1> DEFINE Wide == {s \in 1..(n + 1) : s * s >= n}
<1>1. n + 1 \in Wide
  <2>1. (n + 1) * (n + 1) = n * n + 2 * n + 1
    OBVIOUS
  <2>2. n * n \in Nat
    OBVIOUS
  <2> HIDE DEF Wide
  <2> QED BY <2>1, <2>2 DEF Wide
<1>2. PICK s \in Wide : \A t \in Wide : ~(<<t, s>> \in OpToRel(<, Nat))
  <2>1. Wide \subseteq Nat
    OBVIOUS
  <2> HIDE DEF Wide
  <2>2. Wide # {}
    BY <1>1
  <2> QED BY <2>1, <2>2, NatLessThanWellFounded, WFMin
<1>3. s \in 1..(n + 1) /\ s * s >= n
  OBVIOUS
<1>4. ASSUME NEW t \in 1..(s - 1) PROVE t * t < n
  <2>1. t \in 1..(n + 1) /\ t \in Nat /\ s \in Nat /\ t < s
    BY <1>3
  <2>2. <<t, s>> \in OpToRel(<, Nat)
    BY <2>1 DEF OpToRel
  <2>3. t \notin Wide
    BY <1>2, <2>2
  <2>4. ~(t * t >= n)
    BY <2>1, <2>3
  <2>5. t * t \in Nat
    BY <2>1
  <2> QED BY <2>4, <2>5
<1> QED BY <1>3, <1>4 DEF Stride

-----------------------------------------------------------------------------
(* What is known of the lists and of the inner loops. *)
Inside ==
  /\ pc = "start" => i = 1 /\ j = 1 /\ out = <<>>
  /\ pc = "leapA" => op = "and" /\ BothLeft
  /\ pc = "leapB" => op = "and" /\ BothLeft

ControlInv == TypeOK /\ Inside

LEMMA ListFacts ==
  ASSUME TypeOK
  PROVE  /\ a \in Seq(Nat) /\ Ascending(a) /\ Len(a) \in Nat
         /\ b \in Seq(Nat) /\ Ascending(b) /\ Len(b) \in Nat
         /\ i \in 1..(Len(a) + 1) /\ j \in 1..(Len(b) + 1)
         /\ out \in Seq(Nat)
         /\ \A m \in 1..Len(a) : a[m] \in Nat
         /\ \A n \in 1..Len(b) : b[n] \in Nat
BY ListsAssumption, SMTT(30) DEF TypeOK

(* A leap lands inside its list, further on, and not above x. *)
LEMMA LeapLands ==
  ASSUME NEW s \in Seq(Nat), NEW n \in 1..Len(s), NEW x, CanLeap(s, n, x)
  PROVE  /\ n + Stride(Len(s)) \in (n + 1)..Len(s)
         /\ s[n + Stride(Len(s))] <= x
<1>1. Len(s) \in Nat
  OBVIOUS
<1>2. Stride(Len(s)) \in 1..(Len(s) + 1)
  BY <1>1, StrideExists
<1> QED BY <1>1, <1>2 DEF CanLeap

(* The rest of a list is a list of numbers. *)
LEMMA RestIsSeq ==
  ASSUME NEW s \in Seq(Nat), NEW n \in 1..(Len(s) + 1)
  PROVE  /\ Rest(s, n) \in Seq(Nat)
         /\ Len(Rest(s, n)) = Len(s) - n + 1
         /\ \A m \in 1..(Len(s) - n + 1) : Rest(s, n)[m] = s[n + m - 1]
<1>1. \A m \in n..Len(s) : s[m] \in Nat
  OBVIOUS
<1> QED BY <1>1, SubSeqProperties DEF Rest

-----------------------------------------------------------------------------
(* Every step keeps the indexes inside their lists, or one past their end, *)
(* and the inner loops are entered and left between two elements.          *)
LEMMA ControlStep ==
  ASSUME ControlInv, [Next]_vars
  PROVE  ControlInv'
<1> USE DEF ControlInv, Inside, BothLeft
<1>0. /\ a \in Seq(Nat) /\ b \in Seq(Nat) /\ out \in Seq(Nat)
      /\ Len(a) \in Nat /\ Len(b) \in Nat
      /\ i \in 1..(Len(a) + 1) /\ j \in 1..(Len(b) + 1)
      /\ \A m \in 1..Len(a) : a[m] \in Nat
      /\ \A n \in 1..Len(b) : b[n] \in Nat
  BY ListFacts
<1>1. CASE ReturnEarly
  <2>1. out' \in Seq(Nat)
    BY <1>0, <1>1 DEF ReturnEarly, TypeOK
  <2> QED BY <1>1, <2>1 DEF ReturnEarly, TypeOK
<1>2. CASE EnterLoop
  BY <1>2 DEF EnterLoop, TypeOK
<1>3. CASE Match
  <2>1. out' \in Seq(Nat)
    BY <1>0, <1>3, SMTT(30) DEF Match
  <2> QED BY <1>0, <1>3, <2>1 DEF Match, TypeOK
<1>4. CASE TakeA
  <2>1. out' \in Seq(Nat)
    BY <1>0, <1>4 DEF TakeA
  <2> QED BY <1>0, <1>4, <2>1 DEF TakeA, TypeOK
<1>5. CASE TakeB
  <2>1. out' \in Seq(Nat)
    BY <1>0, <1>5 DEF TakeB
  <2> QED BY <1>0, <1>5, <2>1 DEF TakeB, TypeOK
<1>6. CASE DropB
  BY <1>0, <1>6 DEF DropB, TypeOK
<1>7. CASE SkipA
  <2>1. CASE CanLeap(a, i, b[j])
    <3>1. i + Stride(Len(a)) \in (i + 1)..Len(a)
      BY <1>0, <1>7, <2>1, LeapLands DEF SkipA
    <3>2. /\ i' = i + Stride(Len(a)) /\ pc' = "leapA"
          /\ UNCHANGED <<op, a, b, j, out>>
      BY <1>7, <2>1 DEF SkipA
    <3>3. i' \in 1..Len(a)
      BY <1>0, <3>1, <3>2, SMTT(30)
    <3>4. op = "and" /\ j <= Len(b)
      BY <1>7 DEF SkipA
    <3> QED BY <1>0, <3>2, <3>3, <3>4, SMTT(30) DEF TypeOK
  <2>2. CASE ~CanLeap(a, i, b[j])
    <3>1. /\ i' = i + 1 /\ pc' = "merge"
          /\ UNCHANGED <<op, a, b, j, out>>
      BY <1>7, <2>2 DEF SkipA
    <3>2. i' \in 1..(Len(a) + 1)
      BY <1>0, <1>7, <3>1 DEF SkipA
    <3> QED BY <3>1, <3>2 DEF TypeOK
  <2> QED BY <2>1, <2>2
<1>8. CASE SkipB
  <2>1. CASE CanLeap(b, j, a[i])
    <3>1. j + Stride(Len(b)) \in (j + 1)..Len(b)
      BY <1>0, <1>8, <2>1, LeapLands DEF SkipB
    <3>2. /\ j' = j + Stride(Len(b)) /\ pc' = "leapB"
          /\ UNCHANGED <<op, a, b, i, out>>
      BY <1>8, <2>1 DEF SkipB
    <3>3. j' \in 1..Len(b)
      BY <1>0, <3>1, <3>2, SMTT(30)
    <3>4. op = "and" /\ i <= Len(a)
      BY <1>8 DEF SkipB
    <3> QED BY <1>0, <3>2, <3>3, <3>4, SMTT(30) DEF TypeOK
  <2>2. CASE ~CanLeap(b, j, a[i])
    <3>1. /\ j' = j + 1 /\ pc' = "merge"
          /\ UNCHANGED <<op, a, b, i, out>>
      BY <1>8, <2>2 DEF SkipB
    <3>2. j' \in 1..(Len(b) + 1)
      BY <1>0, <1>8, <3>1 DEF SkipB
    <3> QED BY <3>1, <3>2 DEF TypeOK
  <2> QED BY <2>1, <2>2
<1>9. CASE LeapA
  <2>1. CASE CanLeap(a, i, b[j])
    <3>1. i + Stride(Len(a)) \in (i + 1)..Len(a)
      BY <1>0, <1>9, <2>1, LeapLands DEF LeapA
    <3>2. /\ i' = i + Stride(Len(a)) /\ pc' = "leapA"
          /\ UNCHANGED <<op, a, b, j, out>>
      BY <1>9, <2>1 DEF LeapA
    <3>3. i' \in 1..Len(a)
      BY <1>0, <3>1, <3>2, SMTT(30)
    <3>4. op = "and" /\ j <= Len(b)
      BY <1>9 DEF LeapA
    <3> QED BY <1>0, <3>2, <3>3, <3>4, SMTT(30) DEF TypeOK
  <2>2. CASE ~CanLeap(a, i, b[j])
    BY <1>0, <1>9, <2>2 DEF LeapA, TypeOK
  <2> QED BY <2>1, <2>2
<1>10. CASE LeapB
  <2>1. CASE CanLeap(b, j, a[i])
    <3>1. j + Stride(Len(b)) \in (j + 1)..Len(b)
      BY <1>0, <1>10, <2>1, LeapLands DEF LeapB
    <3>2. /\ j' = j + Stride(Len(b)) /\ pc' = "leapB"
          /\ UNCHANGED <<op, a, b, i, out>>
      BY <1>10, <2>1 DEF LeapB
    <3>3. j' \in 1..Len(b)
      BY <1>0, <3>1, <3>2, SMTT(30)
    <3>4. op = "and" /\ i <= Len(a)
      BY <1>10 DEF LeapB
    <3> QED BY <1>0, <3>2, <3>3, <3>4, SMTT(30) DEF TypeOK
  <2>2. CASE ~CanLeap(b, j, a[i])
    BY <1>0, <1>10, <2>2 DEF LeapB, TypeOK
  <2> QED BY <2>1, <2>2
<1>11. CASE LeaveLoop
  <2>1. /\ Rest(a, i) \in Seq(Nat)
        /\ Rest(b, j) \in Seq(Nat)
    BY <1>0, RestIsSeq
  <2>2. /\ out \o Rest(a, i) \in Seq(Nat)
        /\ (out \o Rest(a, i)) \o Rest(b, j) \in Seq(Nat)
    BY <1>0, <2>1
  <2>3. out' \in Seq(Nat)
    BY <1>0, <1>11, <2>2 DEF LeaveLoop, TypeOK
  <2> QED BY <1>11, <2>3 DEF LeaveLoop, TypeOK
<1>12. CASE UNCHANGED vars
  BY <1>12 DEF vars, TypeOK
<1> QED
  BY <1>1, <1>2, <1>3, <1>4, <1>5, <1>6, <1>7, <1>8, <1>9, <1>10, <1>11, <1>12
  DEF Next, Step, Returned

LEMMA ControlHolds == Spec => []ControlInv
<1>1. Init => ControlInv
  <2> SUFFICES ASSUME Init PROVE ControlInv
    OBVIOUS
  <2>1. Len(a) \in Nat /\ Len(b) \in Nat
    BY ListsAssumption DEF Init
  <2> QED BY <2>1 DEF Init, ControlInv, TypeOK, Inside
<1>2. ControlInv /\ [Next]_vars => ControlInv'
  BY ControlStep
<1> QED BY <1>1, <1>2, PTL DEF Spec

(* The indexes of the three merges never run further than one past the end *)
(* of a list, and an element is read only inside it.                       *)
THEOREM MergeTypeCorrect == Spec => []TypeOK
BY ControlHolds, PTL DEF ControlInv

-----------------------------------------------------------------------------
(* The first p - 1 elements of s are below all of t from position q on. *)
Below(s, p, t, q) == \A m \in 1..(p - 1), n \in q..Len(t) : s[m] < t[n]

LEMMA AscendingOrder ==
  ASSUME NEW s \in Seq(Nat), Ascending(s),
         NEW m \in 1..Len(s), NEW n \in 1..Len(s)
  PROVE  /\ s[m] \in Nat /\ s[n] \in Nat
         /\ m < n => s[m] < s[n]
         /\ m <= n => s[m] <= s[n]
<1>1. s[m] \in Nat /\ s[n] \in Nat
  OBVIOUS
<1>2. m < n => s[m] < s[n]
  BY DEF Ascending
<1>3. m = n \/ m < n \/ n < m
  OBVIOUS
<1>4. m <= n => s[m] <= s[n]
  BY <1>1, <1>2, <1>3
<1> QED BY <1>1, <1>2, <1>4

(* Passing elements of s keeps the passed part below the front of t if the *)
(* last of them is below it.                                               *)
LEMMA BelowGrows ==
  ASSUME NEW s \in Seq(Nat), Ascending(s), NEW t \in Seq(Nat), Ascending(t),
         NEW p \in 2..(Len(s) + 1), NEW q \in 1..(Len(t) + 1),
         q <= Len(t) => s[p - 1] < t[q]
  PROVE  Below(s, p, t, q)
<1> SUFFICES ASSUME NEW m \in 1..(p - 1), NEW n \in q..Len(t)
             PROVE  s[m] < t[n]
  BY DEF Below
<1>1. /\ m \in 1..Len(s) /\ p - 1 \in 1..Len(s) /\ m <= p - 1
      /\ q \in 1..Len(t) /\ n \in 1..Len(t) /\ q <= n
  OBVIOUS
<1>2. s[m] <= s[p - 1] /\ s[m] \in Nat /\ s[p - 1] \in Nat
  BY <1>1, AscendingOrder
<1>3. t[q] <= t[n] /\ t[q] \in Nat /\ t[n] \in Nat
  BY <1>1, AscendingOrder
<1>4. s[p - 1] < t[q]
  BY <1>1
<1>5. \A u, v, y, x \in Nat : u <= v /\ v < y /\ y <= x => u < x
  OBVIOUS
<1> QED BY ONLY <1>2, <1>3, <1>4, <1>5

LEMMA BelowShrinks ==
  ASSUME NEW s, NEW t \in Seq(Nat), NEW p, NEW q \in Nat, NEW z \in Nat,
         q <= z, Below(s, p, t, q)
  PROVE  Below(s, p, t, z)
<1> SUFFICES ASSUME NEW m \in 1..(p - 1), NEW n \in z..Len(t)
             PROVE  s[m] < t[n]
  BY DEF Below
<1>1. n \in q..Len(t)
  OBVIOUS
<1> QED BY <1>1 DEF Below

(* Moving the index of s from p to z, past elements below the front of t,  *)
(* keeps the two fronts apart.                                             *)
LEMMA MoveOne ==
  ASSUME NEW s \in Seq(Nat), Ascending(s), NEW t \in Seq(Nat), Ascending(t),
         NEW p \in 1..Len(s), NEW q \in 1..Len(t),
         NEW z \in (p + 1)..(Len(s) + 1), s[z - 1] < t[q],
         Below(t, q, s, p)
  PROVE  Below(s, z, t, q) /\ Below(t, q, s, z)
<1>1. Below(s, z, t, q)
  <2>1. z \in 2..(Len(s) + 1) /\ q \in 1..(Len(t) + 1)
    OBVIOUS
  <2> QED BY <2>1, BelowGrows
<1>2. p \in Nat /\ z \in Nat /\ p <= z
  OBVIOUS
<1> QED BY <1>1, <1>2, BelowShrinks

LEMMA MoveNext ==
  ASSUME NEW s \in Seq(Nat), Ascending(s), NEW t \in Seq(Nat), Ascending(t),
         NEW p \in 1..Len(s), NEW q \in 1..Len(t),
         s[p] < t[q], Below(t, q, s, p)
  PROVE  Below(s, p + 1, t, q) /\ Below(t, q, s, p + 1)
<1>1. p + 1 \in (p + 1)..(Len(s) + 1) /\ (p + 1) - 1 = p
  OBVIOUS
<1> QED BY <1>1, MoveOne

(* Moving both past equal elements keeps them apart. *)
LEMMA MoveBoth ==
  ASSUME NEW s \in Seq(Nat), Ascending(s), NEW t \in Seq(Nat), Ascending(t),
         NEW p \in 1..Len(s), NEW q \in 1..Len(t), s[p] = t[q]
  PROVE  Below(s, p + 1, t, q + 1)
<1>1. /\ p + 1 \in 2..(Len(s) + 1) /\ q + 1 \in 1..(Len(t) + 1)
      /\ (p + 1) - 1 = p
  OBVIOUS
<1>2. q + 1 <= Len(t) => s[p] < t[q + 1]
  <2> SUFFICES ASSUME q + 1 <= Len(t) PROVE t[q] < t[q + 1]
    OBVIOUS
  <2>1. q + 1 \in 1..Len(t) /\ q < q + 1
    OBVIOUS
  <2> QED BY <2>1, AscendingOrder
<1> QED BY <1>1, <1>2, BelowGrows

(* A leap moves to an element that is not above the front of the other     *)
(* list, so the one before it is below that front.                         *)
LEMMA LeapKeepsApart ==
  ASSUME NEW s \in Seq(Nat), Ascending(s), NEW t \in Seq(Nat), Ascending(t),
         NEW p \in 1..Len(s), NEW q \in 1..Len(t),
         CanLeap(s, p, t[q]), Below(t, q, s, p)
  PROVE  /\ Below(s, p + Stride(Len(s)), t, q)
         /\ Below(t, q, s, p + Stride(Len(s)))
<1> DEFINE z == p + Stride(Len(s))
<1>1. z \in (p + 1)..Len(s) /\ s[z] <= t[q]
  BY LeapLands
<1> HIDE DEF z
<1>2. z - 1 \in 1..Len(s) /\ z \in 1..Len(s) /\ z - 1 < z
  BY <1>1
<1>3. s[z - 1] < s[z] /\ s[z - 1] \in Nat /\ s[z] \in Nat
  BY <1>2, AscendingOrder
<1>4. t[q] \in Nat
  OBVIOUS
<1>5. s[z - 1] < t[q]
  BY <1>1, <1>3, <1>4, SMTT(30)
<1>6. z \in (p + 1)..(Len(s) + 1)
  BY <1>1
<1>7. Below(s, z, t, q) /\ Below(t, q, s, z)
  BY <1>5, <1>6, MoveOne
<1> QED BY <1>7 DEF z

Merging == {"merge", "leapA", "leapB"}

LEMMA FrontsAsBelow ==
  FrontsApart <=> (pc \in Merging => Below(a, i, b, j) /\ Below(b, j, a, i))
BY DEF FrontsApart, Below, Merging

LEMMA FrontsStep ==
  ASSUME ControlInv, FrontsApart, [Next]_vars
  PROVE  FrontsApart'
<1> USE DEF BothLeft, Merging
<1>0. /\ a \in Seq(Nat) /\ Ascending(a) /\ b \in Seq(Nat) /\ Ascending(b)
      /\ Len(a) \in Nat /\ Len(b) \in Nat
      /\ i \in 1..(Len(a) + 1) /\ j \in 1..(Len(b) + 1)
      /\ \A m \in 1..Len(a) : a[m] \in Nat
      /\ \A n \in 1..Len(b) : b[n] \in Nat
  BY ListFacts DEF ControlInv
<1> SUFFICES pc' \in Merging => Below(a, i, b, j)' /\ Below(b, j, a, i)'
  BY DEF FrontsApart, Below
<1> USE FrontsAsBelow
<1>1. CASE ReturnEarly
  BY <1>1 DEF ReturnEarly
<1>2. CASE EnterLoop
  BY <1>2 DEF EnterLoop, ControlInv, Inside, Below
<1>3. CASE Match
  BY <1>0, <1>3, MoveBoth, SMTT(30) DEF Match
<1>4. CASE TakeA
  BY <1>0, <1>4, MoveNext, SMTT(30) DEF TakeA
<1>5. CASE TakeB
  BY <1>0, <1>5, MoveNext, SMTT(30) DEF TakeB
<1>6. CASE DropB
  BY <1>0, <1>6, MoveNext, SMTT(30) DEF DropB
<1>7. CASE SkipA
  <2>1. CASE CanLeap(a, i, b[j])
    BY <1>0, <1>7, <2>1, LeapKeepsApart DEF SkipA
  <2>2. CASE ~CanLeap(a, i, b[j])
    BY <1>0, <1>7, <2>2, MoveNext DEF SkipA
  <2> QED BY <2>1, <2>2
<1>8. CASE SkipB
  <2>1. CASE CanLeap(b, j, a[i])
    BY <1>0, <1>8, <2>1, LeapKeepsApart DEF SkipB
  <2>2. CASE ~CanLeap(b, j, a[i])
    BY <1>0, <1>8, <2>2, MoveNext, SMTT(30) DEF SkipB
  <2> QED BY <2>1, <2>2
<1>9. CASE LeapA
  <2>1. CASE CanLeap(a, i, b[j])
    BY <1>0, <1>9, <2>1, LeapKeepsApart DEF LeapA, ControlInv, Inside
  <2>2. CASE ~CanLeap(a, i, b[j])
    BY <1>9, <2>2 DEF LeapA, Below
  <2> QED BY <2>1, <2>2
<1>10. CASE LeapB
  <2>1. CASE CanLeap(b, j, a[i])
    BY <1>0, <1>10, <2>1, LeapKeepsApart DEF LeapB, ControlInv, Inside
  <2>2. CASE ~CanLeap(b, j, a[i])
    BY <1>10, <2>2 DEF LeapB, Below
  <2> QED BY <2>1, <2>2
<1>11. CASE LeaveLoop
  BY <1>11 DEF LeaveLoop
<1>12. CASE UNCHANGED vars
  BY <1>12 DEF vars, Below
<1> QED
  BY <1>1, <1>2, <1>3, <1>4, <1>5, <1>6, <1>7, <1>8, <1>9, <1>10, <1>11, <1>12
  DEF Next, Step, Returned

(* At all times the passed part of one list is below the rest of the       *)
(* other: a leap of intersectSortedSkipInto passes no common number.       *)
THEOREM FrontsStayApart == Spec => []FrontsApart
<1>1. Init => FrontsApart
  BY DEF Init, FrontsApart
<1>2. ControlInv /\ FrontsApart /\ [Next]_vars => FrontsApart'
  BY FrontsStep
<1> QED BY <1>1, <1>2, ControlHolds, PTL DEF Spec

-----------------------------------------------------------------------------
(* Sequences as sets: what Append, \o and Rest do to the elements and to    *)
(* the order.                                                              *)
Passed(s, n) == {s[m] : m \in 1..(n - 1)}

LEMMA AppendAscends ==
  ASSUME NEW s \in Seq(Nat), Ascending(s), NEW x \in Nat,
         \A y \in Range(s) : y < x
  PROVE  Ascending(Append(s, x)) /\ Range(Append(s, x)) = Range(s) \cup {x}
<1> DEFINE u == Append(s, x)
<1>1. /\ u \in Seq(Nat) /\ Len(u) = Len(s) + 1 /\ Len(s) \in Nat
      /\ u[Len(s) + 1] = x
      /\ \A m \in 1..Len(s) : u[m] = s[m]
  BY AppendProperties, LenProperties
<1>2. Range(u) = {u[m] : m \in 1..Len(u)} /\ Range(s) = {s[m] : m \in 1..Len(s)}
  BY <1>1, RangeEquality
<1> HIDE DEF u
<1>3. \A h : h \in 1..Len(u) <=> h \in 1..Len(s) \/ h = Len(s) + 1
  <2>1. \A e \in Nat : \A h : h \in 1..(e + 1) <=> h \in 1..e \/ h = e + 1
    OBVIOUS
  <2> QED BY <1>1, <2>1
<1>4. Range(u) = Range(s) \cup {x}
  BY <1>1, <1>2, <1>3, Zenon
<1>5. Ascending(u)
  <2> SUFFICES ASSUME NEW m \in 1..Len(u), NEW n \in 1..Len(u), m < n
               PROVE  u[m] < u[n]
    BY DEF Ascending
  <2>1. m \in 1..Len(s)
    BY <1>1
  <2>2. CASE n = Len(s) + 1
    BY <1>1, <1>2, <2>1, <2>2
  <2>3. CASE n # Len(s) + 1
    <3>1. n \in 1..Len(s)
      BY <1>3, <2>3
    <3> QED BY <1>1, <2>1, <3>1 DEF Ascending
  <2> QED BY <2>2, <2>3
<1> QED BY <1>4, <1>5 DEF u

LEMMA ConcatAscends ==
  ASSUME NEW s \in Seq(Nat), Ascending(s), NEW t \in Seq(Nat), Ascending(t),
         \A y \in Range(s), z \in Range(t) : y < z
  PROVE  /\ s \o t \in Seq(Nat)
         /\ Ascending(s \o t) /\ Range(s \o t) = Range(s) \cup Range(t)
<1> DEFINE u == s \o t
<1>1. /\ u \in Seq(Nat) /\ Len(u) = Len(s) + Len(t)
      /\ Len(s) \in Nat /\ Len(t) \in Nat
      /\ \A m \in 1..Len(s) + Len(t) :
           u[m] = IF m <= Len(s) THEN s[m] ELSE t[m - Len(s)]
  BY ConcatProperties, LenProperties
<1>2. Range(s) = {s[m] : m \in 1..Len(s)} /\ Range(t) = {t[m] : m \in 1..Len(t)}
  BY RangeEquality
<1>3. Range(u) = Range(s) \cup Range(t)
  BY RangeConcatenation
<1> HIDE DEF u
<1>4. Ascending(u)
  <2> SUFFICES ASSUME NEW m \in 1..Len(u), NEW n \in 1..Len(u), m < n
               PROVE  u[m] < u[n]
    BY DEF Ascending
  <2>1. CASE n <= Len(s)
    <3>1. m \in 1..Len(s) /\ n \in 1..Len(s)
      BY <1>1, <2>1
    <3>2. u[m] = s[m] /\ u[n] = s[n]
      BY <1>1, <2>1, <3>1
    <3> QED BY <3>1, <3>2 DEF Ascending
  <2>2. CASE m <= Len(s) /\ Len(s) < n
    <3>1. m \in 1..Len(s) /\ n - Len(s) \in 1..Len(t)
      BY <1>1, <2>2
    <3>2. u[m] = s[m] /\ u[n] = t[n - Len(s)]
      BY <1>1, <2>2
    <3>3. u[m] \in Range(s) /\ u[n] \in Range(t)
      BY <1>2, <3>1, <3>2
    <3> QED BY <3>3
  <2>3. CASE Len(s) < m
    <3>1. m - Len(s) \in 1..Len(t) /\ n - Len(s) \in 1..Len(t)
      BY <1>1, <2>3, SMTT(30)
    <3>2. m - Len(s) < n - Len(s)
      BY <1>1
    <3>3. u[m] = t[m - Len(s)] /\ u[n] = t[n - Len(s)]
      BY <1>1, <2>3
    <3> QED BY <3>1, <3>2, <3>3 DEF Ascending
  <2> QED BY <1>1, <2>1, <2>2, <2>3
<1> QED BY <1>1, <1>3, <1>4 DEF u

LEMMA RestFacts ==
  ASSUME NEW s \in Seq(Nat), Ascending(s), NEW n \in 1..(Len(s) + 1)
  PROVE  /\ Rest(s, n) \in Seq(Nat) /\ Ascending(Rest(s, n))
         /\ Range(Rest(s, n)) = {s[m] : m \in n..Len(s)}
         /\ Range(s) = Passed(s, n) \cup Range(Rest(s, n))
<1> DEFINE u == Rest(s, n)
<1>1. /\ u \in Seq(Nat) /\ Len(u) = Len(s) - n + 1 /\ Len(s) \in Nat
      /\ \A m \in 1..(Len(s) - n + 1) : u[m] = s[n + m - 1]
  BY RestIsSeq, LenProperties
<1>2. Range(u) = {u[m] : m \in 1..Len(u)} /\ Range(s) = {s[m] : m \in 1..Len(s)}
  BY <1>1, RangeEquality
<1> HIDE DEF u
<1>3. Ascending(u)
  <2> SUFFICES ASSUME NEW h \in 1..Len(u), NEW m \in 1..Len(u), h < m
               PROVE  u[h] < u[m]
    BY DEF Ascending
  <2>1. n + h - 1 \in 1..Len(s) /\ n + m - 1 \in 1..Len(s) /\ n + h - 1 < n + m - 1
    BY <1>1
  <2>2. s[n + h - 1] < s[n + m - 1]
    BY <2>1 DEF Ascending
  <2>3. u[h] = s[n + h - 1] /\ u[m] = s[n + m - 1]
    BY <1>1
  <2> QED BY <2>2, <2>3
<1>4. Range(u) = {s[m] : m \in n..Len(s)}
  <2>1. ASSUME NEW m \in n..Len(s) PROVE s[m] \in Range(u)
    <3>1. m - n + 1 \in 1..Len(u) /\ n + (m - n + 1) - 1 = m
      BY <1>1, SMTT(30)
    <3>2. u[m - n + 1] = s[m]
      BY <1>1, <3>1
    <3> QED BY <1>2, <3>1, <3>2
  <2>2. ASSUME NEW h \in 1..Len(u) PROVE u[h] \in {s[m] : m \in n..Len(s)}
    <3>1. n + h - 1 \in n..Len(s) /\ u[h] = s[n + h - 1]
      BY <1>1
    <3> QED BY <3>1
  <2> QED BY <1>2, <2>1, <2>2
<1>5. 1..Len(s) = 1..(n - 1) \cup n..Len(s)
  BY <1>1
<1>6. Range(s) = Passed(s, n) \cup Range(u)
  BY <1>2, <1>4, <1>5 DEF Passed
<1> QED BY <1>1, <1>3, <1>4, <1>6 DEF u

LEMMA PassedNext ==
  ASSUME NEW s \in Seq(Nat), NEW n \in 1..Len(s)
  PROVE  Passed(s, n + 1) = Passed(s, n) \cup {s[n]}
<1>1. 1..((n + 1) - 1) = 1..(n - 1) \cup {n}
  OBVIOUS
<1> QED BY <1>1 DEF Passed

-----------------------------------------------------------------------------
(* While a merge runs, its result is the operation on the passed parts. *)
Content ==
  pc \in Merging =>
    Range(out) = Combine(Passed(a, i), Passed(b, j)) /\ Ascending(out)

(* The passed part of a list is below its own front, and below the rest of *)
(* the other list.                                                         *)
LEMMA PassedBelow ==
  ASSUME NEW s \in Seq(Nat), Ascending(s), NEW t \in Seq(Nat), Ascending(t),
         NEW p \in 1..(Len(s) + 1), NEW q \in 1..(Len(t) + 1),
         Below(s, p, t, q)
  PROVE  /\ \A y \in Passed(s, p), z \in Range(Rest(t, q)) : y < z
         /\ \A y \in Passed(s, p), z \in Range(Rest(s, p)) : y < z
         /\ p <= Len(s) => \A y \in Passed(s, p) : y < s[p]
         /\ q <= Len(t) => \A y \in Passed(s, p) : y < t[q]
<1>1. /\ Range(Rest(t, q)) = {t[n] : n \in q..Len(t)}
      /\ Range(Rest(s, p)) = {s[m] : m \in p..Len(s)}
  BY RestFacts
<1>2. \A y \in Passed(s, p), z \in Range(Rest(t, q)) : y < z
  BY <1>1 DEF Passed, Below
<1>3. \A y \in Passed(s, p), z \in Range(Rest(s, p)) : y < z
  <2> SUFFICES ASSUME NEW m \in 1..(p - 1), NEW n \in p..Len(s)
               PROVE  s[m] < s[n]
    BY <1>1 DEF Passed
  <2>1. m \in 1..Len(s) /\ n \in 1..Len(s) /\ m < n
    OBVIOUS
  <2> QED BY <2>1 DEF Ascending
<1>4. p <= Len(s) => p \in p..Len(s)
  OBVIOUS
<1>5. q <= Len(t) => q \in q..Len(t)
  OBVIOUS
<1> QED BY <1>1, <1>2, <1>3, <1>4, <1>5

(* Elements that a leap passes are not among those passed in the other     *)
(* list.                                                                   *)
LEMMA LeapAddsNothing ==
  ASSUME NEW s \in Seq(Nat), NEW t \in Seq(Nat),
         NEW p \in 1..(Len(s) + 1), NEW q \in 1..(Len(t) + 1),
         NEW z \in p..(Len(s) + 1), Below(t, q, s, p)
  PROVE  Passed(s, z) \cap Passed(t, q) = Passed(s, p) \cap Passed(t, q)
<1>1. ASSUME NEW m \in 1..(z - 1), NEW n \in 1..(q - 1), s[m] = t[n]
      PROVE  m \in 1..(p - 1)
  <2> SUFFICES ASSUME m \in p..Len(s) PROVE FALSE
    OBVIOUS
  <2>1. t[n] < s[m]
    BY DEF Below
  <2>2. m \in 1..Len(s) /\ s[m] \in Nat
    OBVIOUS
  <2> QED BY <1>1, <2>1, <2>2
<1>2. 1..(p - 1) \subseteq 1..(z - 1)
  OBVIOUS
<1> QED BY <1>1, <1>2 DEF Passed

LEMMA NoElements ==
  ASSUME NEW s \in Seq(Nat), Len(s) = 0
  PROVE  Range(s) = {}
<1>1. Range(s) = {s[m] : m \in 1..Len(s)}
  BY RangeEquality
<1>2. 1..Len(s) = {}
  OBVIOUS
<1> QED BY <1>1, <1>2

LEMMA EmptyList ==
  ASSUME NEW s \in Seq(Nat), NEW n \in 1..(Len(s) + 1)
  PROVE  /\ s = <<>> <=> Len(s) = 0
         /\ s = <<>> => Range(s) = {}
         /\ Passed(s, 1) = {}
         /\ Len(s) < n => Range(Rest(s, n)) = {}
<1>1. s = <<>> => Range(s) = {}
  <2> SUFFICES ASSUME s = <<>> PROVE Range(s) = {}
    OBVIOUS
  <2> QED BY EmptySeq, NoElements
<1>2. s = <<>> <=> Len(s) = 0
  BY EmptySeq
<1>3. Passed(s, 1) = {}
  BY DEF Passed
<1>4. Len(s) < n => Range(Rest(s, n)) = {}
  <2> SUFFICES ASSUME Len(s) < n PROVE Range(Rest(s, n)) = {}
    OBVIOUS
  <2>1. Rest(s, n) \in Seq(Nat) /\ Len(Rest(s, n)) = 0
    BY RestIsSeq
  <2> QED BY <2>1, NoElements
<1> QED BY <1>1, <1>2, <1>3, <1>4

(* Inside the loop everything found so far is below both fronts. *)
LEMMA FrontFacts ==
  ASSUME ControlInv, FrontsApart, Content, pc \in Merging, BothLeft
  PROVE  /\ a[i] \in Nat /\ b[j] \in Nat
         /\ \A y \in Passed(a, i) \cup Passed(b, j) : y < a[i] /\ y < b[j]
         /\ \A y \in Range(out) : y < a[i] /\ y < b[j]
<1>1. /\ a \in Seq(Nat) /\ Ascending(a) /\ b \in Seq(Nat) /\ Ascending(b)
      /\ i \in 1..(Len(a) + 1) /\ j \in 1..(Len(b) + 1)
  BY ListFacts DEF ControlInv
<1>2. Below(a, i, b, j) /\ Below(b, j, a, i)
  BY FrontsAsBelow
<1>3. \A y \in Passed(a, i) \cup Passed(b, j) : y < a[i] /\ y < b[j]
  BY <1>1, <1>2, PassedBelow DEF BothLeft
<1>4. Range(out) \subseteq Passed(a, i) \cup Passed(b, j)
  BY DEF Content, Combine, ControlInv, TypeOK
<1>5. i \in 1..Len(a) /\ j \in 1..Len(b)
  BY <1>1 DEF BothLeft
<1>6. a[i] \in Nat /\ b[j] \in Nat
  BY <1>1, <1>5
<1> QED BY <1>3, <1>4, <1>6

LEMMA ContentStep ==
  ASSUME ControlInv, FrontsApart, Content, [Next]_vars
  PROVE  Content'
<1>0. /\ a \in Seq(Nat) /\ Ascending(a) /\ b \in Seq(Nat) /\ Ascending(b)
      /\ Len(a) \in Nat /\ Len(b) \in Nat
      /\ i \in 1..(Len(a) + 1) /\ j \in 1..(Len(b) + 1)
      /\ out \in Seq(Nat) /\ op \in {"and", "or", "not"}
  BY ListFacts DEF ControlInv, TypeOK
<1>1. CASE ReturnEarly
  BY <1>1 DEF ReturnEarly, Content, Merging
<1>2. CASE EnterLoop
  <2>1. /\ i' = 1 /\ j' = 1 /\ out' = <<>> /\ UNCHANGED <<op, a, b>>
    BY <1>2 DEF EnterLoop, ControlInv, Inside
  <2>2. Passed(a, 1) = {} /\ Passed(b, 1) = {} /\ Range(<<>>) = {}
    BY <1>0, EmptyList, EmptySeq, NoElements
  <2>3. Ascending(<<>>)
    BY EmptySeq DEF Ascending
  <2> QED BY <1>0, <2>1, <2>2, <2>3 DEF Content, Combine
<1>3. CASE Match
  <2>1. /\ pc \in Merging /\ BothLeft /\ a[i] = b[j]
        /\ i' = i + 1 /\ j' = j + 1 /\ UNCHANGED <<op, a, b, pc>>
        /\ out' = IF op = "not" THEN out ELSE Append(out, a[i])
    BY <1>3 DEF Match, Merging
  <2>2. /\ Passed(a, i + 1) = Passed(a, i) \cup {a[i]}
        /\ Passed(b, j + 1) = Passed(b, j) \cup {a[i]}
    <3>1. i \in 1..Len(a) /\ j \in 1..Len(b) /\ b[j] = a[i]
      BY <1>0, <2>1 DEF BothLeft
    <3>2. Passed(a, i + 1) = Passed(a, i) \cup {a[i]}
      BY <1>0, <3>1, PassedNext
    <3>3. Passed(b, j + 1) = Passed(b, j) \cup {b[j]}
      BY <1>0, <3>1, PassedNext
    <3> QED BY <3>1, <3>2, <3>3
  <2>3. /\ a[i] \in Nat /\ \A y \in Range(out) : y < a[i]
        /\ \A y \in Passed(a, i) \cup Passed(b, j) : y < a[i]
    BY <2>1, FrontFacts
  <2>4. a[i] \notin Passed(a, i) \cup Passed(b, j)
    BY <2>3
  <2>5. Range(out) = Combine(Passed(a, i), Passed(b, j)) /\ Ascending(out)
    BY <2>1 DEF Content
  <2>6. /\ Range(Append(out, a[i])) = Range(out) \cup {a[i]}
        /\ Ascending(Append(out, a[i]))
    BY <1>0, <2>3, <2>5, AppendAscends
  <2>7. Ascending(out')
    BY <2>1, <2>5, <2>6
  <2>8. Range(out') = Combine(Passed(a, i + 1), Passed(b, j + 1))
    BY <1>0, <2>1, <2>2, <2>4, <2>5, <2>6 DEF Combine
  <2> QED BY <2>1, <2>7, <2>8 DEF Content, Combine
<1>4. CASE TakeA
  <2>1. /\ pc \in Merging /\ BothLeft /\ op # "and"
        /\ i' = i + 1 /\ out' = Append(out, a[i]) /\ UNCHANGED <<op, a, b, j, pc>>
    BY <1>4 DEF TakeA, Merging
  <2>2. Passed(a, i + 1) = Passed(a, i) \cup {a[i]}
    BY <1>0, <2>1, PassedNext DEF BothLeft
  <2>3. /\ a[i] \in Nat /\ \A y \in Range(out) : y < a[i]
        /\ \A y \in Passed(a, i) \cup Passed(b, j) : y < a[i]
    BY <2>1, FrontFacts
  <2>4. a[i] \notin Passed(a, i) \cup Passed(b, j)
    BY <2>3
  <2>5. Range(out) = Combine(Passed(a, i), Passed(b, j)) /\ Ascending(out)
    BY <2>1 DEF Content
  <2>6. Range(out') = Range(out) \cup {a[i]} /\ Ascending(out')
    BY <1>0, <2>1, <2>3, <2>5, AppendAscends
  <2>7. Range(out') = Combine(Passed(a, i + 1), Passed(b, j))
    BY <1>0, <2>1, <2>2, <2>4, <2>5, <2>6 DEF Combine
  <2> QED BY <2>1, <2>6, <2>7 DEF Content, Combine
<1>5. CASE TakeB
  <2>1. /\ pc \in Merging /\ BothLeft /\ op = "or"
        /\ j' = j + 1 /\ out' = Append(out, b[j]) /\ UNCHANGED <<op, a, b, i, pc>>
    BY <1>5 DEF TakeB, Merging
  <2>2. Passed(b, j + 1) = Passed(b, j) \cup {b[j]}
    BY <1>0, <2>1, PassedNext DEF BothLeft
  <2>3. b[j] \in Nat /\ \A y \in Range(out) : y < b[j]
    BY <2>1, FrontFacts
  <2>4. Range(out) = Combine(Passed(a, i), Passed(b, j)) /\ Ascending(out)
    BY <2>1 DEF Content
  <2>5. Range(out') = Range(out) \cup {b[j]} /\ Ascending(out')
    BY <1>0, <2>1, <2>3, <2>4, AppendAscends
  <2>6. Range(out') = Combine(Passed(a, i), Passed(b, j + 1))
    BY <2>1, <2>2, <2>4, <2>5 DEF Combine
  <2> QED BY <2>1, <2>5, <2>6 DEF Content, Combine
<1>6. CASE DropB
  <2>1. /\ pc \in Merging /\ BothLeft /\ op = "not" /\ b[j] < a[i]
        /\ j' = j + 1 /\ UNCHANGED <<op, a, b, i, out, pc>>
    BY <1>6 DEF DropB, Merging
  <2>2. Passed(b, j + 1) = Passed(b, j) \cup {b[j]}
    BY <1>0, <2>1, PassedNext DEF BothLeft
  <2>3. b[j] \in Nat /\ \A y \in Passed(a, i) : y < b[j]
    BY <2>1, FrontFacts
  <2>4. b[j] \notin Passed(a, i)
    BY <2>3
  <2>5. Range(out) = Combine(Passed(a, i), Passed(b, j)) /\ Ascending(out)
    BY <2>1 DEF Content
  <2>6. Range(out) = Combine(Passed(a, i), Passed(b, j + 1))
    BY <2>1, <2>2, <2>4, <2>5 DEF Combine
  <2> QED BY <2>1, <2>5, <2>6 DEF Content, Combine
<1>7. ASSUME pc \in Merging, BothLeft, op = "and",
             i' \in i..(Len(a) + 1), UNCHANGED <<op, a, b, j, out>>
      PROVE  Content'
  <2>1. Below(b, j, a, i)
    BY <1>7, FrontsAsBelow
  <2>2. ASSUME NEW z \in i..(Len(a) + 1)
        PROVE  Passed(a, z) \cap Passed(b, j) = Passed(a, i) \cap Passed(b, j)
    BY <1>0, <2>1, LeapAddsNothing
  <2> QED BY <1>7, <2>2 DEF Content, Combine
<1>8. ASSUME pc \in Merging, BothLeft, op = "and",
             j' \in j..(Len(b) + 1), UNCHANGED <<op, a, b, i, out>>
      PROVE  Content'
  <2>1. Below(a, i, b, j)
    BY <1>8, FrontsAsBelow
  <2>2. ASSUME NEW z \in j..(Len(b) + 1)
        PROVE  Passed(b, z) \cap Passed(a, i) = Passed(b, j) \cap Passed(a, i)
    BY <1>0, <2>1, LeapAddsNothing
  <2> QED BY <1>8, <2>2 DEF Content, Combine
<1>9. CASE SkipA
  <2>1. CASE CanLeap(a, i, b[j])
    <3>1. i' \in (i + 1)..Len(a)
      BY <1>0, <1>9, <2>1, LeapLands DEF SkipA, BothLeft
    <3>2. i' \in i..(Len(a) + 1)
      BY <1>0, <3>1
    <3> QED BY <1>7, <1>9, <3>2 DEF SkipA, Merging
  <2>2. CASE ~CanLeap(a, i, b[j])
    <3>1. i' \in i..(Len(a) + 1)
      BY <1>0, <1>9, <2>2 DEF SkipA, BothLeft
    <3> QED BY <1>7, <1>9, <3>1 DEF SkipA, Merging
  <2> QED BY <2>1, <2>2
<1>10. CASE SkipB
  <2>1. CASE CanLeap(b, j, a[i])
    <3>1. j' \in (j + 1)..Len(b)
      BY <1>0, <1>10, <2>1, LeapLands DEF SkipB, BothLeft
    <3>2. j' \in j..(Len(b) + 1)
      BY <1>0, <3>1
    <3> QED BY <1>8, <1>10, <3>2 DEF SkipB, Merging
  <2>2. CASE ~CanLeap(b, j, a[i])
    <3>1. j' \in j..(Len(b) + 1)
      BY <1>0, <1>10, <2>2, SMTT(30) DEF SkipB, BothLeft
    <3> QED BY <1>8, <1>10, <3>1 DEF SkipB, Merging
  <2> QED BY <2>1, <2>2
<1>11. CASE LeapA
  <2>1. pc \in Merging /\ BothLeft /\ op = "and" /\ UNCHANGED <<op, a, b, j, out>>
    BY <1>11 DEF LeapA, Merging, ControlInv, Inside
  <2>2. i' \in i..(Len(a) + 1)
    <3>1. CASE CanLeap(a, i, b[j])
      <4>1. i' \in (i + 1)..Len(a)
        BY <1>0, <1>11, <2>1, <3>1, LeapLands DEF LeapA, BothLeft
      <4> QED BY <1>0, <4>1
    <3>2. CASE ~CanLeap(a, i, b[j])
      BY <1>0, <1>11, <3>2 DEF LeapA
    <3> QED BY <3>1, <3>2
  <2> QED BY <1>7, <2>1, <2>2
<1>12. CASE LeapB
  <2>1. pc \in Merging /\ BothLeft /\ op = "and" /\ UNCHANGED <<op, a, b, i, out>>
    BY <1>12 DEF LeapB, Merging, ControlInv, Inside
  <2>2. j' \in j..(Len(b) + 1)
    <3>1. CASE CanLeap(b, j, a[i])
      <4>1. j' \in (j + 1)..Len(b)
        BY <1>0, <1>12, <2>1, <3>1, LeapLands DEF LeapB, BothLeft
      <4> QED BY <1>0, <4>1
    <3>2. CASE ~CanLeap(b, j, a[i])
      BY <1>0, <1>12, <3>2 DEF LeapB
    <3> QED BY <3>1, <3>2
  <2> QED BY <1>8, <2>1, <2>2
<1>13. CASE LeaveLoop
  BY <1>13 DEF LeaveLoop, Content, Merging
<1>14. CASE UNCHANGED vars
  BY <1>14 DEF vars, Content, Combine
<1> QED
  BY <1>1, <1>2, <1>3, <1>4, <1>5, <1>6, <1>9, <1>10, <1>11, <1>12, <1>13, <1>14
  DEF Next, Step, Returned

(* Where a merge ends, the passed parts and the rests make up the lists,   *)
(* and one rest is empty.                                                  *)
LEMMA CorrectStep ==
  ASSUME ControlInv, FrontsApart, Content, Correct, [Next]_vars
  PROVE  Correct'
<1>0. /\ a \in Seq(Nat) /\ Ascending(a) /\ b \in Seq(Nat) /\ Ascending(b)
      /\ Len(a) \in Nat /\ Len(b) \in Nat
      /\ i \in 1..(Len(a) + 1) /\ j \in 1..(Len(b) + 1)
      /\ out \in Seq(Nat) /\ op \in {"and", "or", "not"}
  BY ListFacts DEF ControlInv, TypeOK
<1>1. CASE ReturnEarly
  <2>1. UNCHANGED <<op, a, b>> /\ (a = <<>> \/ b = <<>>)
    BY <1>1 DEF ReturnEarly
  <2>2. (a = <<>> => Range(a) = {}) /\ (b = <<>> => Range(b) = {})
    BY <1>0, EmptySeq, NoElements
  <2>3. Ascending(<<>>) /\ Range(<<>>) = {}
    <3>1. Ascending(<<>>)
      BY EmptySeq DEF Ascending
    <3>2. Range(<<>>) = {}
      BY EmptySeq, NoElements
    <3> QED BY <3>1, <3>2
  <2>4. out' = CASE op = "and" -> <<>>
                 [] op = "or"  -> IF a = <<>> THEN b ELSE a
                 [] op = "not" -> a
    BY <1>1 DEF ReturnEarly
  <2>5. CASE op = "and"
    BY <2>1, <2>2, <2>3, <2>4, <2>5 DEF Correct, Combine
  <2>6. CASE op = "or"
    BY <1>0, <2>1, <2>2, <2>4, <2>6 DEF Correct, Combine
  <2>7. CASE op = "not"
    BY <1>0, <2>1, <2>2, <2>4, <2>7 DEF Correct, Combine
  <2> QED BY <1>0, <2>5, <2>6, <2>7
<1>2. CASE LeaveLoop
  <2> DEFINE PA == Passed(a, i)
             PB == Passed(b, j)
             RA == Range(Rest(a, i))
             RB == Range(Rest(b, j))
  <2>1. UNCHANGED <<op, a, b>> /\ ~BothLeft /\ pc \in Merging
    BY <1>2 DEF LeaveLoop, Merging
  <2>2. /\ Rest(a, i) \in Seq(Nat) /\ Ascending(Rest(a, i))
        /\ Rest(b, j) \in Seq(Nat) /\ Ascending(Rest(b, j))
        /\ Range(a) = PA \cup RA /\ Range(b) = PB \cup RB
    BY <1>0, RestFacts
  <2>3. Below(a, i, b, j) /\ Below(b, j, a, i)
    BY <2>1, FrontsAsBelow
  <2>4. /\ \A y \in PA \cup PB, z \in RA : y < z
        /\ \A y \in PA \cup PB, z \in RB : y < z
    BY <1>0, <2>3, PassedBelow
  <2>5. RA = {} \/ RB = {}
    <3>1. Len(a) < i \/ Len(b) < j
      BY <1>0, <2>1 DEF BothLeft
    <3>2. Len(a) < i => RA = {}
      BY <1>0, EmptyList
    <3>3. Len(b) < j => RB = {}
      BY <1>0, EmptyList
    <3> QED BY <3>1, <3>2, <3>3
  <2>6. RA \subseteq Nat /\ RB \subseteq Nat
    BY <2>2, RangeOfSeq
  <2>7. Range(out) = Combine(PA, PB) /\ Ascending(out)
    BY <2>1 DEF Content
  <2>8. Range(out) \subseteq PA \cup PB
    BY <1>0, <2>7 DEF Combine
  <2> HIDE DEF PA, PB, RA, RB
  <2>9. (PA \cup PB) \cap RA = {} /\ (PA \cup PB) \cap RB = {}
    <3>1. \A x \in Nat : ~(x < x)
      OBVIOUS
    <3> QED BY <2>4, <2>6, <3>1, Zenon
  <2>10. /\ out \o Rest(a, i) \in Seq(Nat) /\ Ascending(out \o Rest(a, i))
         /\ Range(out \o Rest(a, i)) = Range(out) \cup RA
    BY <1>0, <2>2, <2>4, <2>7, <2>8, ConcatAscends DEF RA
  <2>11. CASE op = "and"
    <3>1. out' = out
      BY <1>2, <2>11 DEF LeaveLoop
    <3> QED BY <2>1, <2>2, <2>5, <2>7, <2>9, <2>11, <3>1 DEF Correct, Combine
  <2>12. CASE op = "not"
    <3>1. out' = out \o Rest(a, i)
      BY <1>2, <2>12 DEF LeaveLoop
    <3>2. Range(out') = Range(a) \ Range(b)
      BY <2>2, <2>5, <2>7, <2>9, <2>10, <2>12, <3>1 DEF Combine
    <3> QED BY <2>1, <2>10, <2>12, <3>1, <3>2 DEF Correct, Combine
  <2>13. CASE op = "or"
    <3>1. out' = (out \o Rest(a, i)) \o Rest(b, j)
      BY <1>2, <2>13 DEF LeaveLoop
    <3>2. \A y \in Range(out \o Rest(a, i)), z \in RB : y < z
      BY <2>4, <2>5, <2>8, <2>10
    <3>3. /\ Ascending(out')
          /\ Range(out') = (Range(out) \cup RA) \cup RB
      BY <2>2, <2>10, <3>1, <3>2, ConcatAscends DEF RB
    <3>4. Range(out') = Range(a) \cup Range(b)
      BY <2>2, <2>7, <2>13, <3>3 DEF Combine
    <3> QED BY <2>1, <2>13, <3>3, <3>4 DEF Correct, Combine
  <2> QED BY <1>0, <2>11, <2>12, <2>13
<1>3. CASE EnterLoop \/ Match \/ TakeA \/ TakeB \/ DropB
  BY <1>3 DEF EnterLoop, Match, TakeA, TakeB, DropB, Correct
<1>4. CASE SkipA \/ SkipB \/ LeapA \/ LeapB
  BY <1>4 DEF SkipA, SkipB, LeapA, LeapB, Correct
<1>5. CASE UNCHANGED vars
  BY <1>5 DEF vars, Correct, Combine
<1> QED BY <1>1, <1>2, <1>3, <1>4, <1>5 DEF Next, Step, Returned

(* Whatever ascending lists they are given, the three functions return the *)
(* intersection, union or difference of the two sets, in ascending order   *)
(* and without repetition.                                                 *)
THEOREM MergesAreCorrect == Spec => []Correct
<1>1. Init => Content /\ Correct
  BY DEF Init, Content, Correct, Merging
<1>2. ControlInv /\ FrontsApart /\ Content /\ Correct /\ [Next]_vars
        => Content' /\ Correct'
  BY ContentStep, CorrectStep
<1> QED BY <1>1, <1>2, ControlHolds, FrontsStayApart, PTL DEF Spec

-----------------------------------------------------------------------------
(***************************************************************************)
(* The two position scans find a pair exactly if there is one, for any     *)
(* ascending lists of positions and any distance.                          *)
(***************************************************************************)

LEMMA PositionFacts ==
  ASSUME ScanTypeOK
  PROVE  /\ Len(pa) \in Nat /\ Len(pb) \in Nat /\ k \in Nat
         /\ ia \in 1..(Len(pa) + 1) /\ ib \in 1..(Len(pb) + 1)
         /\ \A m \in 1..Len(pa) : pa[m] \in Nat
         /\ \A n \in 1..Len(pb) : pb[n] \in Nat
         /\ \A m \in ia..Len(pa) : ia <= Len(pa) => pa[ia] <= pa[m]
         /\ \A n \in ib..Len(pb) : ib <= Len(pb) => pb[ib] <= pb[n]
<1>1. pa \in Seq(Nat) /\ Ascending(pa) /\ pb \in Seq(Nat) /\ Ascending(pb)
  BY ListsAssumption DEF ScanTypeOK
<1>2. /\ \A m \in 1..Len(pa) : pa[m] \in Nat
      /\ \A n \in 1..Len(pb) : pb[n] \in Nat
  BY <1>1
<1>3. ASSUME NEW m \in ia..Len(pa), ia <= Len(pa) PROVE pa[ia] <= pa[m]
  <2>1. ia \in 1..Len(pa) /\ m \in 1..Len(pa) /\ (ia = m \/ ia < m)
    BY <1>1, <1>3 DEF ScanTypeOK
  <2> QED BY <1>1, <1>2, <2>1 DEF Ascending
<1>4. ASSUME NEW n \in ib..Len(pb), ib <= Len(pb) PROVE pb[ib] <= pb[n]
  <2>1. ib \in 1..Len(pb) /\ n \in 1..Len(pb) /\ (ib = n \/ ib < n)
    BY <1>1, <1>4 DEF ScanTypeOK
  <2> QED BY <1>1, <1>2, <2>1 DEF Ascending
<1> QED BY <1>1, <1>2, <1>3, <1>4, DistancesAssumption DEF ScanTypeOK

(* The indexes stay in their lists or one past the end. *)
THEOREM ScanTypeCorrect == ScanSpec => []ScanTypeOK
<1>1. ScanInit => ScanTypeOK
  <2> SUFFICES ASSUME ScanInit PROVE ScanTypeOK
    OBVIOUS
  <2>1. Len(pa) \in Nat /\ Len(pb) \in Nat
    BY ListsAssumption DEF ScanInit
  <2>2. 1 \in 1..(Len(pa) + 1) /\ 1 \in 1..(Len(pb) + 1)
    BY <2>1
  <2> QED BY <2>2 DEF ScanInit, ScanTypeOK
<1>2. ScanTypeOK /\ [ScanNext]_scanVars => ScanTypeOK'
  <2> SUFFICES ASSUME ScanTypeOK, [ScanNext]_scanVars PROVE ScanTypeOK'
    OBVIOUS
  <2>1. Len(pa) \in Nat /\ Len(pb) \in Nat
    BY PositionFacts
  <2>2. CASE FindPair
    BY <2>2 DEF FindPair, ScanTypeOK
  <2>3. CASE PassNear
    BY <2>1, <2>3 DEF PassNear, PassPa, PassPb, PairLeft, ScanTypeOK
  <2>4. CASE PassAdj
    BY <2>1, <2>4 DEF PassAdj, PassPa, PassPb, PairLeft, ScanTypeOK
  <2>5. CASE NoPairLeft
    BY <2>5 DEF NoPairLeft, ScanTypeOK
  <2>6. CASE UNCHANGED scanVars
    BY <2>6 DEF scanVars, ScanTypeOK
  <2> QED BY <2>2, <2>3, <2>4, <2>5, <2>6 DEF ScanNext, ScanStep, ScanReturned
<1> QED BY <1>1, <1>2, PTL DEF ScanSpec

-----------------------------------------------------------------------------
(* The position that an iteration passes has no partner ahead. *)
LEMMA NoPartnerAhead ==
  ASSUME ScanTypeOK, PairLeft, ~Hit(pa[ia], pb[ib])
  PROVE  /\ rel = "near" /\ pa[ia] < pb[ib] =>
              \A n \in ib..Len(pb) : ~Hit(pa[ia], pb[n])
         /\ rel = "near" /\ pa[ia] >= pb[ib] =>
              \A m \in ia..Len(pa) : ~Hit(pa[m], pb[ib])
         /\ rel = "adj" /\ pb[ib] <= pa[ia] =>
              \A m \in ia..Len(pa) : ~Hit(pa[m], pb[ib])
         /\ rel = "adj" /\ pb[ib] > pa[ia] =>
              \A n \in ib..Len(pb) : ~Hit(pa[ia], pb[n])
<1>1. /\ ia \in 1..Len(pa) /\ ib \in 1..Len(pb) /\ k \in Nat
      /\ \A m \in 1..Len(pa) : pa[m] \in Nat
      /\ \A n \in 1..Len(pb) : pb[n] \in Nat
      /\ \A m \in ia..Len(pa) : m \in 1..Len(pa) /\ pa[ia] <= pa[m]
      /\ \A n \in ib..Len(pb) : n \in 1..Len(pb) /\ pb[ib] <= pb[n]
  BY PositionFacts DEF PairLeft
<1>2. ASSUME NEW m \in ia..Len(pa), rel = "near", pa[ia] >= pb[ib]
      PROVE  ~Hit(pa[m], pb[ib])
  BY <1>1, <1>2 DEF Hit, Abs
<1>3. ASSUME NEW n \in ib..Len(pb), rel = "near", pa[ia] < pb[ib]
      PROVE  ~Hit(pa[ia], pb[n])
  BY <1>1, <1>3 DEF Hit, Abs
<1>4. ASSUME NEW m \in ia..Len(pa), rel = "adj", pb[ib] <= pa[ia]
      PROVE  ~Hit(pa[m], pb[ib])
  BY <1>1, <1>4 DEF Hit
<1>5. ASSUME NEW n \in ib..Len(pb), rel = "adj", pb[ib] > pa[ia]
      PROVE  ~Hit(pa[ia], pb[n])
  BY <1>1, <1>5 DEF Hit
<1> QED BY <1>2, <1>3, <1>4, <1>5

(* The answer is yes only where a pair was found. *)
FoundInv ==
  /\ found => \E m \in 1..Len(pa), n \in 1..Len(pb) : Hit(pa[m], pb[n])
  /\ ~found /\ scanPc = "done" => ~PairLeft
  /\ scanPc = "scan" => ~found

LEMMA MissedStep ==
  ASSUME ScanTypeOK, NothingMissed, [ScanNext]_scanVars
  PROVE  NothingMissed'
<1>0. /\ Len(pa) \in Nat /\ Len(pb) \in Nat
      /\ ia \in 1..(Len(pa) + 1) /\ ib \in 1..(Len(pb) + 1)
  BY PositionFacts
<1>1. ASSUME PairLeft, PassPa, \A n \in ib..Len(pb) : ~Hit(pa[ia], pb[n])
      PROVE  NothingMissed'
  <2> SUFFICES ASSUME NEW m \in 1..Len(pa), NEW n \in 1..Len(pb),
                      m < ia + 1 \/ n < ib
               PROVE  ~Hit(pa[m], pb[n])
    BY <1>1 DEF PassPa, NothingMissed, Hit
  <2>1. m < ia \/ n < ib \/ (m = ia /\ n \in ib..Len(pb))
    BY <1>0
  <2> QED BY <1>1, <2>1 DEF NothingMissed
<1>2. ASSUME PairLeft, PassPb, \A m \in ia..Len(pa) : ~Hit(pa[m], pb[ib])
      PROVE  NothingMissed'
  <2> SUFFICES ASSUME NEW m \in 1..Len(pa), NEW n \in 1..Len(pb),
                      m < ia \/ n < ib + 1
               PROVE  ~Hit(pa[m], pb[n])
    BY <1>2 DEF PassPb, NothingMissed, Hit
  <2>1. m < ia \/ n < ib \/ (n = ib /\ m \in ia..Len(pa))
    BY <1>0
  <2> QED BY <1>2, <2>1 DEF NothingMissed
<1>3. CASE PassNear
  BY <1>1, <1>2, <1>3, NoPartnerAhead DEF PassNear
<1>4. CASE PassAdj
  BY <1>1, <1>2, <1>4, NoPartnerAhead DEF PassAdj
<1>5. CASE FindPair \/ NoPairLeft \/ UNCHANGED scanVars
  BY <1>5 DEF FindPair, NoPairLeft, scanVars, NothingMissed, Hit
<1> QED BY <1>3, <1>4, <1>5 DEF ScanNext, ScanStep, ScanReturned

LEMMA FoundStep ==
  ASSUME ScanTypeOK, FoundInv, [ScanNext]_scanVars
  PROVE  FoundInv'
<1>1. CASE FindPair
  <2>1. ia \in 1..Len(pa) /\ ib \in 1..Len(pb)
    BY <1>1, PositionFacts DEF FindPair, PairLeft
  <2> QED BY <1>1, <2>1 DEF FindPair, FoundInv, Hit
<1>2. CASE PassNear \/ PassAdj
  BY <1>2 DEF PassNear, PassAdj, PassPa, PassPb, FoundInv, Hit
<1>3. CASE NoPairLeft
  BY <1>3 DEF NoPairLeft, FoundInv, Hit, PairLeft
<1>4. CASE UNCHANGED scanVars
  BY <1>4 DEF scanVars, FoundInv, Hit, PairLeft
<1> QED BY <1>1, <1>2, <1>3, <1>4 DEF ScanNext, ScanStep, ScanReturned

(* No position is passed while a partner of it is still ahead. *)
THEOREM NothingIsMissed == ScanSpec => []NothingMissed
<1>1. ScanInit => NothingMissed
  BY DEF ScanInit, NothingMissed
<1>2. ScanTypeOK /\ NothingMissed /\ [ScanNext]_scanVars => NothingMissed'
  BY MissedStep
<1> QED BY <1>1, <1>2, ScanTypeCorrect, PTL DEF ScanSpec

(* positionsNear and positionsAdj answer yes exactly if there is a pair of *)
(* positions as the query asks for.                                        *)
THEOREM ScansAreCorrect == ScanSpec => []ScanCorrect
<1>1. ScanInit => FoundInv
  BY DEF ScanInit, FoundInv
<1>2. ScanTypeOK /\ FoundInv /\ [ScanNext]_scanVars => FoundInv'
  BY FoundStep
<1>3. ScanTypeOK /\ NothingMissed /\ FoundInv => ScanCorrect
  <2> SUFFICES ASSUME ScanTypeOK, NothingMissed, FoundInv, scanPc = "done", ~found,
                      NEW m \in 1..Len(pa), NEW n \in 1..Len(pb)
               PROVE  ~Hit(pa[m], pb[n])
    BY DEF ScanCorrect, FoundInv
  <2>1. m < ia \/ n < ib
    BY PositionFacts DEF FoundInv, PairLeft
  <2> QED BY <2>1 DEF NothingMissed
<1> QED BY <1>1, <1>2, <1>3, ScanTypeCorrect, NothingIsMissed, PTL DEF ScanSpec

-----------------------------------------------------------------------------
(***************************************************************************)
(* The window of TermWindow, for all documents, lists of terms and widths. *)
(*                                                                         *)
(* The loop looks at one window for each right end, and what it leaves out *)
(* will not do: a window that starts left of l is too wide already, and    *)
(* one inside a window without all the terms is without all of them.  That *)
(* is WindowInv; the rest carries it from occurrences to positions.        *)
(***************************************************************************)

(* The occurrences of t among those from first to last. *)
Occurrences(first, last, t) == {n \in first..last : evs[n].t = t}

HasTerms(first, last) ==
  \A t \in DOMAIN need : Cardinality(Occurrences(first, last, t)) >= need[t]

WindowTypeOK ==
  /\ doc \in Documents /\ terms \in TermLists /\ w \in Widths
  /\ r \in 0..Len(evs) /\ l \in 1..(r + 1)
  /\ have \in [DOMAIN need -> Int]
  /\ answer \in BOOLEAN
  /\ windowPc \in {"start", "add", "shrink", "done"}

(* have counts the occurrences in the window. *)
HaveCounts == \A t \in DOMAIN need : have[t] = Cardinality(Occurrences(l, r, t))

(* What has left the window is too far from its end. *)
LeftIsFar == \A m \in 1..(l - 1) : evs[r].pos - evs[m].pos > w

(* No window that ends where the loop has been will do. *)
TriedEnd(last) == last < r \/ (last = r /\ windowPc # "shrink")

TriedFail ==
  \A last \in 1..r : TriedEnd(last) /\ ~answer =>
    \A first \in 1..last : HasTerms(first, last) => evs[last].pos - evs[first].pos > w

AnswerInv ==
  /\ windowPc = "start" => r = 0
  /\ windowPc = "shrink" => l <= r
  /\ windowPc \in {"add", "shrink"} => ~answer /\ terms # <<>>
  /\ answer => l <= r /\ terms # <<>> /\ Satisfied /\ Fits
  /\ windowPc = "done" /\ ~answer => doc = <<>> \/ terms = <<>> \/ r = Len(evs)

WindowInv == WindowTypeOK /\ HaveCounts /\ LeftIsFar /\ TriedFail /\ AnswerInv

\* The occurrences of the query's terms ascend, and none is left out.
LEMMA EventFacts ==
  ASSUME doc \in Documents, terms \in TermLists, w \in Widths
  PROVE  /\ w \in Int /\ Len(doc) \in Nat /\ Len(terms) \in Nat /\ Len(evs) \in Nat
         /\ terms # <<>> => 1 \in 1..Len(terms)
         /\ DOMAIN need = TermsOf(terms)
         /\ \A m \in 1..Len(evs) :
              /\ evs[m].pos \in 0..(Len(doc) - 1)
              /\ evs[m].t = doc[evs[m].pos + 1] /\ evs[m].t \in DOMAIN need
         /\ \A m, n \in 1..Len(evs) : m < n => evs[m].pos < evs[n].pos
         /\ \A n \in 1..Len(doc) :
              doc[n] \in DOMAIN need => \E m \in 1..Len(evs) : evs[m].pos = n - 1
<1> DEFINE S == {n \in 1..Len(doc) : doc[n] \in DOMAIN need}
           at == InOrder(S)
<1>1. /\ doc \in Seq(TermsOf(doc)) /\ terms \in Seq(TermsOf(terms)) /\ w \in Int
      /\ Len(doc) \in Nat /\ Len(terms) \in Nat
  BY WindowsAssumption
<1>2. terms # <<>> => 1 \in 1..Len(terms)
  BY <1>1
<1>3. DOMAIN need = TermsOf(terms)
  BY DEF need
<1>4. S \in SUBSET Int /\ IsFiniteSet(S)
  <2>1. 1 \in Int /\ Len(doc) \in Int
    BY <1>1
  <2>2. IsFiniteSet(1..Len(doc))
    BY <2>1, FS_Interval
  <2>3. S \in SUBSET (1..Len(doc))
    OBVIOUS
  <2> QED BY <1>1, <2>2, <2>3, FS_Subset
<1>5. evs = [m \in 1..Len(at) |-> [pos |-> at[m] - 1, t |-> doc[at[m]]]]
  BY DEF evs
<1> HIDE DEF at
<1>6. /\ at \in Seq(S) /\ Ascends(at)
      /\ {at[m] : m \in 1..Len(at)} = S
  BY <1>4, InOrderAscends DEF at
<1>7. Len(at) \in Nat /\ \A m \in 1..Len(at) : at[m] \in S
  BY <1>6
<1>8. Len(evs) = Len(at)
  BY <1>5, <1>7
<1>9. \A m \in 1..Len(evs) :
        /\ evs[m].pos = at[m] - 1 /\ evs[m].t = doc[at[m]]
        /\ at[m] \in 1..Len(doc) /\ doc[at[m]] \in DOMAIN need
  BY <1>5, <1>7, <1>8
<1>10. \A m \in 1..Len(evs) :
         /\ evs[m].pos \in 0..(Len(doc) - 1)
         /\ evs[m].t = doc[evs[m].pos + 1] /\ evs[m].t \in DOMAIN need
  <2> SUFFICES ASSUME NEW m \in 1..Len(evs)
               PROVE  /\ evs[m].pos \in 0..(Len(doc) - 1)
                      /\ evs[m].t = doc[evs[m].pos + 1] /\ evs[m].t \in DOMAIN need
    OBVIOUS
  <2>1. evs[m].pos = at[m] - 1 /\ at[m] \in 1..Len(doc)
    BY <1>9
  <2>2. evs[m].pos + 1 = at[m] /\ evs[m].pos \in 0..(Len(doc) - 1)
    BY <1>1, <2>1
  <2> QED BY <1>9, <2>2
<1>11. \A m, n \in 1..Len(evs) : m < n => evs[m].pos < evs[n].pos
  <2> SUFFICES ASSUME NEW m \in 1..Len(evs), NEW n \in 1..Len(evs), m < n
               PROVE  evs[m].pos < evs[n].pos
    OBVIOUS
  <2>1. at[m] < at[n]
    BY <1>6, <1>8 DEF Ascends
  <2> QED BY <1>1, <1>9, <2>1
<1>12. ASSUME NEW n \in 1..Len(doc), doc[n] \in DOMAIN need
       PROVE  \E m \in 1..Len(evs) : evs[m].pos = n - 1
  <2>1. n \in {at[m] : m \in 1..Len(at)}
    BY <1>6, <1>12
  <2>2. PICK m \in 1..Len(at) : at[m] = n
    BY <2>1
  <2> QED BY <1>8, <1>9, <2>2
<1> QED BY <1>1, <1>2, <1>3, <1>7, <1>8, <1>10, <1>11, <1>12

\* Each term of the query is needed at least once.
LEMMA NeedFacts ==
  ASSUME terms \in TermLists
  PROVE  \A t \in DOMAIN need : need[t] \in Nat \ {0} /\ need[t] = Cardinality(Indexes(terms, t))
<1>1. terms \in Seq(TermsOf(terms)) /\ Len(terms) \in Nat
  BY WindowsAssumption
<1> SUFFICES ASSUME NEW t \in DOMAIN need
             PROVE  need[t] \in Nat \ {0} /\ need[t] = Cardinality(Indexes(terms, t))
  OBVIOUS
<1>2. t \in TermsOf(terms) /\ need[t] = Cardinality(Indexes(terms, t))
  BY DEF need
<1>3. PICK n \in 1..Len(terms) : terms[n] = t
  BY <1>2 DEF TermsOf
<1>4. IsFiniteSet(Indexes(terms, t))
  <2>1. 1 \in Int /\ Len(terms) \in Int
    BY <1>1
  <2>2. IsFiniteSet(1..Len(terms))
    BY <2>1, FS_Interval
  <2>3. Indexes(terms, t) \in SUBSET (1..Len(terms))
    BY DEF Indexes
  <2> QED BY <2>2, <2>3, FS_Subset
<1>5. Indexes(terms, t) # {}
  BY <1>3 DEF Indexes
<1>6. Cardinality(Indexes(terms, t)) \in Nat /\ Cardinality(Indexes(terms, t)) # 0
  BY <1>4, <1>5, FS_CardinalityType, FS_EmptySet
<1> QED BY <1>2, <1>6

\* A larger window has at least as many occurrences.
LEMMA MoreOccurrences ==
  ASSUME NEW first \in Int, NEW last \in Int, NEW inner \in Int, NEW end \in Int,
         first <= inner, end <= last, NEW t
  PROVE  /\ IsFiniteSet(Occurrences(first, last, t))
         /\ Cardinality(Occurrences(first, last, t)) \in Nat
         /\ Cardinality(Occurrences(inner, end, t)) <= Cardinality(Occurrences(first, last, t))
<1>1. IsFiniteSet(first..last)
  BY FS_Interval
<1>2. Occurrences(first, last, t) \in SUBSET (first..last)
  BY DEF Occurrences
<1>3. IsFiniteSet(Occurrences(first, last, t))
  BY <1>1, <1>2, FS_Subset
<1>4. inner..end \subseteq first..last
  OBVIOUS
<1>5. Occurrences(inner, end, t) \in SUBSET Occurrences(first, last, t)
  BY <1>4 DEF Occurrences
<1> QED BY <1>3, <1>5, FS_Subset, FS_CardinalityType

\* One more occurrence at the right, one less at the left.
LEMMA OneOccurrence ==
  ASSUME NEW first \in Int, NEW last \in Int, first <= last, NEW t
  PROVE  /\ Cardinality(Occurrences(first, last, t)) =
              Cardinality(Occurrences(first, last - 1, t)) + (IF evs[last].t = t THEN 1 ELSE 0)
         /\ Cardinality(Occurrences(first + 1, last, t)) =
              Cardinality(Occurrences(first, last, t)) - (IF evs[first].t = t THEN 1 ELSE 0)
<1> DEFINE Whole == Occurrences(first, last, t)
           Left == Occurrences(first, last - 1, t)
           Right == Occurrences(first + 1, last, t)
<1>1. IsFiniteSet(Whole) /\ IsFiniteSet(Left) /\ IsFiniteSet(Right)
  <2>1. last - 1 \in Int /\ first + 1 \in Int /\ first <= first /\ last <= last
    OBVIOUS
  <2>2. IsFiniteSet(Whole)
    BY <2>1, MoreOccurrences
  <2>3. IsFiniteSet(Left)
    <3>1. PICK n \in Int : n = last - 1
      OBVIOUS
    <3>2. IsFiniteSet(Occurrences(first, n, t))
      BY <2>1, MoreOccurrences
    <3> QED BY <3>1, <3>2
  <2>4. IsFiniteSet(Right)
    <3>1. PICK n \in Int : n = first + 1
      OBVIOUS
    <3>2. IsFiniteSet(Occurrences(n, last, t))
      BY <2>1, <3>1, MoreOccurrences
    <3> QED BY <3>1, <3>2
  <2> QED BY <2>2, <2>3, <2>4
<1>2. Left = Whole \ {last} /\ Right = Whole \ {first}
  <2>1. \A n : n \in first..(last - 1) <=> n \in first..last /\ n # last
    OBVIOUS
  <2>2. \A n : n \in (first + 1)..last <=> n \in first..last /\ n # first
    OBVIOUS
  <2> QED BY <2>1, <2>2 DEF Occurrences
<1>3. /\ last \in Whole <=> evs[last].t = t
      /\ first \in Whole <=> evs[first].t = t
  BY DEF Occurrences
<1>4. Cardinality(Whole) \in Nat /\ Cardinality(Left) \in Nat /\ Cardinality(Right) \in Nat
  BY <1>1, FS_CardinalityType
<1> HIDE DEF Whole, Left, Right
<1>5. /\ Cardinality(Left) = IF last \in Whole THEN Cardinality(Whole) - 1 ELSE Cardinality(Whole)
      /\ Cardinality(Right) = IF first \in Whole THEN Cardinality(Whole) - 1 ELSE Cardinality(Whole)
  BY <1>1, <1>2, FS_RemoveElement
<1>6. /\ Cardinality(Whole) = Cardinality(Left) + (IF evs[last].t = t THEN 1 ELSE 0)
      /\ Cardinality(Right) = Cardinality(Whole) - (IF evs[first].t = t THEN 1 ELSE 0)
  BY <1>3, <1>4, <1>5
<1> QED BY <1>6 DEF Whole, Left, Right

\* A step leaves the arguments alone, and with them the occurrences.
LEMMA SameArguments ==
  ASSUME [WindowNext]_windowVars
  PROVE  /\ args' = args /\ doc' = doc /\ terms' = terms /\ w' = w
         /\ need' = need /\ evs' = evs
         /\ \A first, last, t : Occurrences(first, last, t)' = Occurrences(first, last, t)
         /\ \A first, last : HasTerms(first, last)' <=> HasTerms(first, last)
<1>1. args' = args
  BY DEF WindowNext, WindowStep, NothingToFind, EnterWindow, AddOccurrence, FindWindow,
         DropFirst, KeepWindow, NoWindow, WindowReturned, windowVars, args
<1>2. doc' = doc /\ terms' = terms /\ w' = w
  BY <1>1 DEF args
<1>3. need' = need
  BY <1>2 DEF need, TermsOf, Indexes
<1>4. evs' = evs
  BY <1>2, <1>3 DEF evs
<1> QED BY <1>1, <1>2, <1>3, <1>4 DEF Occurrences, HasTerms

LEMMA WindowTypeStep ==
  ASSUME WindowInv, [WindowNext]_windowVars
  PROVE  WindowTypeOK'
<1>0. /\ Len(evs) \in Nat /\ r \in 0..Len(evs) /\ l \in 1..(r + 1) /\ r \in Nat /\ l \in Nat
      /\ \A m \in 1..Len(evs) : evs[m].t \in DOMAIN need
      /\ have \in [DOMAIN need -> Int]
  BY EventFacts DEF WindowInv, WindowTypeOK
<1>1. CASE NothingToFind \/ EnterWindow \/ FindWindow \/ KeepWindow \/ NoWindow \/ UNCHANGED windowVars
  BY <1>1, SameArguments
  DEF NothingToFind, EnterWindow, FindWindow, KeepWindow, NoWindow, windowVars,
      WindowInv, WindowTypeOK
<1>2. CASE AddOccurrence
  <2>1. r + 1 \in 0..Len(evs) /\ l \in 1..(r + 1 + 1) /\ r + 1 \in 1..Len(evs)
    BY <1>0, <1>2 DEF AddOccurrence
  <2>2. [have EXCEPT ![evs[r + 1].t] = @ + 1] \in [DOMAIN need -> Int]
    BY <1>0, <2>1
  <2> QED BY <1>2, <2>1, <2>2, SameArguments DEF AddOccurrence, WindowInv, WindowTypeOK
<1>3. CASE DropFirst
  <2>1. l + 1 \in 1..(r + 1) /\ l \in 1..Len(evs)
    BY <1>0, <1>3 DEF DropFirst, WindowInv, AnswerInv
  <2>2. [have EXCEPT ![evs[l].t] = @ - 1] \in [DOMAIN need -> Int]
    BY <1>0, <2>1
  <2>3. windowPc' \in {"start", "add", "shrink", "done"}
    BY <1>3 DEF DropFirst
  <2> QED BY <1>3, <2>1, <2>2, <2>3, SameArguments DEF DropFirst, WindowInv, WindowTypeOK
<1> QED BY <1>1, <1>2, <1>3 DEF WindowNext, WindowStep, WindowReturned

LEMMA HaveStep ==
  ASSUME WindowInv, [WindowNext]_windowVars
  PROVE  HaveCounts'
<1>0. /\ Len(evs) \in Nat /\ r \in 0..Len(evs) /\ l \in 1..(r + 1) /\ r \in Nat /\ l \in Nat
      /\ have \in [DOMAIN need -> Int]
  BY EventFacts DEF WindowInv, WindowTypeOK
<1>1. CASE NothingToFind \/ EnterWindow \/ FindWindow \/ KeepWindow \/ NoWindow \/ UNCHANGED windowVars
  <2>1. l' = l /\ r' = r /\ have' = have
    BY <1>1 DEF NothingToFind, EnterWindow, FindWindow, KeepWindow, NoWindow, windowVars
  <2> QED BY <2>1, SameArguments DEF HaveCounts, WindowInv
<1>2. CASE AddOccurrence
  <2>1. PICK n \in Int : n = r + 1
    BY <1>0
  <2>2. r' = n /\ l' = l /\ have' = [have EXCEPT ![evs[n].t] = @ + 1] /\ l <= n /\ n - 1 = r
    BY <1>0, <1>2, <2>1 DEF AddOccurrence
  <2> SUFFICES ASSUME NEW t \in DOMAIN need
               PROVE  have'[t] = Cardinality(Occurrences(l, n, t))
    BY <2>2, SameArguments DEF HaveCounts
  <2>3. Cardinality(Occurrences(l, n, t)) =
          Cardinality(Occurrences(l, r, t)) + (IF evs[n].t = t THEN 1 ELSE 0)
    BY <1>0, <2>1, <2>2, OneOccurrence
  <2>4. have[t] = Cardinality(Occurrences(l, r, t)) /\ have[t] \in Int
    BY <1>0 DEF WindowInv, HaveCounts
  <2>5. have'[t] = IF evs[n].t = t THEN have[t] + 1 ELSE have[t]
    BY <1>0, <2>2
  <2> QED BY <2>3, <2>4, <2>5
<1>3. CASE DropFirst
  <2>1. l <= r /\ l \in Int /\ r \in Int
    BY <1>0, <1>3 DEF DropFirst, WindowInv, AnswerInv
  <2>2. r' = r /\ l' = l + 1 /\ have' = [have EXCEPT ![evs[l].t] = @ - 1]
    BY <1>3 DEF DropFirst
  <2>3. PICK n \in Int : n = l + 1
    BY <1>0
  <2> SUFFICES ASSUME NEW t \in DOMAIN need
               PROVE  have'[t] = Cardinality(Occurrences(n, r, t))
    BY <2>2, <2>3, SameArguments DEF HaveCounts
  <2>4. Cardinality(Occurrences(n, r, t)) =
          Cardinality(Occurrences(l, r, t)) - (IF evs[l].t = t THEN 1 ELSE 0)
    BY <2>1, <2>3, OneOccurrence
  <2>5. have[t] = Cardinality(Occurrences(l, r, t)) /\ have[t] \in Int
    BY <1>0 DEF WindowInv, HaveCounts
  <2>6. have'[t] = IF evs[l].t = t THEN have[t] - 1 ELSE have[t]
    BY <1>0, <2>2
  <2> QED BY <2>4, <2>5, <2>6
<1> QED BY <1>1, <1>2, <1>3 DEF WindowNext, WindowStep, WindowReturned

\* satisfied() of the code speaks of the window from l to r.
LEMMA SatisfiedMeans ==
  ASSUME WindowInv
  PROVE  Satisfied <=> HasTerms(l, r)
BY DEF WindowInv, HaveCounts, Satisfied, HasTerms

\* Integers in a row, stated apart from the terms they stand for.
LEMMA FartherOff ==
  ASSUME NEW d \in Int, NEW x \in Int, NEW y \in Int, NEW z \in Int, y - x > d, y < z
  PROVE  z - x > d
OBVIOUS

LEMMA InBetween ==
  ASSUME NEW u \in Int, NEW v \in Int, NEW x \in Int, NEW y \in Int, NEW z \in Int,
         u <= x, x <= y, y <= z, z <= v
  PROVE  y \in u..v
OBVIOUS

LEMMA NoFarther ==
  ASSUME NEW d \in Int, NEW u \in Int, NEW v \in Int, NEW x \in u..v, NEW z \in u..v, v - u <= d
  PROVE  z - x <= d
OBVIOUS

LEMMA LeftStep ==
  ASSUME WindowInv, [WindowNext]_windowVars
  PROVE  LeftIsFar'
<1>0. /\ Len(evs) \in Nat /\ r \in 0..Len(evs) /\ l \in 1..(r + 1) /\ r \in Nat /\ l \in Nat
      /\ Len(doc) \in Nat /\ w \in Int
      /\ \A m \in 1..Len(evs) : evs[m].pos \in Int
      /\ \A m, n \in 1..Len(evs) : m < n => evs[m].pos < evs[n].pos
  BY EventFacts DEF WindowInv, WindowTypeOK
<1>1. CASE NothingToFind \/ EnterWindow \/ FindWindow \/ KeepWindow \/ NoWindow \/ UNCHANGED windowVars
  <2>1. l' = l /\ r' = r
    BY <1>1 DEF NothingToFind, EnterWindow, FindWindow, KeepWindow, NoWindow, windowVars
  <2> QED BY <2>1, SameArguments DEF LeftIsFar, WindowInv
<1>2. CASE AddOccurrence
  <2>1. r' = r + 1 /\ l' = l /\ r < Len(evs)
    BY <1>2 DEF AddOccurrence
  <2> SUFFICES ASSUME NEW m \in 1..(l - 1) PROVE evs[r + 1].pos - evs[m].pos > w
    BY <2>1, SameArguments DEF LeftIsFar
  <2>2. m \in 1..Len(evs) /\ r \in 1..Len(evs) /\ r + 1 \in 1..Len(evs) /\ r < r + 1
    BY <1>0, <2>1
  <2>3. evs[r].pos - evs[m].pos > w
    BY DEF WindowInv, LeftIsFar
  <2>4. evs[r].pos < evs[r + 1].pos
    BY <1>0, <2>2
  <2>5. w \in Int /\ evs[r].pos \in Int /\ evs[r + 1].pos \in Int /\ evs[m].pos \in Int
    BY <1>0, <2>2
  <2> QED BY <2>3, <2>4, <2>5, FartherOff, Zenon
<1>3. CASE DropFirst
  <2>1. r' = r /\ l' = l + 1 /\ ~Fits
    BY <1>3 DEF DropFirst
  <2>2. l \in 1..Len(evs) /\ r \in 1..Len(evs)
    BY <1>0, <1>3 DEF DropFirst, WindowInv, AnswerInv
  <2>3. evs[r].pos - evs[l].pos > w
    BY <1>0, <2>1, <2>2 DEF Fits
  <2> SUFFICES ASSUME NEW m \in 1..l PROVE evs[r].pos - evs[m].pos > w
    <3>1. r' = r /\ 1..(l' - 1) = 1..l
      BY <1>0, <2>1
    <3> QED BY <3>1, SameArguments DEF LeftIsFar
  <2>4. m = l \/ m \in 1..(l - 1)
    BY <1>0
  <2> QED BY <2>3, <2>4 DEF WindowInv, LeftIsFar
<1> QED BY <1>1, <1>2, <1>3 DEF WindowNext, WindowStep, WindowReturned

\* What the loop need not look at: windows inside one that lacks a term, and
\* windows that start left of l.
LEMMA NoOtherWindow ==
  ASSUME WindowInv, r \in 1..Len(evs), ~Satisfied \/ l > r,
         NEW first \in 1..r, HasTerms(first, r)
  PROVE  evs[r].pos - evs[first].pos > w
<1>0. /\ Len(evs) \in Nat /\ l \in Nat /\ r \in Nat /\ first \in Nat
  BY EventFacts DEF WindowInv, WindowTypeOK
<1>1. CASE first < l
  <2>1. first \in 1..(l - 1)
    BY <1>0, <1>1
  <2> QED BY <2>1 DEF WindowInv, LeftIsFar
<1>2. CASE l <= first
  <2>1. l <= r
    BY <1>0, <1>2
  <2>2. ~HasTerms(l, r)
    BY <1>0, <2>1, SatisfiedMeans
  <2>3. PICK t \in DOMAIN need : ~(Cardinality(Occurrences(l, r, t)) >= need[t])
    BY <2>2 DEF HasTerms
  <2>4. Cardinality(Occurrences(first, r, t)) >= need[t]
    BY DEF HasTerms
  <2>5. /\ Cardinality(Occurrences(first, r, t)) <= Cardinality(Occurrences(l, r, t))
        /\ Cardinality(Occurrences(l, r, t)) \in Nat
    BY <1>0, <1>2, MoreOccurrences
  <2>6. Cardinality(Occurrences(first, r, t)) \in Nat
    BY <1>0, MoreOccurrences
  <2>7. need[t] \in Nat
    BY NeedFacts DEF WindowInv, WindowTypeOK
  <2> QED BY <2>3, <2>4, <2>5, <2>6, <2>7
<1> QED BY <1>0, <1>1, <1>2

LEMMA TriedStep ==
  ASSUME WindowInv, [WindowNext]_windowVars
  PROVE  TriedFail'
<1>0. /\ Len(evs) \in Nat /\ r \in 0..Len(evs) /\ l \in 1..(r + 1) /\ r \in Nat /\ l \in Nat
      /\ Len(doc) \in Nat /\ w \in Int
  BY EventFacts DEF WindowInv, WindowTypeOK
<1>1. CASE NothingToFind \/ EnterWindow \/ NoWindow \/ UNCHANGED windowVars
  <2>1. r' = r /\ answer' = answer /\ (windowPc' # "shrink" => windowPc # "shrink")
    BY <1>1 DEF NothingToFind, EnterWindow, NoWindow, windowVars
  <2> QED BY <2>1, SameArguments DEF TriedFail, TriedEnd, WindowInv
<1>2. CASE FindWindow
  BY <1>2 DEF FindWindow, TriedFail
<1>3. CASE AddOccurrence
  <2>1. r' = r + 1 /\ answer' = answer /\ windowPc' = "shrink" /\ windowPc = "add"
    BY <1>3 DEF AddOccurrence
  <2>2. \A last \in 1..(r + 1) : TriedEnd(last)' => last \in 1..r /\ TriedEnd(last)
    BY <1>0, <2>1 DEF TriedEnd
  <2> QED BY <2>1, <2>2, SameArguments DEF TriedFail, WindowInv
\* The last of the windows that end at r has been looked at.
<1>4. ASSUME r \in 1..Len(evs), r' = r, answer' = answer,
             \A first \in 1..r : HasTerms(first, r) => evs[r].pos - evs[first].pos > w
      PROVE  TriedFail'
  <2>1. \A last \in 1..r : last = r \/ TriedEnd(last)
    BY <1>0 DEF TriedEnd
  <2> QED BY <1>4, <2>1, SameArguments DEF TriedFail, WindowInv
<1>5. CASE KeepWindow
  <2>1. r \in 1..Len(evs) /\ r' = r /\ answer' = answer /\ ~Satisfied
    BY <1>0, <1>5 DEF KeepWindow, WindowInv, AnswerInv
  <2>2. \A first \in 1..r : HasTerms(first, r) => evs[r].pos - evs[first].pos > w
    BY <2>1, NoOtherWindow
  <2> QED BY <1>4, <2>1, <2>2
<1>6. CASE DropFirst
  <2>1. l \in 1..r /\ r \in 1..Len(evs) /\ r' = r /\ l' = l + 1 /\ answer' = answer
    BY <1>0, <1>6 DEF DropFirst, WindowInv, AnswerInv
  <2>2. CASE l + 1 > r
    <3>1. LeftIsFar'
      BY LeftStep
    <3>2. \A first \in 1..r : first \in 1..(l' - 1)
      BY <1>0, <2>1, <2>2
    <3>3. \A first \in 1..r : evs[r].pos - evs[first].pos > w
      BY <2>1, <3>1, <3>2, SameArguments DEF LeftIsFar
    <3> QED BY <1>4, <2>1, <3>3
  <2>3. CASE ~(l + 1 > r)
    <3>1. windowPc' = "shrink" /\ windowPc = "shrink"
      BY <1>6, <2>3 DEF DropFirst
    <3> QED BY <2>1, <3>1, SameArguments DEF TriedFail, TriedEnd, WindowInv
  <2> QED BY <2>2, <2>3
<1> QED BY <1>1, <1>2, <1>3, <1>5, <1>6 DEF WindowNext, WindowStep, WindowReturned

LEMMA AnswerStep ==
  ASSUME WindowInv, [WindowNext]_windowVars
  PROVE  AnswerInv'
<1>0. /\ Len(evs) \in Nat /\ r \in 0..Len(evs) /\ l \in 1..(r + 1) /\ r \in Nat /\ l \in Nat
      /\ answer \in BOOLEAN
  BY EventFacts DEF WindowInv, WindowTypeOK
<1>1. CASE NothingToFind
  <2>1. evs = <<>> => Len(evs) = 0
    OBVIOUS
  <2>2. r = 0 /\ ~answer
    BY <1>0, <1>1 DEF NothingToFind, WindowInv, AnswerInv
  <2> QED BY <1>1, <2>1, <2>2, SameArguments DEF NothingToFind, AnswerInv
<1>2. CASE EnterWindow
  <2>1. ~answer /\ terms # <<>>
    BY <1>0, <1>2 DEF EnterWindow, WindowInv, AnswerInv
  <2> QED BY <1>2, <2>1, SameArguments DEF EnterWindow, AnswerInv
<1>3. CASE AddOccurrence
  <2>1. l <= r + 1 /\ ~answer /\ terms # <<>>
    BY <1>0, <1>3 DEF AddOccurrence, WindowInv, AnswerInv
  <2> QED BY <1>3, <2>1, SameArguments DEF AddOccurrence, AnswerInv
<1>4. CASE FindWindow
  <2>1. l <= r /\ Satisfied /\ Fits
    BY <1>4 DEF FindWindow, WindowInv, AnswerInv
  <2>2. Satisfied' /\ Fits'
    BY <1>4, <2>1, SameArguments DEF FindWindow, Satisfied, Fits
  <2>3. terms # <<>>
    BY <1>4 DEF FindWindow, WindowInv, AnswerInv
  <2> QED BY <1>4, <2>1, <2>2, <2>3, SameArguments DEF FindWindow, AnswerInv
<1>5. CASE DropFirst
  <2>1. ~answer /\ terms # <<>> /\ (windowPc' = "shrink" => l + 1 <= r)
    BY <1>0, <1>5 DEF DropFirst, WindowInv, AnswerInv
  <2> QED BY <1>5, <2>1, SameArguments DEF DropFirst, AnswerInv
<1>6. CASE KeepWindow \/ NoWindow
  <2>1. ~answer /\ terms # <<>>
    BY <1>0, <1>6 DEF KeepWindow, NoWindow, WindowInv, AnswerInv
  <2> QED BY <1>6, <2>1, SameArguments DEF KeepWindow, NoWindow, AnswerInv
<1>7. CASE UNCHANGED windowVars
  BY <1>7, SameArguments DEF windowVars, WindowInv, AnswerInv, Satisfied, Fits
<1> QED BY <1>1, <1>2, <1>3, <1>4, <1>5, <1>6, <1>7
        DEF WindowNext, WindowStep, WindowReturned

LEMMA WindowHolds == WindowSpec => []WindowInv
<1>1. WindowInit => WindowInv
  <2> SUFFICES ASSUME WindowInit PROVE WindowInv
    OBVIOUS
  <2>1. doc \in Documents /\ terms \in TermLists /\ w \in Widths /\ r = 0 /\ l = 1
        /\ have = [t \in DOMAIN need |-> 0] /\ ~answer /\ windowPc = "start"
    BY DEF WindowInit
  <2>2. Len(evs) \in Nat
    BY <2>1, EventFacts
  <2>3. WindowTypeOK
    <3>1. r \in 0..Len(evs) /\ l \in 1..(r + 1)
      BY <2>1, <2>2
    <3>2. answer \in BOOLEAN
      BY DEF WindowInit
    <3> QED BY <2>1, <3>1, <3>2 DEF WindowTypeOK
  <2>4. HaveCounts
    <3>1. \A t : Occurrences(l, r, t) = {}
      BY <2>1 DEF Occurrences
    <3> QED BY <2>1, <3>1, FS_EmptySet DEF HaveCounts
  <2>5. LeftIsFar /\ TriedFail /\ AnswerInv
    BY <2>1 DEF LeftIsFar, TriedFail, AnswerInv
  <2> QED BY <2>3, <2>4, <2>5 DEF WindowInv
<1>2. WindowInv /\ [WindowNext]_windowVars => WindowInv'
  BY WindowTypeStep, HaveStep, LeftStep, TriedStep, AnswerStep DEF WindowInv
<1> QED BY <1>1, <1>2, PTL DEF WindowSpec

-----------------------------------------------------------------------------
(* The positions of t in a window. *)
PositionsIn(from, to, t) == {n \in Indexes(doc, t) : n - 1 \in from..to}

(* The occurrences from first to last are those in the window. *)
Covers(first, last, from, to) ==
  \A m \in 1..Len(evs) : m \in first..last <=> evs[m].pos \in from..to

\* Occurrences of a term as events and as positions are the same number.
LEMMA CountsMatch ==
  ASSUME doc \in Documents, terms \in TermLists, w \in Widths,
         NEW from \in Int, NEW to \in Int, NEW first \in Nat \ {0}, NEW last \in 0..Len(evs),
         Covers(first, last, from, to), NEW t \in DOMAIN need
  PROVE  /\ IsFiniteSet(Occurrences(first, last, t))
         /\ Cardinality(PositionsIn(from, to, t)) = Cardinality(Occurrences(first, last, t))
<1> DEFINE S == Occurrences(first, last, t)
           T == PositionsIn(from, to, t)
           f == [m \in S |-> evs[m].pos + 1]
<1>0. /\ Len(evs) \in Nat /\ Len(doc) \in Nat /\ last \in Int
      /\ \A m \in 1..Len(evs) : evs[m].pos \in 0..(Len(doc) - 1) /\ evs[m].t = doc[evs[m].pos + 1]
      /\ \A m, n \in 1..Len(evs) : m < n => evs[m].pos < evs[n].pos
      /\ \A n \in 1..Len(doc) :
           doc[n] \in DOMAIN need => \E m \in 1..Len(evs) : evs[m].pos = n - 1
  BY EventFacts
<1>1. \A m \in S : m \in 1..Len(evs) /\ m \in first..last /\ evs[m].t = t
  BY <1>0 DEF Occurrences
<1>2. \A m \in S : evs[m].pos + 1 \in T /\ evs[m].pos \in Int /\ m \in Int
  <2> SUFFICES ASSUME NEW m \in S
               PROVE  evs[m].pos + 1 \in T /\ evs[m].pos \in Int /\ m \in Int
    OBVIOUS
  <2>1. m \in 1..Len(evs) /\ evs[m].pos \in from..to /\ evs[m].t = t
    BY <1>1 DEF Covers
  <2>2. /\ evs[m].pos + 1 \in 1..Len(doc) /\ doc[evs[m].pos + 1] = t
        /\ evs[m].pos + 1 - 1 = evs[m].pos
    BY <1>0, <2>1
  <2> QED BY <2>1, <2>2 DEF Indexes, PositionsIn
<1>3. f \in [S -> T]
  BY <1>2
<1>4. \A m, n \in S : f[m] = f[n] => m = n
  <2> SUFFICES ASSUME NEW m \in S, NEW n \in S, evs[m].pos + 1 = evs[n].pos + 1
               PROVE  m = n
    OBVIOUS
  <2>1. evs[m].pos = evs[n].pos /\ m \in Int /\ n \in Int
    BY <1>2
  <2>2. m < n => evs[m].pos < evs[n].pos
    BY <1>0, <1>1
  <2>3. n < m => evs[n].pos < evs[m].pos
    BY <1>0, <1>1
  <2> QED BY <1>2, <2>1, <2>2, <2>3
<1>5. \A n \in T : \E m \in S : f[m] = n
  <2> SUFFICES ASSUME NEW n \in T PROVE \E m \in S : evs[m].pos + 1 = n
    OBVIOUS
  <2>1. n \in 1..Len(doc) /\ doc[n] = t /\ n - 1 \in from..to
    BY DEF Indexes, PositionsIn
  <2>2. PICK m \in 1..Len(evs) : evs[m].pos = n - 1
    BY <1>0, <2>1
  <2>3. evs[m].pos + 1 = n
    BY <2>1, <2>2
  <2>4. m \in first..last /\ evs[m].t = t
    BY <1>0, <2>1, <2>2, <2>3 DEF Covers
  <2>5. m \in S
    BY <2>4 DEF Occurrences
  <2> QED BY <2>3, <2>5
<1>6. IsFiniteSet(S)
  BY <1>0, MoreOccurrences
<1> HIDE DEF f, S, T
<1>7. f \in Bijection(S, T)
  BY <1>3, <1>4, <1>5 DEF Bijection, Injection, Surjection, IsInjective
<1>8. ExistsBijection(S, T)
  BY <1>7 DEF ExistsBijection
<1>9. Cardinality(T) = Cardinality(S)
  BY <1>6, <1>8, FS_Bijection
<1> QED BY <1>6, <1>9 DEF S, T

\* A window of occurrences is one of positions ...
LEMMA OccurrencesAreWindow ==
  ASSUME doc \in Documents, terms \in TermLists, w \in Widths,
         NEW last \in 1..Len(evs), NEW first \in 1..last,
         HasTerms(first, last), evs[last].pos - evs[first].pos <= w
  PROVE  \E from, to \in 0..(Len(doc) - 1) : from <= to /\ IsWindow(from, to)
<1>0. /\ Len(evs) \in Nat /\ Len(doc) \in Nat /\ first \in 1..Len(evs) /\ first \in Nat \ {0}
      /\ DOMAIN need = TermsOf(terms) /\ last \in 0..Len(evs)
      /\ \A m \in 1..Len(evs) : evs[m].pos \in 0..(Len(doc) - 1)
      /\ \A m, n \in 1..Len(evs) : m < n => evs[m].pos < evs[n].pos
  BY EventFacts
<1>1. PICK from \in 0..(Len(doc) - 1) : from = evs[first].pos
  BY <1>0
<1>2. PICK to \in 0..(Len(doc) - 1) : to = evs[last].pos
  BY <1>0
<1>3. Covers(first, last, from, to)
  <2> SUFFICES ASSUME NEW m \in 1..Len(evs)
               PROVE  m \in first..last <=> evs[m].pos \in from..to
    BY DEF Covers
  <2>1. (m < first => evs[m].pos < from) /\ (first < m => from < evs[m].pos)
    BY <1>0, <1>1
  <2>2. (m < last => evs[m].pos < to) /\ (last < m => to < evs[m].pos)
    BY <1>0, <1>2
  <2>3. (m = first => evs[m].pos = from) /\ (m = last => evs[m].pos = to)
    BY <1>1, <1>2
  <2>4. evs[m].pos \in Int /\ from \in Int /\ to \in Int
    BY <1>0
  <2> QED BY <1>0, <2>1, <2>2, <2>3, <2>4
<1>4. from <= to /\ from \in Int /\ to \in Int
  <2>1. first \in first..last
    BY <1>0
  <2> QED BY <1>0, <1>1, <1>3, <2>1 DEF Covers
<1>5. ASSUME NEW t \in TermsOf(terms)
      PROVE  Cardinality({n \in Indexes(doc, t) : n - 1 \in from..to}) >=
               Cardinality(Indexes(terms, t))
  <2>1. t \in DOMAIN need
    BY <1>0
  <2>2. Cardinality(PositionsIn(from, to, t)) = Cardinality(Occurrences(first, last, t))
    <3>1. from \in Int /\ to \in Int /\ first \in Nat \ {0} /\ last \in 0..Len(evs)
      BY <1>0, <1>4
    <3> QED BY <1>3, <2>1, <3>1, CountsMatch
  <2>3. need[t] = Cardinality(Indexes(terms, t))
    BY <2>1, NeedFacts
  <2> QED BY <2>1, <2>2, <2>3 DEF HasTerms, PositionsIn
<1>6. IsWindow(from, to)
  BY <1>1, <1>2, <1>5 DEF IsWindow
<1> QED BY <1>4, <1>6

\* ... and the other way round: the occurrences in a window of positions are
\* consecutive, from the first to the last of them.
LEMMA WindowIsOccurrences ==
  ASSUME doc \in Documents, terms \in TermLists, w \in Widths, terms # <<>>,
         NEW from \in 0..(Len(doc) - 1), NEW to \in 0..(Len(doc) - 1), IsWindow(from, to)
  PROVE  \E last \in 1..Len(evs) : \E first \in 1..last :
           HasTerms(first, last) /\ evs[last].pos - evs[first].pos <= w
<1> DEFINE Q == {m \in 1..Len(evs) : evs[m].pos \in from..to}
<1> HIDE DEF Q
<1>01. /\ Len(evs) \in Nat /\ Len(doc) \in Nat /\ w \in Int
       /\ 1 \in 1..Len(terms) /\ DOMAIN need = TermsOf(terms)
  BY EventFacts
<1>02. from \in Int /\ to \in Int
  BY <1>01
<1>03. /\ \A m \in 1..Len(evs) : evs[m].pos \in 0..(Len(doc) - 1)
       /\ \A m, n \in 1..Len(evs) : m < n => evs[m].pos < evs[n].pos
       /\ \A n \in 1..Len(doc) :
            doc[n] \in DOMAIN need => \E m \in 1..Len(evs) : evs[m].pos = n - 1
  BY EventFacts
<1> USE DEF Q
<1>0. /\ Len(evs) \in Nat /\ Len(doc) \in Nat /\ w \in Int /\ from \in Int /\ to \in Int
      /\ 1 \in 1..Len(terms) /\ DOMAIN need = TermsOf(terms)
      /\ \A m \in 1..Len(evs) : evs[m].pos \in 0..(Len(doc) - 1)
      /\ \A m, n \in 1..Len(evs) : m < n => evs[m].pos < evs[n].pos
      /\ \A n \in 1..Len(doc) :
           doc[n] \in DOMAIN need => \E m \in 1..Len(evs) : evs[m].pos = n - 1
  BY <1>01, <1>02, <1>03
<1>1. \A t \in DOMAIN need :
        need[t] <= Cardinality({n \in Indexes(doc, t) : n - 1 \in from..to})
  <2> SUFFICES ASSUME NEW t \in DOMAIN need
               PROVE  need[t] <= Cardinality({n \in Indexes(doc, t) : n - 1 \in from..to})
    OBVIOUS
  <2>1. need[t] = Cardinality(Indexes(terms, t)) /\ t \in TermsOf(terms) /\ need[t] \in Nat
    BY <1>0, NeedFacts
  <2>2. Cardinality({n \in Indexes(doc, t) : n - 1 \in from..to}) >= Cardinality(Indexes(terms, t))
    BY <2>1 DEF IsWindow
  <2>3. Cardinality({n \in Indexes(doc, t) : n - 1 \in from..to}) \in Nat
    <3>1. 1 \in Int /\ Len(doc) \in Int
      BY <1>0
    <3>2. IsFiniteSet(1..Len(doc))
      BY <3>1, FS_Interval
    <3>3. {n \in Indexes(doc, t) : n - 1 \in from..to} \in SUBSET (1..Len(doc))
      BY DEF Indexes
    <3> QED BY <3>2, <3>3, FS_Subset, FS_CardinalityType
  <2> QED BY <2>1, <2>2, <2>3
<1>2. Q # {}
  <2>1. PICK t \in DOMAIN need : t = terms[1]
    BY <1>0 DEF TermsOf
  <2>2. need[t] \in Nat \ {0}
    BY NeedFacts
  <2>3. {n \in Indexes(doc, t) : n - 1 \in from..to} # {}
    BY <1>1, <2>2, FS_EmptySet
  <2>4. PICK n \in Indexes(doc, t) : n - 1 \in from..to
    BY <2>3
  <2>5. n \in 1..Len(doc) /\ doc[n] \in DOMAIN need
    BY <2>1, <2>4 DEF Indexes
  <2>6. PICK m \in 1..Len(evs) : evs[m].pos = n - 1
    BY <1>0, <2>5
  <2> QED BY <2>4, <2>6
<1>3. PICK first \in Q : \A m \in Q : first <= m
  <2>1. Q \in SUBSET Nat
    BY <1>0
  <2> HIDE DEF Q
  <2> QED BY <1>2, <2>1, LeastExists
<1>4. PICK last \in Q : \A m \in Q : m <= last
  <2> DEFINE Back == {Len(evs) - m : m \in Q}
  <2>1. Back \in SUBSET Nat /\ Back # {}
    <3>1. \A m \in Q : Len(evs) - m \in Nat
      BY <1>0
    <3> QED BY <1>2, <3>1
  <2>2. PICK n \in Back : \A b0 \in Back : n <= b0
    <3> HIDE DEF Back
    <3> QED BY <2>1, LeastExists
  <2>3. PICK m0 \in Q : n = Len(evs) - m0
    BY <2>2
  <2>4. ASSUME NEW m \in Q PROVE m <= m0
    <3>1. n <= Len(evs) - m
      BY <2>2
    <3> QED BY <1>0, <2>3, <3>1
  <2> QED BY <2>3, <2>4
<1>5. /\ first \in 1..Len(evs) /\ last \in 1..Len(evs) /\ first <= last
      /\ evs[first].pos \in from..to /\ evs[last].pos \in from..to
  BY <1>3, <1>4
<1>6. Covers(first, last, from, to)
  <2> SUFFICES ASSUME NEW m \in 1..Len(evs)
               PROVE  m \in first..last <=> evs[m].pos \in from..to
    BY DEF Covers
  <2>1. evs[m].pos \in from..to => m \in first..last
    BY <1>0, <1>3, <1>4, <1>5
  <2>2. ASSUME m \in first..last PROVE evs[m].pos \in from..to
    <3>1. /\ first < m => evs[first].pos < evs[m].pos
          /\ m < last => evs[m].pos < evs[last].pos
      BY <1>0, <1>5
    <3>2. (m = first \/ first < m) /\ (m = last \/ m < last)
      BY <1>0, <1>5, <2>2
    <3>3. evs[m].pos \in Int
      BY <1>03
    <3>4. evs[first].pos \in Int /\ evs[last].pos \in Int
      BY <1>02, <1>5
    <3>5. from <= evs[first].pos /\ evs[last].pos <= to
      BY <1>5
    <3>6. evs[first].pos <= evs[m].pos
      BY <3>1, <3>2, <3>3, <3>4
    <3>7. evs[m].pos <= evs[last].pos
      BY <3>1, <3>2, <3>3, <3>4
    <3> QED BY <1>02, <3>3, <3>4, <3>5, <3>6, <3>7, InBetween, Zenon
  <2> QED BY <2>1, <2>2
<1>7. HasTerms(first, last)
  <2> SUFFICES ASSUME NEW t \in DOMAIN need
               PROVE  Cardinality(Occurrences(first, last, t)) >= need[t]
    BY DEF HasTerms
  <2>1. first \in Nat \ {0} /\ last \in 0..Len(evs) /\ from \in Int /\ to \in Int
    BY <1>0, <1>5
  <2>2. /\ Cardinality(PositionsIn(from, to, t)) = Cardinality(Occurrences(first, last, t))
        /\ IsFiniteSet(Occurrences(first, last, t))
    BY <1>6, <2>1, CountsMatch
  <2>3. need[t] <= Cardinality(Occurrences(first, last, t))
    BY <1>1, <2>2 DEF PositionsIn
  <2> QED BY <2>2, <2>3, NeedFacts, FS_CardinalityType
<1>8. evs[last].pos - evs[first].pos <= w
  <2>1. to - from <= w
    BY DEF IsWindow
  <2> QED BY <1>01, <1>02, <1>5, <2>1, NoFarther, Zenon
<1>9. first \in 1..last
  BY <1>0, <1>5
<1> QED BY <1>5, <1>7, <1>8, <1>9

(* msmInDoc answers yes exactly if some window of all those in the document *)
(* will do, for every document, list of terms and width.                    *)
THEOREM WindowsAreCorrect == WindowSpec => []WindowCorrect
<1>1. WindowInv => WindowCorrect
  <2> SUFFICES ASSUME WindowInv, windowPc = "done"
               PROVE  answer <=> /\ terms # <<>>
                                 /\ \E from, to \in 0..(Len(doc) - 1) :
                                      from <= to /\ IsWindow(from, to)
    BY DEF WindowCorrect
  <2>0. /\ doc \in Documents /\ terms \in TermLists /\ w \in Widths
        /\ Len(evs) \in Nat /\ Len(doc) \in Nat /\ w \in Int
        /\ r \in 0..Len(evs) /\ l \in 1..(r + 1) /\ r \in Nat
        /\ \A m \in 1..Len(evs) : evs[m].pos \in Int
    BY EventFacts DEF WindowInv, WindowTypeOK
  <2>1. ASSUME answer
        PROVE  /\ terms # <<>>
               /\ \E from, to \in 0..(Len(doc) - 1) : from <= to /\ IsWindow(from, to)
    <3>1. terms # <<>> /\ HasTerms(l, r) /\ evs[r].pos - evs[l].pos <= w
      BY <2>1, SatisfiedMeans DEF WindowInv, AnswerInv, Fits
    <3>2. r \in 1..Len(evs) /\ l \in 1..r
      BY <2>0, <2>1 DEF WindowInv, AnswerInv
    <3> QED BY <2>0, <3>1, <3>2, OccurrencesAreWindow
  <2>2. ASSUME ~answer, terms # <<>>,
               NEW from \in 0..(Len(doc) - 1), NEW to \in 0..(Len(doc) - 1), IsWindow(from, to)
        PROVE  FALSE
    <3>1. PICK last \in 1..Len(evs) : \E first \in 1..last :
                 HasTerms(first, last) /\ evs[last].pos - evs[first].pos <= w
      BY <2>0, <2>2, WindowIsOccurrences
    <3>2. PICK first \in 1..last :
                 HasTerms(first, last) /\ evs[last].pos - evs[first].pos <= w
      BY <3>1
    <3>3. doc # <<>>
      BY <2>0, <2>2
    <3>4. r = Len(evs)
      BY <2>2, <3>3 DEF WindowInv, AnswerInv
    <3>5. last \in 1..r /\ TriedEnd(last)
      BY <2>0, <3>4 DEF TriedEnd
    <3>6. evs[last].pos - evs[first].pos > w
      BY <2>2, <3>2, <3>5 DEF WindowInv, TriedFail
    <3>7. evs[last].pos \in Int /\ evs[first].pos \in Int
      BY <2>0, <3>5
    <3> QED BY <2>0, <3>2, <3>6, <3>7
  <2> QED BY <2>1, <2>2
<1> QED BY <1>1, WindowHolds, PTL
=============================================================================
