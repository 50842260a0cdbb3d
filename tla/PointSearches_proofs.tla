------------------------ MODULE PointSearches_proofs ------------------------
(***************************************************************************)
(* Proofs about the indexes of points, for any points, queries and         *)
(* distances: the tree of KDTree, the hashed cloud of LSH3D and the        *)
(* geohash cells of GeoIndex.                                              *)
(***************************************************************************)
EXTENDS KDTree, GeoIndex, LSH3D, NumberSets_proofs

-----------------------------------------------------------------------------
Sides == {"left", "right"}

(* Path m leads to node n or into the subtree at n. *)
Under(n, m) == Len(n) <= Len(m) /\ \A d \in 1..Len(n) : n[d] = m[d]

LEMMA SidesDiffer ==
  ASSUME NEW p, NEW n
  PROVE  /\ Side(p, n) \in Sides /\ Opposite(Side(p, n)) \in Sides
         /\ Opposite(Side(p, n)) # Side(p, n)
BY DEF Side, Opposite, Sides

LEMMA SubPath ==
  ASSUME NEW n \in Seq(Sides), NEW d \in 0..Len(n)
  PROVE  /\ SubSeq(n, 1, d) \in Seq(Sides) /\ Len(SubSeq(n, 1, d)) = d
         /\ \A i \in 1..d : SubSeq(n, 1, d)[i] = n[i]
         /\ Under(SubSeq(n, 1, d), n)
<1>1. d \in Nat /\ Len(n) \in Nat
  OBVIOUS
<1>2. \A i \in 1..d : n[i] \in Sides
  OBVIOUS
<1>3. SubSeq(n, 1, d) = [i \in 1..d |-> n[i]]
  BY <1>1
<1>4. SubSeq(n, 1, d) \in Seq(Sides) /\ Len(SubSeq(n, 1, d)) = d
  BY <1>1, <1>2, <1>3
<1>5. \A i \in 1..d : SubSeq(n, 1, d)[i] = n[i]
  BY <1>1, <1>3
<1> QED BY <1>1, <1>4, <1>5 DEF Under

LEMMA UnderIsPrefix ==
  ASSUME NEW n \in Seq(Sides), NEW m \in Seq(Sides)
  PROVE  /\ Under(n, n)
         /\ Under(n, m) => n = SubSeq(m, 1, Len(n)) /\ Len(n) \in 0..Len(m)
         /\ Under(n, m) /\ Len(m) <= Len(n) => n = m
         /\ IsStrictPrefix(n, m) <=> Len(n) < Len(m) /\ Under(n, m)
<1>1. Len(n) \in Nat /\ Len(m) \in Nat /\ Under(n, n)
  BY DEF Under
<1>2. ASSUME Under(n, m) PROVE n = SubSeq(m, 1, Len(n)) /\ Len(n) \in 0..Len(m)
  <2>1. Len(n) \in 0..Len(m)
    BY <1>1, <1>2 DEF Under
  <2>2. /\ SubSeq(m, 1, Len(n)) \in Seq(Sides) /\ Len(SubSeq(m, 1, Len(n))) = Len(n)
        /\ \A i \in 1..Len(n) : SubSeq(m, 1, Len(n))[i] = m[i]
    BY <2>1, SubPath
  <2>3. \A i \in 1..Len(n) : n[i] = SubSeq(m, 1, Len(n))[i]
    BY <1>2, <2>2 DEF Under
  <2> QED BY <2>1, <2>2, <2>3, SeqEqual
<1>3. ASSUME Under(n, m), Len(m) <= Len(n) PROVE n = m
  <2>1. Len(n) = Len(m) /\ \A i \in 1..Len(n) : n[i] = m[i]
    BY <1>1, <1>3 DEF Under
  <2> QED BY <2>1, SeqEqual
<1>4. SubSeq(n, 1, Len(n)) = n
  BY <1>1, <1>2
<1>5. ASSUME IsStrictPrefix(n, m) PROVE Len(n) < Len(m) /\ Under(n, m)
  <2>1. Len(n) <= Len(m) /\ n = SubSeq(m, 1, Len(n)) /\ n # m
    BY <1>4, <1>5 DEF IsStrictPrefix, IsPrefix
  <2>2. Len(n) \in 0..Len(m)
    BY <1>1, <2>1
  <2>3. Under(n, m)
    BY <2>1, <2>2, SubPath
  <2> QED BY <1>1, <1>3, <2>1, <2>3
<1>6. ASSUME Len(n) < Len(m), Under(n, m) PROVE IsStrictPrefix(n, m)
  BY <1>1, <1>2, <1>4, <1>6 DEF IsStrictPrefix, IsPrefix
<1> QED BY <1>1, <1>2, <1>3, <1>5, <1>6

LEMMA UnderTransitive ==
  ASSUME NEW n \in Seq(Sides), NEW m \in Seq(Sides), NEW o \in Seq(Sides),
         Under(n, m), Under(m, o)
  PROVE  Under(n, o)
<1>1. Len(n) \in Nat /\ Len(m) \in Nat /\ Len(o) \in Nat
  OBVIOUS
<1>2. \A d \in 1..Len(n) : d \in 1..Len(m)
  BY <1>1 DEF Under
<1> QED BY <1>1, <1>2 DEF Under

\* Both are on the way to o: one of them is on the way to the other.
LEMMA UnderLinear ==
  ASSUME NEW n \in Seq(Sides), NEW m \in Seq(Sides), NEW o \in Seq(Sides),
         Under(n, o), Under(m, o)
  PROVE  Under(n, m) \/ Under(m, n)
<1>1. Len(n) \in Nat /\ Len(m) \in Nat /\ Len(o) \in Nat
  OBVIOUS
<1>2. CASE Len(n) <= Len(m)
  <2>1. \A d \in 1..Len(n) : d \in 1..Len(m)
    BY <1>1, <1>2
  <2> QED BY <1>2, <2>1 DEF Under
<1>3. CASE Len(m) <= Len(n)
  <2>1. \A d \in 1..Len(m) : d \in 1..Len(n)
    BY <1>1, <1>3
  <2> QED BY <1>3, <2>1 DEF Under
<1> QED BY <1>1, <1>2, <1>3

\* The step from a node to one of its sides.
LEMMA UnderChild ==
  ASSUME NEW n \in Seq(Sides), NEW m \in Seq(Sides), NEW s \in Sides
  PROVE  /\ Append(n, s) \in Seq(Sides) /\ Len(Append(n, s)) = Len(n) + 1
         /\ Append(n, s)[Len(n) + 1] = s
         /\ Under(n, Append(n, s))
         /\ Under(Append(n, s), m) <=>
              Under(n, m) /\ Len(n) < Len(m) /\ m[Len(n) + 1] = s
         /\ Under(m, Append(n, s)) <=> Under(m, n) \/ m = Append(n, s)
<1> DEFINE a == Append(n, s)
<1>1. Len(n) \in Nat /\ Len(m) \in Nat
  OBVIOUS
<1>2. a \in Seq(Sides) /\ Len(a) = Len(n) + 1 /\ a[Len(n) + 1] = s
      /\ \A d \in 1..Len(n) : a[d] = n[d]
  BY <1>1
<1> HIDE DEF a
<1>3. Under(n, a)
  BY <1>1, <1>2 DEF Under
<1>4. ASSUME Under(a, m) PROVE Under(n, m) /\ Len(n) < Len(m) /\ m[Len(n) + 1] = s
  <2>1. Len(n) < Len(m)
    BY <1>1, <1>2, <1>4 DEF Under
  <2>2. Len(n) + 1 \in 1..Len(a)
    BY <1>1, <1>2
  <2>3. Under(n, m)
    BY <1>2, <1>3, <1>4, UnderTransitive
  <2> QED BY <1>2, <1>4, <2>1, <2>2, <2>3 DEF Under
<1>5. ASSUME Under(n, m), Len(n) < Len(m), m[Len(n) + 1] = s PROVE Under(a, m)
  <2>1. Len(a) <= Len(m)
    BY <1>1, <1>2, <1>5
  <2>2. ASSUME NEW d \in 1..Len(a) PROVE a[d] = m[d]
    <3>1. d \in 1..Len(n) \/ d = Len(n) + 1
      BY <1>1, <1>2
    <3> QED BY <1>2, <1>5, <3>1 DEF Under
  <2> QED BY <2>1, <2>2 DEF Under
<1>6. ASSUME Under(m, a), m # a PROVE Under(m, n)
  <2>1. Len(m) <= Len(n)
    <3>1. ~(Len(a) <= Len(m))
      BY <1>2, <1>6, UnderIsPrefix
    <3>2. Len(a) \in Nat
      BY <1>1, <1>2
    <3> QED BY <1>1, <1>2, <3>1, <3>2
  <2>2. \A d \in 1..Len(m) : d \in 1..Len(n)
    BY <1>1, <2>1
  <2> QED BY <1>2, <1>6, <2>1, <2>2 DEF Under
<1>7. ASSUME Under(m, n) PROVE Under(m, a)
  BY <1>2, <1>3, <1>7, UnderTransitive
<1>8. Under(a, a)
  BY <1>2, UnderIsPrefix
<1> QED BY <1>2, <1>3, <1>4, <1>5, <1>6, <1>7, <1>8 DEF a

-----------------------------------------------------------------------------
(* What a tree is, whole or half built: points at paths, with a node at    *)
(* every path that leads to a node, divided at each node.                  *)
IsTree(t) ==
  /\ t \in [DOMAIN t -> Points]
  /\ DOMAIN t \subseteq Seq(Sides) /\ IsFiniteSet(DOMAIN t)
  /\ \A n \in DOMAIN t : \A d \in 0..Len(n) : SubSeq(n, 1, d) \in DOMAIN t
  /\ IsSplit(t)

(* The points of a tree, a bag. *)
PointsOf(t) ==
  [p \in {t[n] : n \in DOMAIN t} |-> Cardinality({n \in DOMAIN t : t[n] = p})]

(* The whole tree has the points that the scanner has.                     *)
TreeInv ==
  /\ IsTree(tree)
  /\ points = PointsOf(tree)
  /\ count = Cardinality(DOMAIN tree)

LEMMA PointFacts ==
  ASSUME NEW p \in Points \cup Queries
  PROVE  /\ p.lat \in Int /\ p.lng \in Int
         /\ \A d : Coordinate(p, d) \in Int
BY PlacesAssumption DEF Coordinate

LEMMA NodesAbove ==
  ASSUME NEW t, IsTree(t), NEW n \in DOMAIN t, NEW m \in Seq(Sides), Under(m, n)
  PROVE  m \in DOMAIN t
<1>1. n \in Seq(Sides)
  BY DEF IsTree
<1>2. m = SubSeq(n, 1, Len(m)) /\ Len(m) \in 0..Len(n)
  BY <1>1, UnderIsPrefix
<1> QED BY <1>2 DEF IsTree

\* All that IsSplit says, by the coordinate of the node above.
LEMMA SplitMeans ==
  ASSUME NEW t, DOMAIN t \subseteq Seq(Sides)
  PROVE  IsSplit(t) <=>
           \A n, m \in DOMAIN t :
             Len(n) < Len(m) /\ Under(n, m) =>
               IF m[Len(n) + 1] = "left" THEN Coordinate(t[m], Len(n)) <= Coordinate(t[n], Len(n))
               ELSE Coordinate(t[m], Len(n)) >= Coordinate(t[n], Len(n))
<1>1. \A n, m \in DOMAIN t : IsStrictPrefix(n, m) <=> Len(n) < Len(m) /\ Under(n, m)
  BY UnderIsPrefix
<1> QED BY <1>1 DEF IsSplit

\* A path is shorter than the tree has nodes: each step passes one.
LEMMA PathsAreShort ==
  ASSUME TreeInv, NEW n \in DOMAIN tree
  PROVE  Len(n) < Cardinality(DOMAIN tree)
<1> DEFINE k == Len(n)
           f == [d \in 0..k |-> SubSeq(n, 1, d)]
<1>1. n \in Seq(Sides) /\ k \in Nat
  BY DEF TreeInv, IsTree
<1>2. f \in [0..k -> DOMAIN tree]
  BY DEF TreeInv, IsTree
<1>3. ASSUME NEW d \in 0..k, NEW e \in 0..k, f[d] = f[e] PROVE d = e
  <2>1. Len(SubSeq(n, 1, d)) = d /\ Len(SubSeq(n, 1, e)) = e
    BY <1>1, SubPath
  <2> QED BY <1>3, <2>1
<1>4. IsFiniteSet(DOMAIN tree)
  BY DEF TreeInv, IsTree
<1> HIDE DEF f
<1>5. f \in Injection(0..k, DOMAIN tree)
  BY <1>2, <1>3 DEF Injection, IsInjective
<1>6. Cardinality(0..k) <= Cardinality(DOMAIN tree)
  BY <1>4, <1>5, FS_Injection
<1>7. Cardinality(0..k) = k + 1
  <2>1. 0 \in Int /\ k \in Int /\ ~(0 > k)
    BY <1>1
  <2>2. Cardinality(0..k) = IF 0 > k THEN 0 ELSE k - 0 + 1
    BY <2>1, FS_Interval
  <2> QED BY <1>1, <2>1, <2>2
<1>8. Cardinality(DOMAIN tree) \in Nat
  BY <1>4, FS_CardinalityType
<1> QED BY <1>1, <1>6, <1>7, <1>8

(* n is on the way that insertNode takes for p. *)
OnWay(p, n) ==
  \A d \in 0..(Len(n) - 1) :
    SubSeq(n, 1, d) \in DOMAIN tree /\ n[d + 1] = Side(p, SubSeq(n, 1, d))

\* The descent ends: at a nil, on a path no longer than the tree has nodes.
LEMMA DescentEnds ==
  ASSUME TreeInv, NEW p
  PROVE  \E n \in Seq(Sides) \ DOMAIN tree : OnWay(p, n) /\ Len(n) <= Cardinality(DOMAIN tree)
<1> DEFINE k == Cardinality(DOMAIN tree)
           Way == {n \in DOMAIN tree : OnWay(p, n)}
           Rest == {k - Len(n) : n \in Way}
<1>1. k \in Nat /\ DOMAIN tree \subseteq Seq(Sides)
  BY FS_CardinalityType DEF TreeInv, IsTree
<1>2. <<>> \in Seq(Sides) /\ OnWay(p, <<>>) /\ Len(<<>>) = 0
  BY DEF OnWay
<1>3. CASE <<>> \notin DOMAIN tree
  <2>1. <<>> \in Seq(Sides) \ DOMAIN tree
    BY <1>2, <1>3
  <2>2. Len(<<>>) <= k
    BY <1>1, <1>2
  <2> HIDE DEF k
  <2>3. \E n \in Seq(Sides) \ DOMAIN tree : OnWay(p, n) /\ Len(n) <= k
    BY <1>2, <2>1, <2>2, Zenon
  <2> QED BY <2>3 DEF k
<1>4. CASE <<>> \in DOMAIN tree
  <2>1. \A n \in Way : k - Len(n) \in Nat /\ Len(n) \in Nat
    BY <1>1, PathsAreShort
  <2>2. Rest \in SUBSET Nat /\ Rest # {}
    BY <1>2, <1>4, <2>1
  <2> HIDE DEF Rest
  <2>3. PICK x \in Rest : \A y \in Rest : x <= y
    BY <2>2, LeastExists
  <2> USE DEF Rest
  <2>4. PICK n \in Way : x = k - Len(n)
    BY <2>3
  <2>5. n \in DOMAIN tree /\ n \in Seq(Sides) /\ OnWay(p, n)
    BY <1>1, <2>4
  <2> DEFINE m == Append(n, Side(p, n))
  <2>6. Side(p, n) \in Sides
    BY SidesDiffer
  <2>7. m \in Seq(Sides) /\ Len(m) = Len(n) + 1 /\ m[Len(n) + 1] = Side(p, n) /\ Under(n, m)
    BY <2>5, <2>6, UnderChild
  <2> HIDE DEF m
  <2>8. ASSUME NEW d \in 0..(Len(m) - 1)
        PROVE  SubSeq(m, 1, d) \in DOMAIN tree /\ m[d + 1] = Side(p, SubSeq(m, 1, d))
    <3>0. Len(n) \in Nat /\ d \in Nat /\ d <= Len(n)
      BY <2>1, <2>4, <2>7
    <3>1. SubSeq(m, 1, d) = SubSeq(n, 1, d)
      <4>1. /\ SubSeq(m, 1, d) \in Seq(Sides) /\ Len(SubSeq(m, 1, d)) = d
            /\ \A i \in 1..d : SubSeq(m, 1, d)[i] = m[i]
        <5>1. d \in 0..Len(m)
          BY <2>7, <3>0
        <5> QED BY <2>7, <5>1, SubPath
      <4>2. /\ SubSeq(n, 1, d) \in Seq(Sides) /\ Len(SubSeq(n, 1, d)) = d
            /\ \A i \in 1..d : SubSeq(n, 1, d)[i] = n[i]
        <5>1. d \in 0..Len(n)
          BY <3>0
        <5> QED BY <2>5, <5>1, SubPath
      <4>3. \A i \in 1..d : m[i] = n[i]
        BY <2>7, <3>0 DEF Under
      <4>4. \A i \in 1..d : SubSeq(m, 1, d)[i] = SubSeq(n, 1, d)[i]
        BY <4>1, <4>2, <4>3
      <4> QED BY <4>1, <4>2, <4>4, SeqEqual
    <3>2. CASE d = Len(n)
      <4>1. SubSeq(n, 1, d) = n
        BY <2>5, <3>2, UnderIsPrefix
      <4> QED BY <2>5, <2>7, <3>1, <3>2, <4>1
    <3>3. CASE d # Len(n)
      <4>1. d \in 0..(Len(n) - 1) /\ d + 1 \in 1..Len(n)
        BY <3>0, <3>3
      <4>2. m[d + 1] = n[d + 1]
        BY <2>7, <4>1 DEF Under
      <4> QED BY <2>5, <3>1, <4>1, <4>2 DEF OnWay
    <3> QED BY <3>2, <3>3
  <2>9. OnWay(p, m)
    BY <2>8 DEF OnWay
  <2>10. m \notin DOMAIN tree
    <3> SUFFICES ASSUME m \in DOMAIN tree PROVE FALSE
      OBVIOUS
    <3>1. m \in Way
      BY <2>9
    <3>2. x <= k - Len(m)
      BY <2>3, <3>1
    <3> QED BY <1>1, <2>1, <2>4, <2>7, <3>2
  <2>11. Len(m) <= k
    BY <1>1, <2>5, <2>7, PathsAreShort
  <2> QED BY <2>7, <2>9, <2>10, <2>11
<1> QED BY <1>3, <1>4

LEMMA PlaceFacts ==
  ASSUME TreeInv, Cardinality(DOMAIN tree) < MaxPoints, NEW p \in Points
  PROVE  /\ Place(p) \in Seq(Sides) \ DOMAIN tree
         /\ OnWay(p, Place(p))
<1>1. PICK n \in Seq(Sides) \ DOMAIN tree : OnWay(p, n) /\ Len(n) <= Cardinality(DOMAIN tree)
  BY DescentEnds
<1>2. Paths = UNION {[1..m -> Sides] : m \in 0..MaxPoints}
  BY DEF Paths, BoundedSeq, SeqOf, Sides
<1>3. n \in Paths
  <2>1. Len(n) \in 0..MaxPoints
    <3>1. Cardinality(DOMAIN tree) \in Nat
      BY FS_CardinalityType DEF TreeInv, IsTree
    <3> QED BY <1>1, <3>1, ListsAssumption
  <2>2. n \in [1..Len(n) -> Sides]
    OBVIOUS
  <2> QED BY <1>2, <2>1, <2>2
<1>4. Place(p) \in Paths \ DOMAIN tree /\ OnWay(p, Place(p))
  BY <1>1, <1>3 DEF Place, OnWay
<1>5. Paths \subseteq Seq(Sides)
  BY <1>2
<1> QED BY <1>4, <1>5

-----------------------------------------------------------------------------
(* q is where a node with point p, at depth d, wants what is on a side.    *)
OnSide(q, p, d, side) ==
  IF side = "left" THEN Coordinate(q, d) <= Coordinate(p, d)
  ELSE Coordinate(q, d) >= Coordinate(p, d)

\* One more node under nodes that want it there.
LEMMA AddNode ==
  ASSUME NEW t, IsTree(t), NEW x \in Seq(Sides), x \notin DOMAIN t, NEW p \in Points,
         \A d \in 0..(Len(x) - 1) :
           /\ SubSeq(x, 1, d) \in DOMAIN t
           /\ OnSide(p, t[SubSeq(x, 1, d)], d, x[d + 1]),
         NEW u \in [DOMAIN t \cup {x} -> Points],
         u[x] = p, \A n \in DOMAIN t : u[n] = t[n]
  PROVE  IsTree(u)
<1> DEFINE D == DOMAIN t
<1>1. D \subseteq Seq(Sides) /\ IsFiniteSet(D) /\ x \notin D
  BY DEF IsTree
<1>2. /\ DOMAIN u = D \cup {x} /\ u[x] = p
      /\ \A n \in D : u[n] = t[n] /\ n # x
  BY <1>1
<1>3. u \in [DOMAIN u -> Points]
  OBVIOUS
<1>4. DOMAIN u \subseteq Seq(Sides) /\ IsFiniteSet(DOMAIN u)
  BY <1>1, <1>2, FS_AddElement
<1>5. \A n \in DOMAIN u : \A d \in 0..Len(n) : SubSeq(n, 1, d) \in DOMAIN u
  <2> SUFFICES ASSUME NEW n \in DOMAIN u, NEW d \in 0..Len(n)
               PROVE  SubSeq(n, 1, d) \in DOMAIN u
    OBVIOUS
  <2>1. CASE n \in D
    BY <1>2, <2>1 DEF IsTree
  <2>2. CASE n = x /\ d # Len(x)
    <3>1. d \in 0..(Len(x) - 1)
      BY <2>2
    <3> QED BY <1>2, <2>2, <3>1
  <2>3. CASE n = x /\ d = Len(x)
    <3>1. SubSeq(x, 1, Len(x)) = x
      BY UnderIsPrefix
    <3> QED BY <1>2, <2>3, <3>1
  <2> QED BY <1>2, <2>1, <2>2, <2>3
<1>6. IsSplit(u)
  <2> SUFFICES ASSUME NEW n \in DOMAIN u, NEW m \in DOMAIN u, Len(n) < Len(m), Under(n, m)
               PROVE  OnSide(u[m], u[n], Len(n), m[Len(n) + 1])
    BY <1>4, SplitMeans DEF OnSide
  <2>0. n \in Seq(Sides) /\ m \in Seq(Sides)
    BY <1>4
  <2>1. CASE n \in D /\ m \in D
    BY <1>1, <1>2, <2>1, SplitMeans DEF IsTree, OnSide
  <2>2. CASE n = x /\ m \in D
    BY <1>1, <2>0, <2>2, NodesAbove
  <2>3. CASE n = x /\ m = x
    BY <2>3
  <2>4. CASE n \in D /\ m = x
    <3>1. n = SubSeq(x, 1, Len(n)) /\ Len(n) \in 0..(Len(x) - 1)
      BY <2>0, <2>4, UnderIsPrefix
    <3>2. OnSide(p, t[n], Len(n), x[Len(n) + 1])
      BY <3>1
    <3> QED BY <1>2, <2>4, <3>2
  <2> QED BY <1>2, <2>1, <2>2, <2>3, <2>4
<1> QED BY <1>2, <1>3, <1>4, <1>5, <1>6 DEF IsTree

\* One more node at the end of a descent.
LEMMA InsertKeepsTree ==
  ASSUME TreeInv, NEW p \in Points, Insert(p)
  PROVE  TreeInv'
<1> DEFINE D == DOMAIN tree
           x == Place(p)
<1>1. /\ x \in Seq(Sides) /\ x \notin D /\ OnWay(p, x)
      /\ D \subseteq Seq(Sides) /\ IsFiniteSet(D) /\ Cardinality(D) \in Nat
  <2>1. Cardinality(DOMAIN tree) < MaxPoints
    BY DEF Insert
  <2> QED BY <2>1, PlaceFacts, FS_CardinalityType DEF TreeInv, IsTree
<1> HIDE DEF x
<1>2. /\ tree' = [n \in D \cup {x} |-> IF n \in D THEN tree[n] ELSE p]
      /\ count' = count + 1 /\ points' = points (+) SetToBag({p})
  BY DEF Insert, x
<1>3. ASSUME NEW d \in 0..(Len(x) - 1)
      PROVE  SubSeq(x, 1, d) \in D /\ OnSide(p, tree[SubSeq(x, 1, d)], d, x[d + 1])
  <2> DEFINE n == SubSeq(x, 1, d)
  <2>1. n \in D /\ x[d + 1] = Side(p, n)
    BY <1>1, <1>3 DEF OnWay
  <2>2. Len(n) = d
    <3>1. d \in 0..Len(x)
      BY <1>1, <1>3
    <3> QED BY <1>1, <3>1, SubPath
  <2>3. Coordinate(p, d) \in Int /\ Coordinate(tree[n], d) \in Int
    <3>1. tree[n] \in Points
      BY <2>1 DEF TreeInv, IsTree
    <3> QED BY <3>1, PointFacts
  <2> HIDE DEF n
  <2>4. OnSide(p, tree[n], d, x[d + 1])
    BY <2>1, <2>2, <2>3 DEF OnSide, Side, IsLeft
  <2> QED BY <2>1, <2>4 DEF n
<1>4. /\ IsTree(tree') /\ DOMAIN tree' = D \cup {x} /\ tree'[x] = p
      /\ \A n \in D : tree'[n] = tree[n] /\ n # x
  <2>1. IsTree(tree) /\ \A n \in D : tree[n] \in Points
    BY DEF TreeInv, IsTree
  <2>2. /\ tree' \in [D \cup {x} -> Points] /\ tree'[x] = p
        /\ \A n \in D : tree'[n] = tree[n] /\ n # x
    BY <1>1, <1>2, <2>1
  <2> QED BY <1>1, <1>3, <2>1, <2>2, AddNode
<1>5. points' = PointsOf(tree')
  <2> DEFINE At(q) == {n \in D : tree[n] = q}
             AtNew(q) == {n \in DOMAIN tree' : tree'[n] = q}
  <2>1. points = [q \in {tree[n] : n \in D} |-> Cardinality(At(q))]
    BY DEF TreeInv, PointsOf
  <2>2. PointsOf(tree') = [q \in {tree'[n] : n \in DOMAIN tree'} |-> Cardinality(AtNew(q))]
    BY DEF PointsOf
  <2>3. {tree'[n] : n \in DOMAIN tree'} = {tree[n] : n \in D} \cup {p}
    BY <1>4
  <2>4. \A q : AtNew(q) = IF q = p THEN At(q) \cup {x} ELSE At(q)
    BY <1>4
  <2>5. \A q : IsFiniteSet(At(q)) /\ x \notin At(q) /\ Cardinality(At(q)) \in Nat
    <3> SUFFICES ASSUME NEW q
                 PROVE  IsFiniteSet(At(q)) /\ x \notin At(q) /\ Cardinality(At(q)) \in Nat
      OBVIOUS
    <3>1. At(q) \in SUBSET D
      OBVIOUS
    <3> QED BY <1>1, <3>1, FS_Subset, FS_CardinalityType
  <2>6. \A q : q \notin {tree[n] : n \in D} => At(q) = {}
    OBVIOUS
  <2>7. Cardinality(At(p) \cup {x}) = Cardinality(At(p)) + 1
    <3> HIDE DEF At
    <3> QED BY <2>5, FS_AddElement
  <2>8. points' = [q \in {tree[n] : n \in D} \cup {p} |->
                     (IF q \in {tree[n] : n \in D} THEN Cardinality(At(q)) ELSE 0) +
                     (IF q = p THEN 1 ELSE 0)]
    BY <1>2, <2>1 DEF (+), SetToBag
  <2>9. ASSUME NEW q \in {tree[n] : n \in D} \cup {p}
        PROVE  (IF q \in {tree[n] : n \in D} THEN Cardinality(At(q)) ELSE 0) +
               (IF q = p THEN 1 ELSE 0) = Cardinality(AtNew(q))
    <3>1. (IF q \in {tree[n] : n \in D} THEN Cardinality(At(q)) ELSE 0) = Cardinality(At(q))
      BY <2>6, FS_EmptySet
    <3>2. AtNew(q) = IF q = p THEN At(p) \cup {x} ELSE At(q)
      BY <2>4
    <3> HIDE DEF At, AtNew
    <3>3. Cardinality(AtNew(q)) = IF q = p THEN Cardinality(At(q)) + 1 ELSE Cardinality(At(q))
      BY <2>7, <3>2
    <3> QED BY <2>5, <3>1, <3>3
  <2> HIDE DEF At, AtNew
  <2> QED BY <2>2, <2>3, <2>8, <2>9
<1>6. count' = Cardinality(DOMAIN tree')
  BY <1>1, <1>2, <1>4, FS_AddElement DEF TreeInv
<1> QED BY <1>4, <1>5, <1>6 DEF TreeInv

-----------------------------------------------------------------------------
-----------------------------------------------------------------------------
(* The values of t on D, a bag.                                            *)
BagOf(t, D) == [q \in {t[n] : n \in D} |-> Cardinality({n \in D : t[n] = q})]

\* Two bags that a bijection shows to be the same.
LEMMA SameBag ==
  ASSUME NEW D, NEW S, IsFiniteSet(D), NEW at \in Bijection(D, S), NEW t, NEW s,
         \A n \in D : t[n] = s[at[n]]
  PROVE  BagOf(t, D) = BagOf(s, S)
<1> DEFINE InD(q) == {n \in D : t[n] = q}
           InS(q) == {i \in S : s[i] = q}
<1>1. /\ at \in [D -> S] /\ \A n, m \in D : at[n] = at[m] => n = m
      /\ \A i \in S : \E n \in D : at[n] = i
  BY DEF Bijection, Injection, Surjection, IsInjective
<1>2. {t[n] : n \in D} = {s[i] : i \in S}
  BY <1>1
<1>3. ASSUME NEW q PROVE Cardinality(InD(q)) = Cardinality(InS(q))
  <2> DEFINE f == [n \in InD(q) |-> at[n]]
  <2>1. /\ f \in [InD(q) -> InS(q)]
        /\ \A n, m \in InD(q) : f[n] = f[m] => n = m
        /\ \A i \in InS(q) : \E n \in InD(q) : f[n] = i
    BY <1>1
  <2>2. InD(q) \in SUBSET D
    OBVIOUS
  <2> HIDE DEF f, InD, InS
  <2>3. f \in Bijection(InD(q), InS(q))
    BY <2>1 DEF Bijection, Injection, Surjection, IsInjective
  <2>4. ExistsBijection(InD(q), InS(q)) /\ IsFiniteSet(InD(q))
    BY <2>2, <2>3, FS_Subset DEF ExistsBijection
  <2> QED BY <2>4, FS_Bijection
<1> HIDE DEF InD, InS
<1>4. [q \in {t[n] : n \in D} |-> Cardinality(InD(q))] =
        [q \in {s[i] : i \in S} |-> Cardinality(InS(q))]
  BY <1>2, <1>3
<1> QED BY <1>4 DEF BagOf, InD, InS

(* While a balanced tree is being built: each slice still to be built has  *)
(* a place without a node, under nodes that all want its points there, and *)
(* no other slice has that place or one of its indexes ...                 *)
Slice(part) == part.from..part.to

Awaits(part, t, s) ==
  /\ part.from <= part.to
  /\ part.node \notin DOMAIN t
  /\ \A d \in 0..(Len(part.node) - 1) :
       /\ SubSeq(part.node, 1, d) \in DOMAIN t
       /\ \A k \in Slice(part) :
            OnSide(s[k], t[SubSeq(part.node, 1, d)], d, part.node[d + 1])

Unlike(a, b) == a.node # b.node /\ Slice(a) \cap Slice(b) = {}

Parts(m) == [node : Seq(Sides), from : 1..m, to : 1..m]

PartsInv ==
  /\ pts \in Seq(Points)
  /\ parts \in Seq(Parts(Len(pts)))
  /\ \A i \in 1..Len(parts) : Awaits(parts[i], tree, pts)
  /\ \A i, j \in 1..Len(parts) : i # j => Unlike(parts[i], parts[j])

(* ... and the nodes stand for the other indexes, one for one.             *)
Pending(list) == UNION {Slice(list[i]) : i \in 1..Len(list)}

Placed(t, s, list) ==
  \E at \in Bijection(DOMAIN t, (1..Len(s)) \ Pending(list)) :
    \A n \in DOMAIN t : t[n] = s[at[n]]

BuildInv ==
  /\ IsTree(tree) /\ PartsInv /\ Placed(tree, pts, parts)
  /\ points = ToBag(pts)

TreeOrBuild == (pc = "build" => BuildInv) /\ (pc # "build" => TreeInv)

LEMMA ToBagMeans ==
  ASSUME NEW S, NEW s \in Seq(S)
  PROVE  ToBag(s) = BagOf(s, 1..Len(s))
<1>1. DOMAIN s = 1..Len(s)
  OBVIOUS
<1> QED BY <1>1 DEF ToBag, Range, BagOf

LEMMA NothingPlaced ==
  ASSUME NEW s, NEW list, Pending(list) = 1..Len(s)
  PROVE  Placed(<<>>, s, list)
<1>1. DOMAIN <<>> = {} /\ (1..Len(s)) \ Pending(list) = {}
  OBVIOUS
<1>2. <<>> \in Bijection({}, {})
  BY DEF Bijection, Injection, Surjection, IsInjective
<1> QED BY <1>1, <1>2 DEF Placed

LEMMA BuildBegins ==
  ASSUME NEW list \in PointLists, BuildBalanced(list)
  PROVE  BuildInv' /\ pc' = "build"
<1> DEFINE whole == [node |-> <<>>, from |-> 1, to |-> Len(list)]
<1>1. /\ pts' = list /\ parts' = PartOf(<<>>, 1, Len(list)) /\ tree' = <<>>
      /\ points' = ToBag(list) /\ pc' = "build"
  BY DEF BuildBalanced
<1>2. list \in Seq(Points) /\ Len(list) \in Nat
  BY ListsAssumption DEF Points
<1>3. DOMAIN <<>> = {} /\ IsFiniteSet({})
  BY FS_EmptySet
<1>4. IsTree(tree')
  BY <1>1, <1>3 DEF IsTree, IsSplit
<1>5. CASE 1 <= Len(list)
  <2>1. parts' = <<whole>> /\ whole \in Parts(Len(list))
    BY <1>1, <1>2, <1>5 DEF PartOf, Parts
  <2>2. /\ parts' \in Seq(Parts(Len(list))) /\ Len(parts') = 1
        /\ \A i \in 1..Len(parts') : i = 1 /\ parts'[i] = whole
    <3> HIDE DEF whole
    <3> QED BY <2>1
  <2>3. Slice(whole) = 1..Len(list)
    BY DEF Slice
  <2>4. Awaits(whole, tree', pts')
    BY <1>1, <1>2, <1>3, <1>5 DEF Awaits
  <2> HIDE DEF whole
  <2>5. PartsInv'
    BY <1>1, <1>2, <2>2, <2>4 DEF PartsInv
  <2>6. Pending(parts') = 1..Len(list)
    BY <2>2, <2>3 DEF Pending
  <2> QED BY <1>1, <1>2, <1>4, <2>5, <2>6, NothingPlaced DEF BuildInv
<1>6. CASE ~(1 <= Len(list))
  <2>1. parts' = <<>> /\ Len(parts') = 0 /\ Len(list) = 0
    BY <1>1, <1>2, <1>6 DEF PartOf
  <2>2. PartsInv'
    <3>1. parts' \in Seq(Parts(Len(pts'))) /\ \A i \in 1..Len(parts') : FALSE
      BY <2>1
    <3>2. pts' \in Seq(Points)
      BY <1>1, <1>2
    <3> QED BY <3>1, <3>2 DEF PartsInv
  <2>3. Pending(parts') = 1..Len(list)
    BY <2>1 DEF Pending
  <2> QED BY <1>1, <1>2, <1>4, <2>2, <2>3, NothingPlaced DEF BuildInv
<1> QED BY <1>1, <1>5, <1>6

\* t is one sequence after the other.
IsJoin(t, ahead, behind, X) ==
  /\ t \in Seq(X) /\ Len(t) = Len(ahead) + Len(behind)
  /\ \A i \in 1..Len(t) : t[i] = IF i <= Len(ahead) THEN ahead[i] ELSE behind[i - Len(ahead)]

LEMMA Joined ==
  ASSUME NEW X, NEW ahead \in Seq(X), NEW behind \in Seq(X)
  PROVE  IsJoin(ahead \o behind, ahead, behind, X)
BY DEF IsJoin

LEMMA NoneToTwo ==
  ASSUME NEW m \in {0, 1}, NEW n \in {0, 1}
  PROVE  m + n \in Nat /\ m + n \in 0..2
<1>1. CASE m = 0
  BY <1>1
<1>2. CASE m = 1
  BY <1>2
<1> QED BY <1>1, <1>2

LEMMA FirstOfOne ==
  ASSUME NEW m \in {0, 1}, NEW i \in Nat, i >= 1, i <= m
  PROVE  i = 1 /\ m = 1
<1>1. CASE m = 0
  BY <1>1
<1>2. CASE m = 1
  BY <1>2
<1> QED BY <1>1, <1>2

LEMMA LastOfTwo ==
  ASSUME NEW m \in {0, 1}, NEW n \in {0, 1}, NEW i \in Nat, ~(i <= m), i <= m + n
  PROVE  i - m = 1 /\ n = 1 /\ i = m + n
<1>1. CASE m = 0
  BY <1>1
<1>2. CASE m = 1
  BY <1>2
<1> QED BY <1>1, <1>2

\* The stack after a call: the two calls it makes, and the others as before.
Comes(t, s, l, a, r, b) ==
  /\ l = <<a>> => \E j \in 1..Len(t) : t[j] = a
  /\ r = <<b>> => \E j \in 1..Len(t) : t[j] = b
  /\ \A i \in 2..Len(s) : \E j \in 1..Len(t) : t[j] = s[i]
  /\ \E f \in [1..Len(t) -> Int] :
       /\ \A i, j \in 1..Len(t) : f[i] = f[j] => i = j
       /\ \A i \in 1..Len(t) :
            \/ f[i] = 0 /\ l = <<a>> /\ t[i] = a
            \/ f[i] = 1 /\ r = <<b>> /\ t[i] = b
            \/ f[i] \in 2..Len(s) /\ t[i] = s[f[i]]

\* t is three sequences, one after the other.
IsThree(t, l, r, rest, X) ==
  /\ t \in Seq(X) /\ Len(t) = Len(l) + Len(r) + Len(rest)
  /\ \A i \in 1..Len(t) : t[i] = IF i <= Len(l) THEN l[i]
                                 ELSE IF i <= Len(l) + Len(r) THEN r[i - Len(l)]
                                 ELSE rest[i - (Len(l) + Len(r))]

LEMMA ThreeJoined ==
  ASSUME NEW X, NEW l \in Seq(X), NEW r \in Seq(X), NEW rest \in Seq(X)
  PROVE  IsThree(l \o r \o rest, l, r, rest, X)
<1> DEFINE lr == l \o r
           t == lr \o rest
<1>1. IsJoin(lr, l, r, X) /\ Len(l) \in Nat /\ Len(r) \in Nat
  BY Joined
<1>2. lr \in Seq(X)
  BY <1>1 DEF IsJoin
<1>3. IsJoin(t, lr, rest, X) /\ Len(rest) \in Nat
  <2> HIDE DEF lr
  <2> QED BY <1>2, Joined
<1> HIDE DEF lr, t
<1>4. t \in Seq(X) /\ Len(t) = Len(l) + Len(r) + Len(rest) /\ Len(lr) = Len(l) + Len(r)
  BY <1>1, <1>3 DEF IsJoin
<1>5. ASSUME NEW i \in 1..Len(t)
      PROVE  t[i] = IF i <= Len(l) THEN l[i]
                    ELSE IF i <= Len(l) + Len(r) THEN r[i - Len(l)]
                    ELSE rest[i - (Len(l) + Len(r))]
  <2>1. t[i] = IF i <= Len(lr) THEN lr[i] ELSE rest[i - Len(lr)]
    BY <1>3 DEF IsJoin
  <2>2. i \in 1..Len(lr) => lr[i] = IF i <= Len(l) THEN l[i] ELSE r[i - Len(l)]
    BY <1>1 DEF IsJoin
  <2>3. i <= Len(l) => i <= Len(lr)
    BY <1>1, <1>4
  <2> QED BY <1>1, <1>4, <2>1, <2>2, <2>3
<1>6. IsThree(t, l, r, rest, X)
  BY <1>4, <1>5 DEF IsThree
<1> QED BY <1>6 DEF t, lr

\* l is empty or a alone.
AtMost(l, a) == l = <<>> \/ l = <<a>>

LEMMA OneOrNone ==
  ASSUME NEW l, NEW a, AtMost(l, a)
  PROVE  /\ Len(l) \in {0, 1} /\ (Len(l) = 1 <=> l = <<a>>)
         /\ Len(l) = 1 => l[1] = a
BY DEF AtMost

LEMMA HeadAndTail ==
  ASSUME NEW X, NEW s \in Seq(X), s # <<>>
  PROVE  /\ 1 \in 1..Len(s) /\ Head(s) = s[1]
         /\ Len(s) \in Nat \ {0} /\ Tail(s) \in Seq(X) /\ Len(Tail(s)) = Len(s) - 1
         /\ \A i \in 1..(Len(s) - 1) : Tail(s)[i] = s[i + 1]
OBVIOUS

LEMMA NextParts ==
  ASSUME NEW X, NEW s \in Seq(X), s # <<>>, NEW a, NEW b,
         NEW l, NEW r, AtMost(l, a), AtMost(r, b),
         NEW t, IsThree(t, l, r, Tail(s), X)
  PROVE  t \in Seq(X) /\ Comes(t, s, l, a, r, b)
<1> DEFINE k == Len(l) + Len(r)
           f == [i \in 1..Len(t) |-> IF i <= Len(l) THEN 0 ELSE IF i <= k THEN 1 ELSE i - k + 1]
<1>1. /\ Len(s) \in Nat \ {0} /\ Len(Tail(s)) = Len(s) - 1
      /\ \A i \in 1..(Len(s) - 1) : Tail(s)[i] = s[i + 1]
  BY HeadAndTail
<1>2. /\ Len(l) \in {0, 1} /\ Len(r) \in {0, 1}
      /\ (Len(l) = 1 <=> l = <<a>>) /\ (Len(r) = 1 <=> r = <<b>>)
      /\ Len(l) = 1 => l[1] = a
      /\ Len(r) = 1 => r[1] = b
  BY OneOrNone
<1>3. /\ t \in Seq(X) /\ Len(t) = k + Len(s) - 1
      /\ \A i \in 1..Len(t) : t[i] = IF i <= Len(l) THEN l[i]
                                    ELSE IF i <= k THEN r[i - Len(l)]
                                    ELSE Tail(s)[i - k]
  <2>1. Len(t) = k + Len(Tail(s)) /\ t \in Seq(X)
    BY DEF IsThree
  <2>2. Len(t) = k + Len(s) - 1
    <3> k \in Nat
      BY <1>2
    <3> HIDE DEF k
    <3> QED BY <1>1, <2>1
  <2> QED BY <2>1, <2>2 DEF IsThree
<1>4. k \in 0..2 /\ Len(t) \in Nat
  <2>1. k \in 0..2
    BY <1>2, NoneToTwo
  <2> HIDE DEF k
  <2> QED BY <1>1, <1>3, <2>1
<1>5. ASSUME NEW i \in 1..Len(t)
      PROVE  \/ f[i] = 0 /\ l = <<a>> /\ t[i] = a /\ i = 1
             \/ f[i] = 1 /\ r = <<b>> /\ t[i] = b /\ i = k
             \/ f[i] \in 2..Len(s) /\ t[i] = s[f[i]] /\ i = f[i] + k - 1
  <2>1. CASE i <= Len(l)
    <3>1. i = 1 /\ Len(l) = 1
      <4>1. i \in Nat /\ i >= 1 /\ Len(l) \in {0, 1}
        BY <1>2, <1>4
      <4> QED BY <2>1, <4>1, FirstOfOne
    <3> QED BY <1>2, <1>3, <2>1, <3>1
  <2>2. CASE ~(i <= Len(l)) /\ i <= k
    <3>1. i - Len(l) = 1 /\ Len(r) = 1 /\ i = k
      <4>1. i \in Nat /\ Len(l) \in {0, 1} /\ Len(r) \in {0, 1}
        BY <1>2, <1>4
      <4>2. ~(i <= Len(l)) /\ i <= Len(l) + Len(r)
        BY <2>2
      <4> QED BY <4>1, <4>2, LastOfTwo
    <3> QED BY <1>2, <1>3, <2>2, <3>1
  <2>3. CASE ~(i <= Len(l)) /\ ~(i <= k)
    <3>1. i - k \in 1..(Len(s) - 1) /\ i - k + 1 \in 2..Len(s) /\ i = (i - k + 1) + k - 1
      BY <1>1, <1>3, <1>4, <2>3
    <3>2. t[i] = Tail(s)[i - k] /\ f[i] = i - k + 1
      BY <1>3, <2>3
    <3> HIDE DEF k, f
    <3>3. t[i] = s[i - k + 1]
      BY <1>1, <3>1, <3>2
    <3> QED BY <3>1, <3>2, <3>3
  <2>4. i <= Len(l) => i <= k
    BY <1>2
  <2> QED BY <2>1, <2>2, <2>3, <2>4
<1>6. f \in [1..Len(t) -> Int]
  BY <1>4
<1>7. \A i, j \in 1..Len(t) : f[i] = f[j] => i = j
  <2> SUFFICES ASSUME NEW i \in 1..Len(t), NEW j \in 1..Len(t), f[i] = f[j] PROVE i = j
    OBVIOUS
  <2>1. f[i] \in Int /\ f[j] \in Int /\ k \in Int /\ i \in Int /\ j \in Int
    BY <1>4
  <2>2. /\ \/ f[i] = 0 /\ i = 1 /\ l = <<a>>
           \/ f[i] = 1 /\ i = k
           \/ f[i] >= 2 /\ i = f[i] + k - 1
        /\ \/ f[j] = 0 /\ j = 1 /\ l = <<a>>
           \/ f[j] = 1 /\ j = k
           \/ f[j] >= 2 /\ j = f[j] + k - 1
    <3> HIDE DEF f, k
    <3>1. \A n \in 2..Len(s) : n >= 2
      OBVIOUS
    <3> QED BY <1>5, <3>1
  <2> HIDE DEF f, k
  <2> QED BY <2>1, <2>2
<1>8. l = <<a>> => \E j \in 1..Len(t) : t[j] = a
  <2> SUFFICES ASSUME l = <<a>> PROVE \E j \in 1..Len(t) : t[j] = a
    OBVIOUS
  <2>1. Len(l) = 1 /\ 1 \in 1..Len(t)
    BY <1>1, <1>2, <1>3
  <2> QED BY <1>2, <1>3, <2>1
<1>9. r = <<b>> => \E j \in 1..Len(t) : t[j] = b
  <2> SUFFICES ASSUME r = <<b>> PROVE \E j \in 1..Len(t) : t[j] = b
    OBVIOUS
  <2>1. Len(r) = 1 /\ k \in 1..Len(t) /\ ~(k <= Len(l)) /\ k - Len(l) = 1 /\ k <= k
    BY <1>1, <1>2, <1>3
  <2>2. t[k] = b
    BY <1>2, <1>3, <2>1
  <2> QED BY <2>1, <2>2
<1>10. ASSUME NEW i \in 2..Len(s) PROVE \E j \in 1..Len(t) : t[j] = s[i]
  <2> DEFINE j == i + k - 1
  <2>1. Len(l) <= k
    BY <1>2
  <2>2. j \in 1..Len(t) /\ ~(j <= k) /\ ~(j <= Len(l)) /\ j - k = i - 1 /\ i - 1 \in 1..(Len(s) - 1)
        /\ i - 1 + 1 = i
    <3>1. Len(l) \in Int /\ k \in Int /\ k >= 0 /\ Len(s) \in Int /\ Len(t) = k + Len(s) - 1
      BY <1>1, <1>2, <1>3, <1>4
    <3> HIDE DEF k
    <3> QED BY <2>1, <3>1
  <2>3. t[j] = Tail(s)[i - 1]
    <3> HIDE DEF j, k
    <3> QED BY <1>3, <2>2
  <2>4. t[j] = s[i]
    <3> HIDE DEF j, k
    <3> QED BY <1>1, <2>2, <2>3
  <2> QED BY <2>2, <2>4
<1>11. \A i \in 1..Len(t) :
          \/ f[i] = 0 /\ l = <<a>> /\ t[i] = a
          \/ f[i] = 1 /\ r = <<b>> /\ t[i] = b
          \/ f[i] \in 2..Len(s) /\ t[i] = s[f[i]]
  BY <1>5
<1>12. t \in Seq(X)
  BY <1>3
<1> HIDE DEF f, k
<1> QED BY <1>6, <1>7, <1>8, <1>9, <1>10, <1>11, <1>12 DEF Comes

\* What one call of buildBalanced does to the array ...
LEMMA SliceSorted ==
  ASSUME PartsInv, NEW part \in Parts(Len(pts)), NEW s \in SortedSlice(part)
  PROVE  /\ s \in Seq(Points) /\ Len(s) = Len(pts) /\ ToBag(s) = ToBag(pts)
         /\ \A k \in (1..Len(pts)) \ Slice(part) : s[k] = pts[k]
         /\ \A k \in Slice(part) : \E j \in Slice(part) : s[k] = pts[j]
         /\ GoesUp(s, Slice(part), Len(part.node))
<1> DEFINE m == Len(pts)
           S == Slice(part)
<1>1. PICK places \in Bijection(S, S) : s = Moved(places)
  BY DEF SortedSlice, Rearranged, Slice
<1>2. GoesUp(s, S, Len(part.node))
  BY DEF SortedSlice, Slice
<1>3. pts \in Seq(Points) /\ m \in Nat /\ DOMAIN pts = 1..m /\ S \subseteq 1..m
  BY DEF PartsInv, Parts, Slice
<1>4. /\ DOMAIN places = S /\ \A k \in S : places[k] \in S
      /\ \A k, j \in S : places[k] = places[j] => k = j
      /\ \A j \in S : \E k \in S : places[k] = j
  BY <1>1 DEF Bijection, Injection, Surjection, IsInjective
<1> DEFINE at == [i \in 1..m |-> IF i \in S THEN places[i] ELSE i]
<1> HIDE DEF S
<1>5. s = [i \in 1..m |-> IF i \in S THEN pts[places[i]] ELSE pts[i]]
  BY <1>1, <1>3, <1>4 DEF Moved
<1>6. \A i \in 1..m : at[i] \in 1..m /\ s[i] = pts[at[i]] /\ s[i] \in Points
  <2>1. \A i \in 1..m : pts[i] \in Points
    BY <1>3
  <2> QED BY <1>3, <1>4, <1>5, <2>1
<1>7. s \in Seq(Points) /\ Len(s) = m
  BY <1>3, <1>5, <1>6
<1>8. at \in Bijection(1..m, 1..m)
  <2>1. \A i, j \in 1..m : at[i] = at[j] => i = j
    BY <1>4
  <2>2. ASSUME NEW j \in 1..m PROVE \E i \in 1..m : at[i] = j
    <3>1. CASE j \in S
      <4>1. PICK k \in S : places[k] = j
        BY <1>4, <3>1
      <4> QED BY <1>3, <4>1
    <3>2. CASE j \notin S
      BY <3>2
    <3> QED BY <3>1, <3>2
  <2>3. at \in [1..m -> 1..m]
    BY <1>6
  <2> HIDE DEF at, m
  <2> QED BY <2>1, <2>2, <2>3 DEF Bijection, Injection, Surjection, IsInjective
<1>9. ToBag(s) = ToBag(pts)
  <2>1. IsFiniteSet(1..m)
    BY <1>3, FS_Interval
  <2>2. \A i \in 1..m : s[i] = pts[at[i]]
    BY <1>6
  <2> HIDE DEF at
  <2>3. BagOf(s, 1..m) = BagOf(pts, 1..m)
    BY <1>8, <2>1, <2>2, SameBag
  <2> QED BY <1>3, <1>7, <2>3, ToBagMeans
<1>10. \A k \in S : \E j \in S : s[k] = pts[j]
  BY <1>3, <1>4, <1>5
<1>11. \A k \in (1..m) \ S : s[k] = pts[k]
  BY <1>5
<1> QED BY <1>2, <1>7, <1>9, <1>10, <1>11 DEF S

\* ... and to the tree and the stack.
LEMMA BuildNodeKeeps ==
  ASSUME BuildInv, BuildNode
  PROVE  BuildInv' /\ pc' = "build"
<1> DEFINE part == Head(parts)
           x == part.node
           m == Len(pts)
           S == Slice(part)
           middle == part.from + (part.to - part.from + 1) \div 2
           s == pts'
           p == s[middle]
           D == DOMAIN tree
           u == tree'
           a == [node |-> Append(x, "left"), from |-> part.from, to |-> middle - 1]
           b == [node |-> Append(x, "right"), from |-> middle + 1, to |-> part.to]
           l == PartOf(Append(x, "left"), part.from, middle - 1)
           r == PartOf(Append(x, "right"), middle + 1, part.to)
           t == parts'
<1>1. /\ parts # <<>> /\ s \in SortedSlice(part) /\ points' = points
      /\ u = [n \in D \cup {x} |-> IF n \in D THEN tree[n] ELSE p]
      /\ t = l \o r \o Tail(parts) /\ pc' = "build"
  BY DEF BuildNode
<1>2. /\ parts \in Seq(Parts(m)) /\ 1 \in 1..Len(parts) /\ part = parts[1]
      /\ part \in Parts(m) /\ Awaits(part, tree, pts)
      /\ IsTree(tree) /\ pts \in Seq(Points) /\ m \in Nat
  <2>1. parts \in Seq(Parts(m)) /\ pts \in Seq(Points)
    BY DEF BuildInv, PartsInv
  <2>2. 1 \in 1..Len(parts) /\ part = parts[1]
    <3>1. parts # <<>>
      BY <1>1
    <3> QED BY <2>1, <3>1, HeadAndTail
  <2> QED BY <2>1, <2>2 DEF BuildInv, PartsInv
<1>3. /\ x \in Seq(Sides) /\ Len(x) \in Nat /\ part.from \in 1..m /\ part.to \in 1..m
      /\ part.from <= part.to /\ x \notin D
  BY <1>2 DEF Parts, Awaits
<1>4. /\ s \in Seq(Points) /\ Len(s) = m /\ ToBag(s) = ToBag(pts)
      /\ \A k \in (1..m) \ S : s[k] = pts[k]
      /\ \A k \in S : \E j \in S : s[k] = pts[j]
      /\ GoesUp(s, S, Len(x))
  <2>1. PartsInv
    BY DEF BuildInv
  <2> QED BY <1>1, <1>2, <2>1, SliceSorted
<1>5. /\ middle \in Int /\ part.from <= middle /\ middle <= part.to
      /\ S = part.from..part.to /\ middle \in S /\ S \subseteq 1..m
  BY <1>3 DEF Slice
<1> HIDE DEF middle, s, S, t, u
<1>6. \A k \in S : s[k] \in Points
  <2>1. \A k \in S : k \in 1..Len(s)
    BY <1>4, <1>5
  <2>2. s \in Seq(Points)
    BY <1>4
  <2> QED BY <2>1, <2>2
<1>7. ASSUME NEW d \in 0..(Len(x) - 1)
      PROVE  /\ SubSeq(x, 1, d) \in D
             /\ \A k \in S : OnSide(s[k], tree[SubSeq(x, 1, d)], d, x[d + 1])
  <2>1. SubSeq(x, 1, d) \in D /\ \A k \in S : OnSide(pts[k], tree[SubSeq(x, 1, d)], d, x[d + 1])
    BY <1>2 DEF Awaits, S
  <2> QED BY <1>4, <2>1
<1>8. IsTree(u) /\ DOMAIN u = D \cup {x} /\ u[x] = p /\ \A n \in D : u[n] = tree[n]
  <2>1. \A d \in 0..(Len(x) - 1) :
          SubSeq(x, 1, d) \in D /\ OnSide(p, tree[SubSeq(x, 1, d)], d, x[d + 1])
    BY <1>5, <1>7
  <2>2. p \in Points /\ \A n \in D : tree[n] \in Points
    BY <1>2, <1>5, <1>6 DEF IsTree
  <2> HIDE DEF p
  <2>3. u \in [D \cup {x} -> Points] /\ u[x] = p /\ \A n \in D : u[n] = tree[n]
    BY <1>1, <1>3, <2>2
  <2> QED BY <1>2, <1>3, <2>1, <2>2, <2>3, AddNode
\* The calls that were waiting wait on.
<1>9. ASSUME NEW i \in 2..Len(parts)
      PROVE  /\ parts[i] \in Parts(m) /\ Unlike(parts[i], part)
             /\ Awaits(parts[i], u, s)
  <2> DEFINE c == parts[i]
  <2>1. i \in 1..Len(parts) /\ i # 1
    BY <1>2
  <2>2. c \in Parts(m) /\ Awaits(c, tree, pts) /\ Unlike(c, part)
    BY <1>2, <2>1 DEF BuildInv, PartsInv
  <2> HIDE DEF c
  <2>3. c.node # x /\ \A k \in Slice(c) : k \in (1..m) \ S
    BY <1>3, <2>2 DEF Unlike, Parts, Slice, S
  <2>4. c.node \notin DOMAIN u
    BY <1>8, <2>2, <2>3 DEF Awaits
  <2>5. ASSUME NEW d \in 0..(Len(c.node) - 1)
        PROVE  /\ SubSeq(c.node, 1, d) \in DOMAIN u
               /\ \A k \in Slice(c) : OnSide(s[k], u[SubSeq(c.node, 1, d)], d, c.node[d + 1])
    <3>1. /\ SubSeq(c.node, 1, d) \in D
          /\ \A k \in Slice(c) : OnSide(pts[k], tree[SubSeq(c.node, 1, d)], d, c.node[d + 1])
      BY <2>2 DEF Awaits
    <3> QED BY <1>4, <1>8, <2>3, <3>1
  <2>6. Awaits(c, u, s)
    BY <2>2, <2>4, <2>5 DEF Awaits
  <2> QED BY <2>2, <2>6 DEF c
\* The calls that come before them.
<1>10. ASSUME NEW c, NEW side \in Sides, c.node = Append(x, side),
              c.from \in Int, c.to \in Int, c.from <= c.to, Slice(c) \subseteq S,
              \A k \in Slice(c) : OnSide(s[k], p, Len(x), side)
       PROVE  /\ Awaits(c, u, s) /\ c.node # x
              /\ \A i \in 2..Len(parts) : c.node # parts[i].node
  <2> DEFINE y == Append(x, side)
  <2>1. /\ y \in Seq(Sides) /\ Len(y) = Len(x) + 1 /\ y[Len(x) + 1] = side
        /\ Under(x, y)
    BY <1>3, UnderChild
  <2>2. y # x
    BY <1>3, <2>1
  <2> HIDE DEF y
  <2>3. y \notin D
    BY <1>2, <1>3, <2>1, NodesAbove
  <2>4. ASSUME NEW d \in 0..Len(x)
        PROVE  /\ SubSeq(y, 1, d) \in DOMAIN u
               /\ \A k \in Slice(c) : OnSide(s[k], u[SubSeq(y, 1, d)], d, y[d + 1])
    <3>1. SubSeq(y, 1, d) = SubSeq(x, 1, d)
      <4>1. d \in 0..Len(y)
        BY <1>3, <2>1
      <4>2. /\ SubSeq(y, 1, d) \in Seq(Sides) /\ Len(SubSeq(y, 1, d)) = d
            /\ \A i \in 1..d : SubSeq(y, 1, d)[i] = y[i]
        BY <2>1, <4>1, SubPath
      <4>3. /\ SubSeq(x, 1, d) \in Seq(Sides) /\ Len(SubSeq(x, 1, d)) = d
            /\ \A i \in 1..d : SubSeq(x, 1, d)[i] = x[i]
        BY <1>3, SubPath
      <4>4. \A i \in 1..d : x[i] = y[i]
        BY <1>3, <2>1 DEF Under
      <4> QED BY <4>2, <4>3, <4>4, SeqEqual
    <3>2. CASE d = Len(x)
      <4>1. SubSeq(x, 1, d) = x
        BY <1>3, <3>2, UnderIsPrefix
      <4> QED BY <1>8, <1>10, <2>1, <3>1, <3>2, <4>1
    <3>3. CASE d # Len(x)
      <4>1. d \in 0..(Len(x) - 1) /\ d + 1 \in 1..Len(x)
        BY <1>3, <3>3
      <4>2. y[d + 1] = x[d + 1]
        BY <2>1, <4>1 DEF Under
      <4> QED BY <1>7, <1>8, <1>10, <3>1, <4>1, <4>2
    <3> QED BY <3>2, <3>3
  <2>5. \A d \in 0..(Len(y) - 1) : d \in 0..Len(x)
    BY <1>3, <2>1
  <2>6. Awaits(c, u, s)
    BY <1>8, <1>10, <2>2, <2>3, <2>4, <2>5 DEF Awaits, y
  <2>7. ASSUME NEW i \in 2..Len(parts) PROVE y # parts[i].node
    <3>1. i \in 1..Len(parts)
      BY <1>2
    <3>2. Awaits(parts[i], tree, pts)
      BY <3>1 DEF BuildInv, PartsInv
    <3>3. x = SubSeq(y, 1, Len(x)) /\ Len(x) \in 0..(Len(y) - 1)
      BY <1>3, <2>1, UnderIsPrefix
    <3> QED BY <1>3, <3>2, <3>3 DEF Awaits
  <2> QED BY <1>10, <2>2, <2>6, <2>7 DEF y
<1>11. ASSUME NEW k \in S
       PROVE  Coordinate(s[k], Len(x)) \in Int /\ (k <= middle => OnSide(s[k], p, Len(x), "left"))
              /\ (middle <= k => OnSide(s[k], p, Len(x), "right"))
  <2>1. s[k] \in Points /\ p \in Points
    BY <1>5, <1>6
  <2>2. Coordinate(s[k], Len(x)) \in Int /\ Coordinate(p, Len(x)) \in Int
    BY <2>1, PointFacts
  <2>3. /\ k <= middle => Coordinate(s[k], Len(x)) <= Coordinate(p, Len(x))
        /\ middle <= k => Coordinate(p, Len(x)) <= Coordinate(s[k], Len(x))
    BY <1>4, <1>5 DEF GoesUp
  <2> HIDE DEF p
  <2> QED BY <2>2, <2>3 DEF OnSide
<1>12. Slice(a) = part.from..(middle - 1) /\ Slice(b) = (middle + 1)..part.to
  BY DEF Slice
<1>13. ASSUME l # <<>>
       PROVE  /\ l = <<a>> /\ a \in Parts(m) /\ Awaits(a, u, s)
              /\ Append(x, "left") # x
              /\ \A i \in 2..Len(parts) : a.node # parts[i].node
  <2>1. l = <<a>> /\ part.from <= middle - 1
    BY <1>13 DEF PartOf
  <2>2. \A k \in Slice(a) : k \in S /\ k <= middle
    BY <1>3, <1>5, <1>12
  <2>3. a.node = Append(x, "left") /\ a.from = part.from /\ a.to = middle - 1 /\ "left" \in Sides
    BY DEF Sides
  <2>4. a \in Parts(m)
    BY <1>3, <1>5, <2>1, <2>3, UnderChild DEF Parts
  <2>5. \A k \in Slice(a) : OnSide(s[k], p, Len(x), "left")
    BY <1>11, <2>2
  <2>6. a.from \in Int /\ a.to \in Int /\ a.from <= a.to
    BY <1>3, <1>5, <2>1, <2>3
  <2> HIDE DEF a, p
  <2> QED BY <1>10, <2>1, <2>2, <2>3, <2>4, <2>5, <2>6
<1>14. ASSUME r # <<>>
       PROVE  /\ r = <<b>> /\ b \in Parts(m) /\ Awaits(b, u, s)
              /\ Append(x, "right") # x
              /\ \A i \in 2..Len(parts) : b.node # parts[i].node
  <2>1. r = <<b>> /\ middle + 1 <= part.to
    BY <1>14 DEF PartOf
  <2>2. \A k \in Slice(b) : k \in S /\ middle <= k
    BY <1>3, <1>5, <1>12
  <2>3. b.node = Append(x, "right") /\ b.from = middle + 1 /\ b.to = part.to /\ "right" \in Sides
    BY DEF Sides
  <2>4. b \in Parts(m)
    BY <1>3, <1>5, <2>1, <2>3, UnderChild DEF Parts
  <2>5. \A k \in Slice(b) : OnSide(s[k], p, Len(x), "right")
    BY <1>11, <2>2
  <2>6. b.from \in Int /\ b.to \in Int /\ b.from <= b.to
    BY <1>3, <1>5, <2>1, <2>3
  <2> HIDE DEF b, p
  <2> QED BY <1>10, <2>1, <2>2, <2>3, <2>4, <2>5, <2>6
<1>15. a.node # b.node /\ Slice(a) \cap Slice(b) = {}
       /\ Slice(a) \subseteq S /\ Slice(b) \subseteq S
       /\ S = Slice(a) \cup Slice(b) \cup {middle}
       /\ middle \notin Slice(a) /\ middle \notin Slice(b)
  <2>1. a.node[Len(x) + 1] = "left" /\ b.node[Len(x) + 1] = "right"
    BY <1>3, UnderChild DEF Sides
  <2>2. /\ (part.from..(middle - 1)) \cap ((middle + 1)..part.to) = {}
        /\ part.from..part.to = (part.from..(middle - 1)) \cup ((middle + 1)..part.to) \cup {middle}
    BY <1>3, <1>5
  <2>3. middle \notin part.from..(middle - 1) /\ middle \notin (middle + 1)..part.to
    BY <1>5
  <2> QED BY <1>5, <1>12, <2>1, <2>2, <2>3
<1>16. /\ l \in Seq(Parts(m)) /\ (l = <<>> \/ l = <<a>>)
       /\ r \in Seq(Parts(m)) /\ (r = <<>> \/ r = <<b>>)
  <2> HIDE DEF l, r, a, b, m
  <2>1. \A c \in Parts(m) : <<c>> \in Seq(Parts(m))
    OBVIOUS
  <2>2. <<>> \in Seq(Parts(m))
    OBVIOUS
  <2> QED BY <1>13, <1>14, <2>1, <2>2
<1>17. /\ l = <<>> => Slice(a) = {}
       /\ r = <<>> => Slice(b) = {}
  <2>1. ~(part.from <= middle - 1) => part.from..(middle - 1) = {}
    BY <1>3, <1>5
  <2>2. ~(middle + 1 <= part.to) => (middle + 1)..part.to = {}
    BY <1>3, <1>5
  <2>3. (l = <<>> => ~(part.from <= middle - 1)) /\ (r = <<>> => ~(middle + 1 <= part.to))
    BY DEF PartOf
  <2> QED BY <1>12, <2>1, <2>2, <2>3
<1> HIDE DEF l, r, a, b, p
<1>18. t \in Seq(Parts(m)) /\ Comes(t, parts, l, a, r, b)
  <2> HIDE DEF m, part
  <2>1. Tail(parts) \in Seq(Parts(m))
    BY <1>1, <1>2, HeadAndTail
  <2>2. IsThree(t, l, r, Tail(parts), Parts(m))
    BY <1>1, <1>16, <2>1, ThreeJoined
  <2>3. AtMost(l, a) /\ AtMost(r, b)
    BY <1>16 DEF AtMost
  <2> QED BY <1>1, <1>2, <2>2, <2>3, NextParts
<1>19. PICK f \in [1..Len(t) -> Int] :
         /\ \A i, j \in 1..Len(t) : f[i] = f[j] => i = j
         /\ \A i \in 1..Len(t) :
              \/ f[i] = 0 /\ l = <<a>> /\ t[i] = a
              \/ f[i] = 1 /\ r = <<b>> /\ t[i] = b
              \/ f[i] \in 2..Len(parts) /\ t[i] = parts[f[i]]
  BY <1>18 DEF Comes
<1>20. <<a>> # <<>> /\ <<b>> # <<>>
  OBVIOUS
<1>21. \A i \in 1..Len(t) : Awaits(t[i], u, s)
  BY <1>9, <1>13, <1>14, <1>19, <1>20
<1>22. ASSUME NEW i \in 2..Len(parts)
       PROVE  /\ Slice(parts[i]) \cap Slice(a) = {} /\ Slice(parts[i]) \cap Slice(b) = {}
              /\ Slice(parts[i]) \cap S = {}
  BY <1>9, <1>15 DEF Unlike, S
<1>23. \A i, j \in 2..Len(parts) : i # j => Unlike(parts[i], parts[j])
  <2>1. \A i \in 2..Len(parts) : i \in 1..Len(parts)
    BY <1>2
  <2> QED BY <2>1 DEF BuildInv, PartsInv
<1>24. ASSUME NEW i \in 1..Len(t), NEW j \in 1..Len(t), i # j PROVE Unlike(t[i], t[j])
  <2>1. f[i] # f[j]
    BY <1>19, <1>24
  <2>2. CASE f[i] \in 2..Len(parts) /\ t[i] = parts[f[i]] /\ f[j] \in 2..Len(parts) /\ t[j] = parts[f[j]]
    BY <1>23, <2>1, <2>2
  <2>3. CASE f[i] = 0 /\ l = <<a>> /\ t[i] = a /\ f[j] \in 2..Len(parts) /\ t[j] = parts[f[j]]
    BY <1>13, <1>20, <1>22, <2>3 DEF Unlike
  <2>4. CASE f[j] = 0 /\ l = <<a>> /\ t[j] = a /\ f[i] \in 2..Len(parts) /\ t[i] = parts[f[i]]
    BY <1>13, <1>20, <1>22, <2>4 DEF Unlike
  <2>5. CASE f[i] = 1 /\ r = <<b>> /\ t[i] = b /\ f[j] \in 2..Len(parts) /\ t[j] = parts[f[j]]
    BY <1>14, <1>20, <1>22, <2>5 DEF Unlike
  <2>6. CASE f[j] = 1 /\ r = <<b>> /\ t[j] = b /\ f[i] \in 2..Len(parts) /\ t[i] = parts[f[i]]
    BY <1>14, <1>20, <1>22, <2>6 DEF Unlike
  <2>7. CASE (f[i] = 0 /\ t[i] = a /\ f[j] = 1 /\ t[j] = b) \/ (f[j] = 0 /\ t[j] = a /\ f[i] = 1 /\ t[i] = b)
    BY <1>15, <2>7 DEF Unlike
  <2> QED BY <1>19, <2>1, <2>2, <2>3, <2>4, <2>5, <2>6, <2>7
<1>25. PartsInv'
  BY <1>4, <1>18, <1>21, <1>24 DEF PartsInv, s, t, u, m
\* The index in the middle is the new node's.
<1>26. /\ middle \notin Pending(t)
       /\ Pending(parts) = Pending(t) \cup {middle}
  <2>1. \A k : k \in Pending(t) <=> \E i \in 1..Len(t) : k \in Slice(t[i])
    BY DEF Pending
  <2>2. \A k : k \in Pending(parts) <=> \E i \in 1..Len(parts) : k \in Slice(parts[i])
    BY DEF Pending
  <2>3. \A i \in 1..Len(parts) : i = 1 \/ i \in 2..Len(parts)
    BY <1>2
  <2>4. \A i \in 2..Len(parts) : i \in 1..Len(parts)
    BY <1>2
  <2>5. ASSUME NEW k \in Pending(t) PROVE k \in Pending(parts) /\ k # middle
    <3>1. PICK i \in 1..Len(t) : k \in Slice(t[i])
      BY <2>1
    <3>2. CASE f[i] \in 2..Len(parts) /\ t[i] = parts[f[i]]
      <4>1. k \in Slice(parts[f[i]]) /\ k \notin S
        BY <1>22, <3>1, <3>2
      <4> QED BY <1>5, <2>2, <2>4, <3>2, <4>1
    <3>3. CASE t[i] = a \/ t[i] = b
      <4>1. k \in S /\ k # middle
        BY <1>15, <3>1, <3>3
      <4>2. k \in Slice(parts[1])
        BY <1>2, <4>1 DEF S
      <4> QED BY <1>2, <2>2, <4>1, <4>2
    <3> QED BY <1>19, <3>2, <3>3
  <2>6. ASSUME NEW k \in Pending(parts), k # middle PROVE k \in Pending(t)
    <3>1. PICK i \in 1..Len(parts) : k \in Slice(parts[i])
      BY <2>2
    <3>2. CASE i \in 2..Len(parts)
      <4>1. PICK j \in 1..Len(t) : t[j] = parts[i]
        BY <1>18, <3>2 DEF Comes
      <4> QED BY <2>1, <3>1, <4>1
    <3>3. CASE i = 1
      <4>1. k \in S
        BY <1>2, <3>1, <3>3 DEF S
      <4>2. k \in Slice(a) \/ k \in Slice(b)
        BY <1>15, <2>6, <4>1
      <4>3. CASE k \in Slice(a)
        <5>1. l = <<a>>
          BY <1>16, <1>17, <4>3
        <5>2. PICK j \in 1..Len(t) : t[j] = a
          BY <1>18, <5>1 DEF Comes
        <5> QED BY <2>1, <4>3, <5>2
      <4>4. CASE k \in Slice(b)
        <5>1. r = <<b>>
          BY <1>16, <1>17, <4>4
        <5>2. PICK j \in 1..Len(t) : t[j] = b
          BY <1>18, <5>1 DEF Comes
        <5> QED BY <2>1, <4>4, <5>2
      <4> QED BY <4>2, <4>3, <4>4
    <3> QED BY <2>3, <3>1, <3>2, <3>3
  <2>7. middle \in Pending(parts)
    BY <1>2, <1>5, <2>2 DEF S
  <2> QED BY <2>5, <2>6, <2>7
<1>27. Placed(u, s, t)
  <2>1. PICK at \in Bijection(D, (1..m) \ Pending(parts)) : \A n \in D : tree[n] = pts[at[n]]
    BY DEF BuildInv, Placed
  <2> DEFINE new == [n \in D \cup {x} |-> IF n \in D THEN at[n] ELSE middle]
             Free == (1..m) \ Pending(parts)
             NewFree == (1..m) \ Pending(t)
  <2>2. /\ at \in [D -> Free] /\ \A n, o \in D : at[n] = at[o] => n = o
        /\ \A k \in Free : \E n \in D : at[n] = k
    BY <2>1 DEF Bijection, Injection, Surjection, IsInjective
  <2>3. NewFree = Free \cup {middle} /\ middle \notin Free
    BY <1>5, <1>26
  <2> HIDE DEF Free, NewFree
  <2>4. /\ new \in [D \cup {x} -> NewFree]
        /\ \A n, o \in D \cup {x} : new[n] = new[o] => n = o
    BY <1>3, <2>2, <2>3
  <2>5. \A k \in NewFree : \E n \in D \cup {x} : new[n] = k
    <3> SUFFICES ASSUME NEW k \in NewFree PROVE \E n \in D \cup {x} : new[n] = k
      OBVIOUS
    <3>1. CASE k = middle
      BY <1>3, <3>1
    <3>2. CASE k \in Free
      <4>1. PICK n \in D : at[n] = k
        BY <2>2, <3>2
      <4> QED BY <4>1
    <3> QED BY <2>3, <3>1, <3>2
  <2>6. \A n \in D \cup {x} : u[n] = s[new[n]]
    <3>1. u[x] = s[new[x]]
      BY <1>3, <1>8 DEF p
    <3>2. ASSUME NEW n \in D PROVE u[n] = s[new[n]]
      <4>1. new[n] = at[n] /\ at[n] \in (1..m) \ Pending(parts)
        BY <2>2 DEF Free
      <4>2. S \subseteq Pending(parts)
        BY <1>2 DEF Pending, S
      <4>3. s[at[n]] = pts[at[n]]
        BY <1>4, <4>1, <4>2
      <4> QED BY <1>8, <2>1, <4>1, <4>3
    <3> QED BY <3>1, <3>2
  <2> HIDE DEF new
  <2>7. new \in Bijection(DOMAIN u, NewFree)
    BY <1>8, <2>4, <2>5 DEF Bijection, Injection, Surjection, IsInjective
  <2> QED BY <1>4, <1>8, <2>6, <2>7 DEF Placed, NewFree
<1>28. points' = ToBag(s)
  BY <1>1, <1>4 DEF BuildInv
<1> QED BY <1>1, <1>8, <1>25, <1>27, <1>28 DEF BuildInv, s, t, u

\* When no slice is left, every point of the array has become a node.
LEMMA BuildIsTree ==
  ASSUME BuildInv, BuildEnds
  PROVE  TreeInv' /\ pc' = "idle"
<1> DEFINE D == DOMAIN tree
           m == Len(pts)
<1>1. /\ parts = <<>> /\ count' = m /\ tree' = tree /\ points' = points /\ pc' = "idle"
      /\ IsTree(tree) /\ IsFiniteSet(D)
      /\ pts \in Seq(Points) /\ m \in Nat /\ points = ToBag(pts)
  BY DEF BuildEnds, BuildInv, PartsInv, IsTree
<1>2. Pending(parts) = {}
  BY <1>1 DEF Pending
<1>3. PICK at \in Bijection(D, 1..m) : \A n \in D : tree[n] = pts[at[n]]
  BY <1>2 DEF BuildInv, Placed
<1>4. PointsOf(tree) = ToBag(pts)
  <2>1. BagOf(tree, D) = BagOf(pts, 1..m)
    BY <1>1, <1>3, SameBag
  <2>2. PointsOf(tree) = BagOf(tree, D)
    BY DEF PointsOf, BagOf
  <2> QED BY <1>1, <2>1, <2>2, ToBagMeans
<1>5. Cardinality(D) = m
  <2>1. ExistsBijection(D, 1..m)
    BY <1>3 DEF ExistsBijection
  <2>2. Cardinality(1..m) = m
    <3>1. 1 \in Int /\ m \in Int
      BY <1>1
    <3>2. Cardinality(1..m) = IF 1 > m THEN 0 ELSE m - 1 + 1
      BY <3>1, FS_Interval
    <3> QED BY <1>1, <3>2
  <2> QED BY <1>1, <2>1, <2>2, FS_Bijection
<1> QED BY <1>1, <1>4, <1>5 DEF TreeInv

LEMMA InitTree == Init => TreeOrBuild
<1> SUFFICES ASSUME Init PROVE TreeInv /\ pc = "idle"
  BY DEF TreeOrBuild
<1>1. tree = <<>> /\ points = <<>> /\ count = 0 /\ DOMAIN tree = {} /\ pc = "idle"
  BY DEF Init
<1>2. IsFiniteSet(DOMAIN tree) /\ Cardinality(DOMAIN tree) = 0
  BY <1>1, FS_EmptySet
<1>3. points = PointsOf(tree)
  BY <1>1 DEF PointsOf
<1>4. IsSplit(tree)
  BY <1>1 DEF IsSplit
<1>5. tree \in [DOMAIN tree -> Points]
  BY <1>1
<1> QED BY <1>1, <1>2, <1>3, <1>4, <1>5 DEF TreeInv, IsTree

\* The steps that only search.
Searches ==
  \/ \E place \in Queries, radius \in Radii : FindNearby(place, radius)
  \/ \E place \in Queries, k \in Ks : FindKNearest(place, k)
  \/ CutOff
  \/ \E n \in DOMAIN tree :
       VisitInRange(n) \/ PushLast(n) \/ PushOverRoot(n) \/ PushNothing(n)
  \/ HeapifyUp \/ HeapifyDown
  \/ Answer \/ Return

LEMMA SearchesLeaveContents ==
  Searches => UNCHANGED contents /\ pc # "build" /\ pc' # "build"
BY DEF Searches, FindNearby, FindKNearest, CutOff, VisitInRange, PushLast, PushOverRoot,
       PushNothing, Visits, HeapifyUp, HeapifyDown, SwapTo, Settle, Answer, Return

LEMMA SameContents ==
  UNCHANGED contents => (TreeInv => TreeInv') /\ (BuildInv => BuildInv')
<1> SUFFICES ASSUME tree' = tree, count' = count, points' = points, pts' = pts, parts' = parts
             PROVE  (TreeInv => TreeInv') /\ (BuildInv => BuildInv')
  BY DEF contents
<1> QED BY DEF TreeInv, BuildInv, PartsInv

LEMMA TreeNext ==
  TreeOrBuild /\ [Next]_vars => TreeOrBuild'
<1> SUFFICES ASSUME TreeOrBuild, [Next]_vars PROVE TreeOrBuild'
  OBVIOUS
<1>1. CASE \E p \in Grid : Insert(p)
  <2>1. PICK p \in Points : Insert(p)
    BY <1>1 DEF Points
  <2>2. pc = "idle" /\ pc' = "idle"
    BY <2>1 DEF Insert
  <2> QED BY <2>1, <2>2, InsertKeepsTree DEF TreeOrBuild
<1>2. CASE \E list \in PointLists : BuildBalanced(list)
  BY <1>2, BuildBegins DEF TreeOrBuild
<1>3. CASE BuildNode
  <2>1. pc = "build"
    BY <1>3 DEF BuildNode
  <2> QED BY <1>3, <2>1, BuildNodeKeeps DEF TreeOrBuild
<1>4. CASE BuildEnds
  <2>1. pc = "build"
    BY <1>4 DEF BuildEnds
  <2> QED BY <1>4, <2>1, BuildIsTree DEF TreeOrBuild
<1>5. CASE Searches
  BY <1>5, SearchesLeaveContents, SameContents DEF TreeOrBuild
<1>6. CASE UNCHANGED vars
  <2>1. UNCHANGED contents /\ pc' = pc
    BY <1>6 DEF vars
  <2> QED BY <2>1, SameContents DEF TreeOrBuild
<1> QED BY <1>1, <1>2, <1>3, <1>4, <1>5, <1>6 DEF Next, Searches

(* Whatever mixture of BuildBalanced and Insert has made the tree, and     *)
(* while a build makes one, every node divides what is under it by its     *)
(* coordinate: buildBalanced sorts before it divides, and insertNode turns *)
(* at every node the way that the searches turn there.                     *)
THEOREM TreeIsSplit == Spec => []SplitByPlanes
<1>1. Spec => []TreeOrBuild
  BY InitTree, TreeNext, PTL DEF Spec
<1>2. TreeOrBuild => SplitByPlanes
  BY DEF TreeOrBuild, TreeInv, BuildInv, IsTree, SplitByPlanes
<1> QED BY <1>1, <1>2, PTL

-----------------------------------------------------------------------------
(* The search: where its calls wait, what it has found, and what it may    *)
(* have passed over.                                                       *)
Calls == [node : DOMAIN tree, plane : Int]

\* The subtrees that the calls of s wait for, and the nodes in the results.
Waiting(s) == {s[i].node : i \in 1..Len(s)}
Held == {found[i] : i \in 1..Len(found)}

Separate(s) == \A i, j \in 1..Len(s) : i # j => ~Under(s[i].node, s[j].node)

\* A call with a plane is for the far side of some node, and the plane that
\* node's.
FarSideOf(c, n) ==
  c.node = Append(n, Opposite(Side(query, n))) /\ c.plane = PlaneDist(n)

Planned(s) ==
  \A i \in 1..Len(s) : s[i].plane # Always => \E n \in DOMAIN tree : FarSideOf(s[i], n)

CallInv ==
  /\ pc \in {"idle", "build", "search", "up", "down", "done"}
  /\ pc \in {"idle", "build"} => call = "none" /\ stack = <<>> /\ found = <<>>
  /\ pc \notin {"idle", "build"} => query \in Queries /\ call \in {"nearby", "nearest"} /\ bound \in Int
  /\ pc \in {"up", "down"} => call = "nearest"
  /\ pc \in {"search", "up", "down"} /\ call = "nearest" => bound > 0
  /\ pc = "done" => stack = <<>>
  /\ call = "nearest" /\ bound <= 0 => found = <<>>

StackInv == stack \in Seq(Calls) /\ Separate(stack) /\ Planned(stack)

FoundInv ==
  /\ found \in Seq(DOMAIN tree)
  /\ \A i, j \in 1..Len(found) : found[i] = found[j] => i = j
  /\ \A c \in Waiting(stack), n \in Held : ~Under(c, n)
  /\ call = "nearby" => \A n \in Held : Distance(n) <= bound
  /\ call = "nearest" /\ bound > 0 => Len(found) <= bound

(* Why a node may be missing from the results, whatever is found yet.      *)
Excused(m) ==
  \/ call = "nearby" /\ (Distance(m) > bound \/ ReckonedBeyond(tree[m], bound))
  \/ /\ call = "nearest" /\ Len(found) = bound
     /\ \A n \in Held : Distance(m) >= Distance(n) \/ Reckoned(tree[m], Distance(n))

LeftInv ==
  (call = "nearby" \/ (call = "nearest" /\ bound > 0)) =>
    \A m \in DOMAIN tree :
      m \in Held \/ (\E c \in Waiting(stack) : Under(c, m)) \/ Excused(m)

(* The heap, but for the places in S.                                      *)
IsHeapBut(S) ==
  \A i \in 2..Len(found) : i \notin S => Distance(found[i]) <= Distance(found[i \div 2])

\* What is under the hole fits under what is over it.
Bridged ==
  \A i \in 2..Len(found) :
    i \div 2 = hole /\ hole > 1 => Distance(found[i]) <= Distance(found[hole \div 2])

HeapInv ==
  /\ pc = "search" /\ call = "nearest" => IsHeapBut({})
  /\ pc \in {"up", "down"} => hole \in 1..Len(found) /\ Bridged
  /\ pc = "up" => IsHeapBut({hole})
  /\ pc = "down" => IsHeapBut({i \in 2..Len(found) : i \div 2 = hole})

SearchInv == CallInv /\ StackInv /\ FoundInv /\ LeftInv /\ HeapInv

LEMMA NodeFacts ==
  ASSUME TreeInv, query \in Queries, NEW n \in DOMAIN tree
  PROVE  /\ n \in Seq(Sides) /\ tree[n] \in Points
         /\ Distance(n) \in Nat
         /\ AlongLat(tree[n]) \in Int /\ AlongLng(tree[n]) \in Int /\ PlaneDist(n) \in Int
<1>1. n \in Seq(Sides) /\ tree[n] \in Points
  BY DEF TreeInv, IsTree
<1>2. tree[n].lat \in Int /\ tree[n].lng \in Int /\ query.lat \in Int /\ query.lng \in Int
  BY <1>1, PointFacts
<1>3. LatDegree \in Int /\ LngDegree[query.lat] \in Int /\ Distance(n) \in Nat
  BY <1>1, PlacesAssumption DEF Distance
<1>4. AlongLat(tree[n]) \in Int /\ AlongLng(tree[n]) \in Int
  BY <1>2, <1>3 DEF AlongLat, AlongLng, Abs
<1> QED BY <1>1, <1>3, <1>4 DEF PlaneDist

\* What a dividing line stands for: everything beyond it is as far in the
\* code's reckoning, or the line is no distance away.
LEMMA Products ==
  ASSUME NEW a \in Nat, NEW b \in Nat, a <= b, NEW c \in Int
  PROVE  a * c <= 0 \/ b * c >= a * c
<1>1. CASE c >= 0
  <2>1. PICK d \in Nat : b = a + d
    <3>1. b - a \in Nat /\ b = a + (b - a)
      OBVIOUS
    <3> QED BY <3>1
  <2>2. b * c = a * c + d * c
    BY <2>1
  <2>3. d * c >= 0 /\ d * c \in Int /\ a * c \in Int
    BY <1>1
  <2> QED BY <2>2, <2>3
<1>2. CASE c < 0
  BY <1>2
<1> QED BY <1>1, <1>2

LEMMA BeyondLine ==
  ASSUME TreeInv, query \in Queries, NEW n \in DOMAIN tree, NEW m \in DOMAIN tree,
         Under(Append(n, Opposite(Side(query, n))), m)
  PROVE  PlaneDist(n) <= 0 \/ Reckoned(tree[m], PlaneDist(n))
<1> DEFINE s == Opposite(Side(query, n))
           at == Coordinate(tree[n], Len(n))
           beyond == Coordinate(tree[m], Len(n))
           here == Coordinate(query, Len(n))
           c == IF axis(Len(n)) = 0 THEN LatDegree ELSE LngDegree[query.lat]
           along == IF axis(Len(n)) = 0 THEN AlongLat(tree[m]) ELSE AlongLng(tree[m])
<1>1. /\ n \in Seq(Sides) /\ m \in Seq(Sides) /\ tree[n] \in Points /\ tree[m] \in Points
      /\ AlongLat(tree[m]) \in Int /\ AlongLng(tree[m]) \in Int /\ PlaneDist(n) \in Int
  BY NodeFacts
<1>2. at \in Int /\ beyond \in Int /\ here \in Int
  BY <1>1, PointFacts
<1>3. c \in Int
  BY PlacesAssumption
<1>4. Under(n, m) /\ Len(n) < Len(m) /\ m[Len(n) + 1] = s
  BY <1>1, SidesDiffer, UnderChild
<1>5. IF s = "left" THEN beyond <= at ELSE beyond >= at
  <2> HIDE DEF s
  <2>1. DOMAIN tree \subseteq Seq(Sides) /\ IsSplit(tree)
    BY DEF TreeInv, IsTree
  <2> QED BY <1>4, <2>1, SplitMeans
<1>6. s = "left" <=> ~(here < at)
  BY DEF Opposite, Side, IsLeft
<1>7. PlaneDist(n) = Abs(here - at) * c /\ along = Abs(here - beyond) * c
  BY DEF PlaneDist, AlongLat, AlongLng, Coordinate
<1> HIDE DEF s, at, beyond, here, c, along
<1>8. Abs(here - at) \in Nat /\ Abs(here - beyond) \in Nat /\ Abs(here - at) <= Abs(here - beyond)
  BY <1>2, <1>5, <1>6 DEF Abs
<1>9. PlaneDist(n) <= 0 \/ along >= PlaneDist(n)
  BY <1>3, <1>7, <1>8, Products
<1> QED BY <1>9 DEF Reckoned, along

-----------------------------------------------------------------------------
\* The stack with one more call in front, if there is a node to call.
LEMMA PutCall ==
  ASSUME TreeInv, NEW s \in Seq(Calls), Separate(s), Planned(s),
         NEW a, NEW plane \in Int,
         \A c \in Waiting(s) : ~Under(a, c) /\ ~Under(c, a),
         plane # Always => \E n \in DOMAIN tree : FarSideOf([node |-> a, plane |-> plane], n)
  PROVE  LET t == CallTo(a, plane) \o s
         IN  /\ t \in Seq(Calls) /\ Separate(t) /\ Planned(t)
             /\ Waiting(t) = Waiting(s) \cup ({a} \cap DOMAIN tree)
<1> DEFINE t == CallTo(a, plane) \o s
           c == [node |-> a, plane |-> plane]
<1>1. CASE a \notin DOMAIN tree
  <2>1. t = s
    BY <1>1 DEF CallTo
  <2> HIDE DEF t
  <2>2. Waiting(t) = Waiting(s) \cup ({a} \cap DOMAIN tree)
    BY <1>1, <2>1
  <2>3. t \in Seq(Calls) /\ Separate(t) /\ Planned(t)
    BY <2>1
  <2> QED BY <2>2, <2>3 DEF t
<1>2. CASE a \in DOMAIN tree
  <2>1. c \in Calls /\ c.node = a /\ c.plane = plane
    BY <1>2 DEF Calls
  <2>2. t = <<c>> \o s
    BY <1>2 DEF CallTo
  <2> HIDE DEF t, c
  <2>3. /\ t \in Seq(Calls) /\ Len(s) \in Nat /\ Len(t) = Len(s) + 1
        /\ t[1] = c /\ \A i \in 1..Len(s) : t[i + 1] = s[i]
    BY <2>1, <2>2
  <2>4. ASSUME NEW i \in 1..Len(t)
        PROVE  i = 1 \/ (i - 1 \in 1..Len(s) /\ t[i] = s[i - 1])
    <3>1. i = 1 \/ i - 1 \in 1..Len(s)
      BY <2>3
    <3>2. i - 1 + 1 = i
      OBVIOUS
    <3> QED BY <2>3, <3>1, <3>2
  <2>5. 1 \in 1..Len(t) /\ \A i \in 1..Len(s) : i + 1 \in 1..Len(t)
    BY <2>3
  <2>6. Waiting(t) = Waiting(s) \cup {a}
    <3>1. ASSUME NEW i \in 1..Len(t) PROVE t[i].node \in Waiting(s) \cup {a}
      BY <2>1, <2>3, <2>4 DEF Waiting
    <3>2. ASSUME NEW i \in 1..Len(s) PROVE s[i].node \in Waiting(t)
      <4>1. i + 1 \in 1..Len(t) /\ t[i + 1] = s[i]
        BY <2>3, <2>5
      <4> QED BY <4>1 DEF Waiting
    <3>3. a \in Waiting(t)
      BY <2>1, <2>3, <2>5 DEF Waiting
    <3>4. \A x \in Waiting(t) : x \in Waiting(s) \cup {a}
      BY <3>1 DEF Waiting
    <3>5. \A x \in Waiting(s) : x \in Waiting(t)
      BY <3>2 DEF Waiting
    <3> QED BY <3>3, <3>4, <3>5
  <2>7. Separate(t)
    <3> SUFFICES ASSUME NEW i \in 1..Len(t), NEW j \in 1..Len(t), i # j
                 PROVE  ~Under(t[i].node, t[j].node)
      BY DEF Separate
    <3>1. CASE i = 1
      <4>1. j - 1 \in 1..Len(s) /\ t[j] = s[j - 1]
        BY <2>4, <3>1
      <4>2. s[j - 1].node \in Waiting(s)
        BY <4>1 DEF Waiting
      <4> QED BY <2>1, <2>3, <3>1, <4>1, <4>2
    <3>2. CASE i # 1 /\ j = 1
      <4>1. i - 1 \in 1..Len(s) /\ t[i] = s[i - 1]
        BY <2>4, <3>2
      <4>2. s[i - 1].node \in Waiting(s)
        BY <4>1 DEF Waiting
      <4> QED BY <2>1, <2>3, <3>2, <4>1, <4>2
    <3>3. CASE i # 1 /\ j # 1
      <4>1. i - 1 \in 1..Len(s) /\ t[i] = s[i - 1] /\ j - 1 \in 1..Len(s) /\ t[j] = s[j - 1]
        BY <2>4, <3>3
      <4>2. i - 1 # j - 1
        OBVIOUS
      <4> QED BY <4>1, <4>2 DEF Separate
    <3> QED BY <3>1, <3>2, <3>3
  <2>8. Planned(t)
    <3> SUFFICES ASSUME NEW i \in 1..Len(t), t[i].plane # Always
                 PROVE  \E n \in DOMAIN tree : FarSideOf(t[i], n)
      BY DEF Planned
    <3>1. CASE i = 1
      BY <2>1, <2>3, <3>1 DEF c
    <3>2. CASE i # 1
      BY <2>4, <3>2 DEF Planned
    <3> QED BY <3>1, <3>2
  <2>9. {a} \cap DOMAIN tree = {a}
    BY <1>2
  <2> QED BY <2>3, <2>6, <2>7, <2>8, <2>9 DEF t
<1> QED BY <1>1, <1>2

\* The stack without its first call.
LEMMA TakeCall ==
  ASSUME TreeInv, StackInv, stack # <<>>
  PROVE  /\ Head(stack) \in Calls /\ Tail(stack) \in Seq(Calls)
         /\ Separate(Tail(stack)) /\ Planned(Tail(stack))
         /\ Waiting(stack) = Waiting(Tail(stack)) \cup {Head(stack).node}
         /\ \A c \in Waiting(Tail(stack)) :
              ~Under(Head(stack).node, c) /\ ~Under(c, Head(stack).node)
         /\ Head(stack).plane # Always => \E n \in DOMAIN tree : FarSideOf(Head(stack), n)
<1> DEFINE h == Head(stack)
           s == Tail(stack)
<1>1. /\ stack \in Seq(Calls) /\ Len(stack) \in Nat /\ 1 \in 1..Len(stack)
      /\ h = stack[1] /\ h \in Calls /\ s \in Seq(Calls) /\ Len(s) = Len(stack) - 1
      /\ \A i \in 1..Len(s) : s[i] = stack[i + 1]
  BY DEF StackInv
<1> HIDE DEF h, s
<1>2. Len(s) \in Nat /\ \A i \in 1..Len(s) : i \in Int /\ i + 1 \in 1..Len(stack) /\ i + 1 # 1
  BY <1>1
<1>3. Separate(s)
  <2> SUFFICES ASSUME NEW i \in 1..Len(s), NEW j \in 1..Len(s), i # j
               PROVE  ~Under(s[i].node, s[j].node)
    BY DEF Separate
  <2>1. i + 1 # j + 1 /\ i + 1 \in 1..Len(stack) /\ j + 1 \in 1..Len(stack)
    BY <1>2
  <2> QED BY <1>1, <2>1 DEF StackInv, Separate
<1>4. Planned(s)
  BY <1>1, <1>2 DEF StackInv, Planned
<1>5. Waiting(stack) = Waiting(s) \cup {h.node}
  <2>1. ASSUME NEW i \in 1..Len(stack) PROVE stack[i].node \in Waiting(s) \cup {h.node}
    <3>1. CASE i = 1
      BY <1>1, <3>1
    <3>2. CASE i # 1
      <4>1. i - 1 \in 1..Len(s) /\ i - 1 + 1 = i
        BY <1>1, <3>2
      <4>2. s[i - 1] = stack[i]
        BY <1>1, <4>1
      <4> QED BY <4>1, <4>2 DEF Waiting
    <3> QED BY <3>1, <3>2
  <2>2. \A x \in Waiting(stack) : x \in Waiting(s) \cup {h.node}
    BY <2>1 DEF Waiting
  <2>3. \A x \in Waiting(s) : x \in Waiting(stack)
    BY <1>1, <1>2 DEF Waiting
  <2>4. h.node \in Waiting(stack)
    BY <1>1 DEF Waiting
  <2> QED BY <2>2, <2>3, <2>4
<1>6. \A c \in Waiting(s) : ~Under(h.node, c) /\ ~Under(c, h.node)
  <2> SUFFICES ASSUME NEW i \in 1..Len(s)
               PROVE  ~Under(h.node, s[i].node) /\ ~Under(s[i].node, h.node)
    BY DEF Waiting
  <2>1. i + 1 \in 1..Len(stack) /\ i + 1 # 1 /\ s[i] = stack[i + 1]
    BY <1>1, <1>2
  <2> QED BY <1>1, <2>1 DEF StackInv, Separate
<1>7. h.plane # Always => \E n \in DOMAIN tree : FarSideOf(h, n)
  BY <1>1 DEF StackInv, Planned
<1> QED BY <1>1, <1>3, <1>4, <1>5, <1>6, <1>7 DEF h, s

-----------------------------------------------------------------------------
(* The steps one by one: first what the search of one call does to what is *)
(* still to be called.                                                     *)
LEMMA SameStack ==
  ASSUME tree' = tree, query' = query,
         NEW s \in Seq(Calls), Separate(s), Planned(s), stack' = s
  PROVE  StackInv'
<1>1. stack' \in Seq(Calls') /\ Separate(stack)'
  BY DEF Calls, Separate
<1>2. ASSUME NEW c, NEW n, FarSideOf(c, n) PROVE FarSideOf(c, n)'
  BY <1>2 DEF FarSideOf, Side, IsLeft, PlaneDist, AlongLat, AlongLng
<1>3. Planned(stack)'
  <2> SUFFICES ASSUME NEW i \in 1..Len(s), s[i].plane # Always
               PROVE  \E n \in DOMAIN tree : FarSideOf(s[i], n)'
    BY DEF Planned
  <2>1. PICK n \in DOMAIN tree : FarSideOf(s[i], n)
    BY DEF Planned
  <2> QED BY <1>2, <2>1
<1> QED BY <1>1, <1>3 DEF StackInv

LEMMA SameReckoning ==
  ASSUME tree' = tree, UNCHANGED request
  PROVE  /\ query' = query /\ call' = call /\ bound' = bound
         /\ \A m : Distance(m)' = Distance(m)
         /\ \A m : ReckonedBeyond(tree[m], bound)' <=> ReckonedBeyond(tree[m], bound)
         /\ \A m, d : Reckoned(tree[m], d)' <=> Reckoned(tree[m], d)
BY DEF request, Distance, Reckoned, ReckonedBeyond, AlongLat, AlongLng

LEMMA CallToType ==
  ASSUME NEW a, NEW plane \in Int
  PROVE  CallTo(a, plane) \in Seq(Calls)
<1> DEFINE c == [node |-> a, plane |-> plane]
<1>1. CASE a \in DOMAIN tree
  <2>1. c \in Calls /\ CallTo(a, plane) = <<c>>
    BY <1>1 DEF Calls, CallTo
  <2> HIDE DEF c
  <2> QED BY <2>1
<1>2. CASE a \notin DOMAIN tree
  BY <1>2 DEF CallTo
<1> QED BY <1>1, <1>2

LEMMA VisitCalls ==
  ASSUME TreeInv, StackInv, query \in Queries, NEW n, Visits(n)
  PROVE  /\ n \in DOMAIN tree /\ n \in Waiting(stack) /\ StackInv'
         /\ \A c \in Waiting(stack') :
              ~Under(c, n) /\ \E w \in Waiting(stack) : Under(w, c)
         /\ \A m \in DOMAIN tree :
              (\E w \in Waiting(stack) : Under(w, m)) =>
                m = n \/ \E c \in Waiting(stack') : Under(c, m)
<1> DEFINE near == Side(query, n)
           a == Append(n, near)
           b == Append(n, Opposite(near))
           far == CallTo(b, PlaneDist(n))
           s == Tail(stack)
           t == far \o s
           u == CallTo(a, Always) \o t
<1>0. /\ stack # <<>> /\ n = Head(stack).node /\ tree' = tree /\ query' = query
      /\ stack' = (CallTo(a, Always) \o far) \o s
  BY DEF Visits, CallsBelow, contents, request
<1>1. /\ Head(stack) \in Calls /\ s \in Seq(Calls) /\ Separate(s) /\ Planned(s)
      /\ Waiting(stack) = Waiting(s) \cup {n}
      /\ \A c \in Waiting(s) : ~Under(n, c) /\ ~Under(c, n)
  BY <1>0, TakeCall
<1>2. n \in DOMAIN tree /\ n \in Seq(Sides) /\ PlaneDist(n) \in Int
  BY <1>0, <1>1, NodeFacts DEF Calls
<1>3. near \in Sides /\ Opposite(near) \in Sides /\ Opposite(near) # near
  BY SidesDiffer
<1>4. \A c \in Waiting(s) : c \in DOMAIN tree /\ c \in Seq(Sides)
  <2> HIDE DEF s
  <2>1. \A i \in 1..Len(s) : s[i] \in Calls
    BY <1>1
  <2>2. \A i \in 1..Len(s) : s[i].node \in DOMAIN tree
    BY <2>1 DEF Calls
  <2>3. DOMAIN tree \subseteq Seq(Sides)
    BY DEF TreeInv, IsTree
  <2> QED BY <2>2, <2>3 DEF Waiting
<1>5. /\ a \in Seq(Sides) /\ b \in Seq(Sides) /\ Len(n) \in Nat
      /\ Len(a) = Len(n) + 1 /\ Len(b) = Len(n) + 1
      /\ a[Len(n) + 1] = near /\ b[Len(n) + 1] = Opposite(near)
      /\ Under(n, a) /\ Under(n, b) /\ ~Under(a, n) /\ ~Under(b, n)
  <2> HIDE DEF near
  <2>1. /\ a \in Seq(Sides) /\ b \in Seq(Sides) /\ Len(n) \in Nat
        /\ Len(a) = Len(n) + 1 /\ Len(b) = Len(n) + 1
        /\ a[Len(n) + 1] = near /\ b[Len(n) + 1] = Opposite(near)
        /\ Under(n, a) /\ Under(n, b)
    BY <1>2, <1>3, UnderChild
  <2> HIDE DEF a, b
  <2>2. ~(Len(a) <= Len(n)) /\ ~(Len(b) <= Len(n))
    BY <2>1
  <2> QED BY <2>1, <2>2 DEF Under
\* A node beside n is beside what is under n.
<1>6. ASSUME NEW c \in Waiting(s), NEW x \in {a, b} PROVE ~Under(x, c) /\ ~Under(c, x)
  <2> HIDE DEF a, b, s
  <2>1. c \in Seq(Sides) /\ x \in Seq(Sides) /\ Under(n, x) /\ ~Under(n, c) /\ ~Under(c, n)
    BY <1>1, <1>4, <1>5
  <2>2. ~Under(x, c)
    BY <1>2, <2>1, UnderTransitive
  <2>3. ~Under(c, x)
    BY <1>2, <2>1, UnderLinear
  <2> QED BY <2>2, <2>3
<1>7. ~Under(a, b) /\ ~Under(b, a)
  <2>1. a # b
    BY <1>3, <1>5
  <2> HIDE DEF a, b
  <2> QED BY <1>5, <2>1, UnderIsPrefix
<1>8. t \in Seq(Calls) /\ Separate(t) /\ Planned(t) /\ Waiting(t) = Waiting(s) \cup ({b} \cap DOMAIN tree)
  <2>1. \E k \in DOMAIN tree : FarSideOf([node |-> b, plane |-> PlaneDist(n)], k)
    BY <1>2 DEF FarSideOf
  <2> HIDE DEF b, s
  <2> QED BY <1>1, <1>2, <1>6, <2>1, PutCall
<1>9. u \in Seq(Calls) /\ Separate(u) /\ Planned(u) /\ Waiting(u) = Waiting(t) \cup ({a} \cap DOMAIN tree)
  <2> HIDE DEF a, b, t, s
  <2>1. Always \in Int
    BY DEF Always
  <2>2. \A c \in Waiting(t) : ~Under(a, c) /\ ~Under(c, a)
    BY <1>6, <1>7, <1>8
  <2> QED BY <1>8, <2>1, <2>2, PutCall
<1>10. stack' = u
  <2>1. far \in Seq(Calls) /\ CallTo(a, Always) \in Seq(Calls)
    <3> HIDE DEF a, b
    <3>1. Always \in Int
      BY DEF Always
    <3> QED BY <1>2, <3>1, CallToType
  <2> HIDE DEF a, b, far, s
  <2> QED BY <1>0, <1>1, <2>1
<1> HIDE DEF u, t, s, a, b
<1>11. StackInv'
  BY <1>0, <1>9, <1>10, SameStack
<1>12. ASSUME NEW c \in Waiting(stack')
       PROVE  ~Under(c, n) /\ \E w \in Waiting(stack) : Under(w, c)
  <2>1. c \in Waiting(s) \/ c = a \/ c = b
    BY <1>8, <1>9, <1>10
  <2>2. Under(c, c)
    BY <1>4, <1>5, <2>1, UnderIsPrefix
  <2> QED BY <1>1, <1>5, <2>1, <2>2
<1>13. ASSUME NEW m \in DOMAIN tree, NEW w \in Waiting(stack), Under(w, m), m # n
       PROVE  \E c \in Waiting(stack') : Under(c, m)
  <2>0. m \in Seq(Sides)
    BY DEF TreeInv, IsTree
  <2>1. CASE w \in Waiting(s)
    BY <1>8, <1>9, <1>10, <1>13, <2>1
  <2>2. CASE w = n
    <3>1. Len(n) < Len(m)
      <4>1. ~(Len(m) <= Len(n))
        BY <1>2, <1>13, <2>0, <2>2, UnderIsPrefix
      <4> QED BY <1>2, <2>0, <4>1
    <3>2. m[Len(n) + 1] \in Sides
      BY <1>5, <2>0, <3>1
    <3>3. m[Len(n) + 1] = near \/ m[Len(n) + 1] = Opposite(near)
      BY <1>3, <3>2 DEF Sides
    <3>4. CASE m[Len(n) + 1] = near
      <4>1. Under(a, m)
        BY <1>2, <1>3, <1>13, <2>0, <2>2, <3>1, <3>4, UnderChild DEF a
      <4>2. a \in DOMAIN tree
        BY <1>5, <4>1, NodesAbove DEF TreeInv
      <4> QED BY <1>9, <1>10, <4>1, <4>2
    <3>5. CASE m[Len(n) + 1] = Opposite(near)
      <4>1. Under(b, m)
        BY <1>2, <1>3, <1>13, <2>0, <2>2, <3>1, <3>5, UnderChild DEF b
      <4>2. b \in DOMAIN tree
        BY <1>5, <4>1, NodesAbove DEF TreeInv
      <4> QED BY <1>8, <1>9, <1>10, <4>1, <4>2
    <3> QED BY <3>3, <3>4, <3>5
  <2> QED BY <1>1, <2>1, <2>2
<1> QED BY <1>1, <1>2, <1>11, <1>12, <1>13

-----------------------------------------------------------------------------
(* The results change by one more, by one in another's place, or in order. *)
Distinct ==
  /\ found \in Seq(DOMAIN tree)
  /\ \A i, j \in 1..Len(found) : found[i] = found[j] => i = j

LEMMA OneMoreFound ==
  ASSUME Distinct, tree' = tree, NEW n \in DOMAIN tree, n \notin Held, found' = Append(found, n)
  PROVE  Distinct' /\ Held' = Held \cup {n} /\ Len(found') = Len(found) + 1
<1>1. /\ found' \in Seq(DOMAIN tree') /\ Len(found) \in Nat /\ Len(found') = Len(found) + 1
      /\ found'[Len(found) + 1] = n
      /\ \A i \in 1..Len(found) : found'[i] = found[i]
  BY DEF Distinct
<1>2. \A i \in 1..Len(found') : i \in 1..Len(found) \/ i = Len(found) + 1
  BY <1>1
<1>3. \A i \in 1..Len(found) : i \in 1..Len(found') /\ found[i] \in Held
  BY <1>1 DEF Held
<1>4. Len(found) + 1 \in 1..Len(found')
  BY <1>1
<1>5. Distinct'
  <2> SUFFICES ASSUME NEW i \in 1..Len(found'), NEW j \in 1..Len(found'), found'[i] = found'[j]
               PROVE  i = j
    BY <1>1 DEF Distinct
  <2> QED BY <1>1, <1>2, <1>3 DEF Distinct
<1>6. \A x \in Held' : x \in Held \cup {n}
  BY <1>1, <1>2, <1>3 DEF Held
<1>7. \A x \in Held \cup {n} : x \in Held'
  BY <1>1, <1>3, <1>4 DEF Held
<1> QED BY <1>1, <1>5, <1>6, <1>7

LEMMA OneOtherFound ==
  ASSUME Distinct, tree' = tree, Len(found) > 0,
         NEW n \in DOMAIN tree, n \notin Held, found' = [found EXCEPT ![1] = n]
  PROVE  /\ Distinct' /\ Held' = (Held \ {found[1]}) \cup {n} /\ Len(found') = Len(found)
         /\ 1 \in 1..Len(found) /\ \A i \in 1..Len(found) : found'[i] = IF i = 1 THEN n ELSE found[i]
<1>1. /\ found' \in Seq(DOMAIN tree') /\ Len(found) \in Nat /\ Len(found') = Len(found)
      /\ 1 \in 1..Len(found)
      /\ \A i \in 1..Len(found) : found'[i] = IF i = 1 THEN n ELSE found[i]
  BY DEF Distinct
<1>2. \A i \in 1..Len(found) : found[i] \in Held
  BY DEF Held
<1>3. Distinct'
  <2> SUFFICES ASSUME NEW i \in 1..Len(found), NEW j \in 1..Len(found), found'[i] = found'[j]
               PROVE  i = j
    BY <1>1 DEF Distinct
  <2> QED BY <1>1, <1>2 DEF Distinct
<1>4. \A i \in 1..Len(found) : i # 1 => found[i] # found[1]
  BY <1>1 DEF Distinct
<1>5. \A x \in Held' : x \in (Held \ {found[1]}) \cup {n}
  BY <1>1, <1>2, <1>4 DEF Held
<1>6. \A x \in (Held \ {found[1]}) \cup {n} : x \in Held'
  BY <1>1 DEF Held
<1> QED BY <1>1, <1>3, <1>5, <1>6

LEMMA FoundInOrder ==
  ASSUME Distinct, tree' = tree,
         NEW p \in [1..Len(found) -> 1..Len(found)],
         \A i, j \in 1..Len(found) : p[i] = p[j] => i = j,
         \A i \in 1..Len(found) : \E j \in 1..Len(found) : p[j] = i,
         found' = [i \in 1..Len(found) |-> found[p[i]]]
  PROVE  Distinct' /\ Held' = Held /\ Len(found') = Len(found)
<1>1. Len(found) \in Nat /\ \A i \in 1..Len(found) : found[i] \in DOMAIN tree
  BY DEF Distinct
<1>0. \A i \in 1..Len(found) : p[i] \in 1..Len(found) /\ found[p[i]] \in DOMAIN tree
  BY <1>1
<1>2. found' \in Seq(DOMAIN tree') /\ Len(found') = Len(found)
  BY <1>0, <1>1
<1>3. \A i \in 1..Len(found) : found'[i] = found[p[i]]
  OBVIOUS
<1>4. Distinct'
  <2> SUFFICES ASSUME NEW i \in 1..Len(found), NEW j \in 1..Len(found), found'[i] = found'[j]
               PROVE  i = j
    BY <1>2 DEF Distinct
  <2>1. p[i] = p[j]
    BY <1>0, <1>3 DEF Distinct
  <2> QED BY <2>1
<1>5. \A x \in Held' : x \in Held
  <2> SUFFICES ASSUME NEW x \in Held' PROVE x \in Held
    OBVIOUS
  <2>1. PICK i \in 1..Len(found') : x = found'[i]
    BY DEF Held
  <2>2. i \in 1..Len(found)
    BY <1>2
  <2> QED BY <1>0, <1>3, <2>1, <2>2 DEF Held
<1>6. \A x \in Held : x \in Held'
  <2> SUFFICES ASSUME NEW x \in Held PROVE x \in Held'
    OBVIOUS
  <2>1. PICK i \in 1..Len(found) : x = found[i]
    BY DEF Held
  <2>2. PICK j \in 1..Len(found) : p[j] = i
    OBVIOUS
  <2>3. found'[j] = x /\ j \in 1..Len(found')
    BY <1>2, <1>3, <2>1, <2>2
  <2> QED BY <2>3 DEF Held
<1> QED BY <1>2, <1>4, <1>5, <1>6

\* Nobody in the heap is farther than its root.
LEMMA RootIsFarthest ==
  ASSUME TreeInv, query \in Queries, found \in Seq(DOMAIN tree), IsHeapBut({})
  PROVE  \A n \in Held : Distance(n) <= Distance(found[1])
<1> DEFINE Bad == {i \in 1..Len(found) : ~(Distance(found[i]) <= Distance(found[1]))}
<1> SUFFICES ASSUME Bad # {} PROVE FALSE
  BY DEF Held
<1>0. Len(found) \in Nat /\ \A i \in 1..Len(found) : Distance(found[i]) \in Nat
  <2>1. Len(found) \in Nat /\ \A i \in 1..Len(found) : found[i] \in DOMAIN tree
    OBVIOUS
  <2> QED BY <2>1, NodeFacts
<1>1. PICK i \in Bad : \A j \in Bad : i <= j
  <2>1. Bad \in SUBSET Nat
    OBVIOUS
  <2> HIDE DEF Bad
  <2> QED BY <2>1, LeastExists
<1>2. i \in 1..Len(found) /\ 1 \in 1..Len(found)
  BY <1>0, <1>1
<1>3. i # 1
  BY <1>0, <1>1, <1>2
<1>4. i \in 2..Len(found) /\ i \div 2 \in 1..Len(found) /\ i \div 2 < i
  BY <1>0, <1>2, <1>3
<1>5. i \div 2 \notin Bad
  BY <1>1, <1>4
<1>6. Distance(found[i]) <= Distance(found[i \div 2])
  BY <1>4 DEF IsHeapBut
<1>7. Distance(found[i \div 2]) <= Distance(found[1])
  BY <1>4, <1>5
<1>8. Distance(found[i]) <= Distance(found[1])
  <2> HIDE DEF Bad
  <2>1. Distance(found[i]) \in Nat /\ Distance(found[i \div 2]) \in Nat /\ Distance(found[1]) \in Nat
    BY <1>0, <1>2, <1>4
  <2> QED BY <1>6, <1>7, <2>1
<1> QED BY <1>1, <1>8

-----------------------------------------------------------------------------
LEMMA InitSearch == Init => SearchInv
<1> SUFFICES ASSUME Init PROVE SearchInv
  OBVIOUS
<1>1. stack = <<>> /\ found = <<>> /\ call = "none" /\ pc = "idle"
  BY DEF Init
<1>2. Waiting(stack) = {} /\ Held = {}
  BY <1>1 DEF Waiting, Held
<1> QED BY <1>1, <1>2 DEF SearchInv, CallInv, StackInv, Separate, Planned, FoundInv, LeftInv, HeapInv

\* Without a call there is nothing to keep: the tree may change.
LEMMA IdleKeeps ==
  ASSUME CallInv, pc \in {"idle", "build"}, pc' \in {"idle", "build"},
         UNCHANGED <<request, stack, found, hole>>
  PROVE  SearchInv'
<1>1. stack' = <<>> /\ found' = <<>> /\ call' = "none"
  BY DEF CallInv, request
<1>2. Waiting(stack') = {} /\ Held' = {}
  BY <1>1 DEF Waiting, Held
<1> QED BY <1>1, <1>2 DEF SearchInv, CallInv, StackInv, Separate, Planned, FoundInv, LeftInv, HeapInv

LEMMA ReturnKeeps ==
  ASSUME Return
  PROVE  SearchInv'
<1>1. stack' = <<>> /\ found' = <<>> /\ call' = "none" /\ pc' = "idle"
  BY DEF Return
<1>2. Waiting(stack') = {} /\ Held' = {}
  BY <1>1 DEF Waiting, Held
<1> QED BY <1>1, <1>2 DEF SearchInv, CallInv, StackInv, Separate, Planned, FoundInv, LeftInv, HeapInv

\* A search starts at the root, which every node is under.
LEMMA StartKeeps ==
  ASSUME TreeInv, CallInv, pc = "idle", UNCHANGED <<contents, found, hole>>,
         query' \in Queries, call' \in {"nearby", "nearest"}, bound' \in Int,
         \/ pc' = "search" /\ stack' = CallTo(<<>>, Always) /\ (call' = "nearest" => bound' > 0)
         \/ pc' = "done" /\ stack' = <<>> /\ call' = "nearest" /\ bound' <= 0
  PROVE  SearchInv'
<1>1. found' = <<>> /\ Held' = {} /\ Len(found') = 0 /\ tree' = tree
  BY DEF CallInv, Held, contents
<1>2. CallInv'
  BY <1>1 DEF CallInv
<1>3. Always \in Int /\ <<>> \in Seq(Sides)
  BY DEF Always
<1>4. /\ stack' \in Seq(Calls)
      /\ \/ stack' = <<>>
         \/ stack' = <<[node |-> <<>>, plane |-> Always]>>
  <2>1. CallTo(<<>>, Always) \in Seq(Calls) /\ <<>> \in Seq(Calls)
    BY <1>3, CallToType
  <2>2. stack' = CallTo(<<>>, Always) \/ stack' = <<>>
    OBVIOUS
  <2>3. CallTo(<<>>, Always) = <<[node |-> <<>>, plane |-> Always]>> \/ CallTo(<<>>, Always) = <<>>
    BY DEF CallTo
  <2> QED BY <2>1, <2>2, <2>3
<1>5. StackInv'
  <2>1. stack' \in Seq(Calls')
    BY <1>1, <1>4 DEF Calls
  <2>2. Separate(stack') /\ \A i \in 1..Len(stack') : stack'[i].plane = Always
    BY <1>4 DEF Separate
  <2> QED BY <2>1, <2>2 DEF StackInv, Planned, Separate
<1>6. FoundInv'
  BY <1>1, <1>2 DEF FoundInv, CallInv
<1>7. LeftInv'
  <2> SUFFICES ASSUME pc' = "search", stack' = CallTo(<<>>, Always), NEW m \in DOMAIN tree
               PROVE  \E c \in Waiting(stack') : Under(c, m)
    BY <1>1 DEF LeftInv
  <2>1. Under(<<>>, m) /\ m \in Seq(Sides)
    BY DEF Under, TreeInv, IsTree
  <2>2. <<>> \in DOMAIN tree
    BY <1>3, <2>1, NodesAbove DEF TreeInv
  <2>3. stack' = <<[node |-> <<>>, plane |-> Always]>>
    BY <2>2 DEF CallTo
  <2>4. <<>> \in Waiting(stack')
    <3>1. Len(stack') = 1 /\ stack'[1].node = <<>>
      BY <2>3
    <3> QED BY <3>1 DEF Waiting
  <2> QED BY <2>1, <2>4
<1>8. HeapInv'
  BY <1>1 DEF HeapInv, IsHeapBut
<1> QED BY <1>2, <1>5, <1>6, <1>7, <1>8 DEF SearchInv

\* What holds whenever a call is visited or cut off.
LEMMA SearchFacts ==
  ASSUME TreeInv, SearchInv, pc \in {"search", "up", "down"}
  PROVE  /\ query \in Queries /\ call \in {"nearby", "nearest"} /\ bound \in Int
         /\ call = "nearest" => bound > 0 /\ bound >= Len(found)
         /\ Distinct /\ Len(found) \in Nat
         /\ \A n \in Held : n \in DOMAIN tree /\ n \in Seq(Sides)
         /\ \A m \in DOMAIN tree : Distance(m) \in Nat
         /\ \A m \in DOMAIN tree :
              m \in Held \/ (\E c \in Waiting(stack) : Under(c, m)) \/ Excused(m)
         /\ Len(found) > 0 => found[1] \in Held
         /\ pc = "search" /\ call = "nearest" => \A n \in Held : Distance(n) <= Distance(found[1])
<1>1. /\ query \in Queries /\ call \in {"nearby", "nearest"} /\ bound \in Int
      /\ call = "nearest" => bound > 0
  BY DEF SearchInv, CallInv
<1>2. /\ found \in Seq(DOMAIN tree)
      /\ \A i, j \in 1..Len(found) : found[i] = found[j] => i = j
      /\ call = "nearest" => Len(found) <= bound
  BY <1>1 DEF SearchInv, FoundInv
<1>3. Distinct /\ Len(found) \in Nat
  BY <1>2 DEF Distinct
<1>4. \A n \in Held : n \in DOMAIN tree /\ n \in Seq(Sides)
  <2>1. \A i \in 1..Len(found) : found[i] \in DOMAIN tree
    BY <1>2
  <2>2. DOMAIN tree \subseteq Seq(Sides)
    BY DEF TreeInv, IsTree
  <2> QED BY <2>1, <2>2 DEF Held
<1>5. \A m \in DOMAIN tree : Distance(m) \in Nat
  BY <1>1, NodeFacts
<1>6. \A m \in DOMAIN tree :
        m \in Held \/ (\E c \in Waiting(stack) : Under(c, m)) \/ Excused(m)
  <2>1. LeftInv
    BY DEF SearchInv
  <2> QED BY <1>1, <2>1 DEF LeftInv
<1>7. Len(found) > 0 => found[1] \in Held
  <2>1. Len(found) > 0 => 1 \in 1..Len(found)
    BY <1>3
  <2> QED BY <2>1 DEF Held
<1>8. pc = "search" /\ call = "nearest" => \A n \in Held : Distance(n) <= Distance(found[1])
  BY <1>1, <1>2, RootIsFarthest DEF SearchInv, HeapInv
<1> QED BY <1>1, <1>2, <1>3, <1>4, <1>5, <1>6, <1>7, <1>8

\* Nothing under the node of a call was found before the call.
LEMMA VisitedIsNew ==
  ASSUME TreeInv, SearchInv, NEW n, Visits(n)
  PROVE  /\ query \in Queries /\ StackInv /\ pc = "search"
         /\ n \in DOMAIN tree /\ n \notin Held /\ StackInv'
         /\ UNCHANGED <<contents, request>> /\ tree' = tree
         /\ \A c \in Waiting(stack'), m \in Held \cup {n} : ~Under(c, m)
         /\ \A m \in DOMAIN tree :
              (\E c \in Waiting(stack) : Under(c, m)) =>
                m = n \/ \E c \in Waiting(stack') : Under(c, m)
<1>1. pc = "search" /\ UNCHANGED <<contents, request>> /\ tree' = tree
  BY DEF Visits, contents
<1>2. query \in Queries /\ StackInv
  BY <1>1, SearchFacts DEF SearchInv
<1>3. /\ n \in DOMAIN tree /\ n \in Waiting(stack) /\ StackInv'
      /\ \A c \in Waiting(stack') :
           ~Under(c, n) /\ \E w \in Waiting(stack) : Under(w, c)
      /\ \A m \in DOMAIN tree :
           (\E w \in Waiting(stack) : Under(w, m)) =>
             m = n \/ \E c \in Waiting(stack') : Under(c, m)
  BY <1>2, VisitCalls
<1>4. n \notin Held
  <2>1. Under(n, n)
    BY <1>3, UnderIsPrefix DEF TreeInv, IsTree
  <2> QED BY <1>3, <2>1 DEF SearchInv, FoundInv
<1>5. ASSUME NEW c \in Waiting(stack'), NEW m \in Held PROVE ~Under(c, m)
  <2>1. PICK w \in Waiting(stack) : Under(w, c)
    BY <1>3
  <2>2. ~Under(w, m)
    BY DEF SearchInv, FoundInv
  <2>3. m \in Seq(Sides)
    BY <1>1, SearchFacts
  <2>4. \A x \in Waiting(stack) : x \in Seq(Sides)
    <3>1. \A i \in 1..Len(stack) : stack[i] \in Calls
      BY <1>2 DEF StackInv
    <3> QED BY <3>1 DEF Waiting, Calls, TreeInv, IsTree
  <2>5. c \in Seq(Sides)
    <3>1. stack' \in Seq(Calls')
      BY <1>3 DEF StackInv
    <3>2. \A i \in 1..Len(stack') : stack'[i] \in Calls'
      BY <3>1
    <3>3. \A i \in 1..Len(stack') : stack'[i].node \in DOMAIN tree
      BY <1>1, <3>2 DEF Calls
    <3> QED BY <3>3 DEF Waiting, TreeInv, IsTree
  <2> QED BY <2>1, <2>2, <2>3, <2>4, <2>5, UnderTransitive
<1> QED BY <1>1, <1>2, <1>3, <1>4, <1>5

\* The node of a visited call is found, or too far away.
LEMMA VisitInRangeKeeps ==
  ASSUME TreeInv, SearchInv, NEW n \in DOMAIN tree, VisitInRange(n)
  PROVE  SearchInv'
<1>1. call = "nearby" /\ Visits(n) /\ pc' = pc /\ hole' = hole
      /\ found' = IF Distance(n) <= bound THEN Append(found, n) ELSE found
  BY DEF VisitInRange
<1>2. /\ query \in Queries /\ pc = "search" /\ n \notin Held /\ StackInv'
      /\ UNCHANGED <<contents, request>> /\ tree' = tree
      /\ \A c \in Waiting(stack'), m \in Held \cup {n} : ~Under(c, m)
      /\ \A m \in DOMAIN tree :
           (\E c \in Waiting(stack) : Under(c, m)) =>
             m = n \/ \E c \in Waiting(stack') : Under(c, m)
  BY <1>1, VisitedIsNew
<1>3. /\ bound \in Int /\ Distinct
      /\ \A m \in DOMAIN tree : Distance(m) \in Nat
      /\ \A m \in DOMAIN tree :
           m \in Held \/ (\E c \in Waiting(stack) : Under(c, m)) \/ Excused(m)
  BY <1>2, SearchFacts
<1>4. /\ query' = query /\ call' = call /\ bound' = bound
      /\ \A m : Distance(m)' = Distance(m)
      /\ \A m : ReckonedBeyond(tree[m], bound)' <=> ReckonedBeyond(tree[m], bound)
  BY <1>2, SameReckoning
<1>5. CASE Distance(n) <= bound
  <2>1. found' = Append(found, n)
    BY <1>1, <1>5
  <2>2. Distinct' /\ Held' = Held \cup {n}
    BY <1>2, <1>3, <2>1, OneMoreFound
  <2>3. FoundInv'
    <3>1. \A m \in Held' : Distance(m)' <= bound'
      BY <1>1, <1>4, <1>5, <2>2 DEF SearchInv, FoundInv
    <3>2. \A c \in Waiting(stack)', m \in Held' : ~Under(c, m)
      BY <1>2, <2>2
    <3> QED BY <1>1, <1>4, <2>2, <3>1, <3>2 DEF FoundInv, Distinct
  <2>4. \A m \in DOMAIN tree : Excused(m) => Excused(m)'
    BY <1>1, <1>2, <1>4 DEF Excused
  <2>5. LeftInv'
    BY <1>2, <1>3, <2>2, <2>4 DEF LeftInv
  <2> QED BY <1>1, <1>2, <1>4, <2>3, <2>5 DEF SearchInv, CallInv, HeapInv
<1>6. CASE ~(Distance(n) <= bound)
  <2>1. found' = found /\ Held' = Held
    BY <1>1, <1>6 DEF Held
  <2>2. FoundInv'
    <3>1. \A m \in Held' : Distance(m)' <= bound'
      BY <1>1, <1>4, <2>1 DEF SearchInv, FoundInv
    <3>2. \A c \in Waiting(stack)', m \in Held' : ~Under(c, m)
      BY <1>2, <2>1
    <3> QED BY <1>1, <1>2, <1>3, <1>4, <2>1, <3>1, <3>2 DEF FoundInv, Distinct
  <2>3. \A m \in DOMAIN tree : Excused(m) => Excused(m)'
    BY <1>1, <1>2, <1>4 DEF Excused
  <2>4. Excused(n)'
    BY <1>1, <1>3, <1>4, <1>6 DEF Excused
  <2>5. LeftInv'
    BY <1>2, <1>3, <2>1, <2>3, <2>4 DEF LeftInv
  <2> QED BY <1>1, <1>2, <1>4, <2>2, <2>5 DEF SearchInv, CallInv, HeapInv
<1> QED BY <1>5, <1>6

LEMMA PushLastKeeps ==
  ASSUME TreeInv, SearchInv, NEW n \in DOMAIN tree, PushLast(n)
  PROVE  SearchInv'
<1>1. call = "nearest" /\ Visits(n) /\ Len(found) < bound /\ found' = Append(found, n)
      /\ hole' = Len(found) + 1 /\ pc' = "up"
  BY DEF PushLast
<1>2. /\ query \in Queries /\ pc = "search" /\ n \notin Held /\ StackInv'
      /\ UNCHANGED <<contents, request>> /\ tree' = tree
      /\ \A c \in Waiting(stack'), m \in Held \cup {n} : ~Under(c, m)
      /\ \A m \in DOMAIN tree :
           (\E c \in Waiting(stack) : Under(c, m)) =>
             m = n \/ \E c \in Waiting(stack') : Under(c, m)
  BY <1>1, VisitedIsNew
<1>3. /\ bound \in Int /\ bound > 0 /\ Distinct /\ Len(found) \in Nat
      /\ \A m \in DOMAIN tree :
           m \in Held \/ (\E c \in Waiting(stack) : Under(c, m)) \/ Excused(m)
  BY <1>1, <1>2, SearchFacts
<1>4. /\ query' = query /\ call' = call /\ bound' = bound
      /\ \A m : Distance(m)' = Distance(m)
  BY <1>2, SameReckoning
<1>5. Distinct' /\ Held' = Held \cup {n} /\ Len(found') = Len(found) + 1
  BY <1>1, <1>2, <1>3, OneMoreFound
<1>6. FoundInv'
  <2>1. \A c \in Waiting(stack)', m \in Held' : ~Under(c, m)
    BY <1>2, <1>5
  <2>2. Len(found') <= bound'
    BY <1>1, <1>3, <1>4, <1>5
  <2> QED BY <1>1, <1>4, <1>5, <2>1, <2>2 DEF FoundInv, Distinct
<1>7. \A m \in DOMAIN tree : ~Excused(m)
  BY <1>1, <1>3 DEF Excused
<1>8. LeftInv'
  BY <1>2, <1>3, <1>5, <1>7 DEF LeftInv
<1>9. HeapInv'
  <2>1. hole' \in 1..Len(found')
    BY <1>1, <1>3, <1>5
  <2>2. ASSUME NEW i \in 2..Len(found'), i \div 2 = hole' PROVE FALSE
    <3>1. i <= hole' /\ i \div 2 < i /\ i \in Int
      BY <1>1, <1>3, <1>5
    <3> QED BY <1>1, <1>3, <2>2, <3>1
  <2>3. Bridged'
    BY <2>2 DEF Bridged
  <2>4. ASSUME NEW i \in 2..Len(found'), i # hole'
        PROVE  Distance(found[i])' <= Distance(found[i \div 2])'
    <3>1. i \in 2..Len(found) /\ i \in 1..Len(found) /\ i \div 2 \in 1..Len(found)
      BY <1>1, <1>3, <1>5, <2>4
    <3>2. found'[i] = found[i] /\ found'[i \div 2] = found[i \div 2]
      BY <1>1, <1>3, <3>1 DEF Distinct
    <3>3. Distance(found[i]) <= Distance(found[i \div 2])
      BY <1>1, <1>2, <3>1 DEF SearchInv, HeapInv, IsHeapBut
    <3>4. /\ Distance(found[i])' = Distance(found[i])
          /\ Distance(found[i \div 2])' = Distance(found[i \div 2])
      BY <1>2, <1>4, <3>2 DEF Distance
    <3> QED BY <3>3, <3>4
  <2>5. IsHeapBut({hole})'
    BY <2>4 DEF IsHeapBut
  <2> QED BY <1>1, <2>1, <2>3, <2>5 DEF HeapInv
<1> QED BY <1>1, <1>2, <1>3, <1>4, <1>6, <1>8, <1>9 DEF SearchInv, CallInv

LEMMA PushOverRootKeeps ==
  ASSUME TreeInv, SearchInv, NEW n \in DOMAIN tree, PushOverRoot(n)
  PROVE  SearchInv'
<1> DEFINE root == found[1]
<1>1. /\ call = "nearest" /\ Visits(n) /\ Len(found) >= bound /\ Distance(n) < Distance(root)
      /\ found' = [found EXCEPT ![1] = n] /\ hole' = 1 /\ pc' = "down"
  BY DEF PushOverRoot
<1>2. /\ query \in Queries /\ pc = "search" /\ n \notin Held /\ StackInv'
      /\ UNCHANGED <<contents, request>> /\ tree' = tree
      /\ \A c \in Waiting(stack'), m \in Held \cup {n} : ~Under(c, m)
      /\ \A m \in DOMAIN tree :
           (\E c \in Waiting(stack) : Under(c, m)) =>
             m = n \/ \E c \in Waiting(stack') : Under(c, m)
  BY <1>1, VisitedIsNew
<1>3. /\ bound \in Int /\ bound > 0 /\ bound >= Len(found) /\ Distinct /\ Len(found) \in Nat
      /\ \A m \in Held : m \in DOMAIN tree
      /\ \A m \in DOMAIN tree : Distance(m) \in Nat
      /\ \A m \in DOMAIN tree :
           m \in Held \/ (\E c \in Waiting(stack) : Under(c, m)) \/ Excused(m)
      /\ Len(found) > 0 => root \in Held
      /\ \A m \in Held : Distance(m) <= Distance(root)
  BY <1>1, <1>2, SearchFacts
<1>4. /\ query' = query /\ call' = call /\ bound' = bound
      /\ \A m : Distance(m)' = Distance(m)
      /\ \A m, d : Reckoned(tree[m], d)' <=> Reckoned(tree[m], d)
  BY <1>2, SameReckoning
<1>5. Len(found) = bound /\ Len(found) > 0 /\ root \in Held
  BY <1>1, <1>3
<1>6. /\ Distinct' /\ Held' = (Held \ {root}) \cup {n} /\ Len(found') = Len(found)
      /\ 1 \in 1..Len(found) /\ \A i \in 1..Len(found) : found'[i] = IF i = 1 THEN n ELSE found[i]
  BY <1>1, <1>2, <1>3, <1>5, OneOtherFound
<1>7. \A m \in Held' : Distance(m) <= Distance(root) /\ m \in DOMAIN tree
  <2>1. Distance(n) \in Nat /\ Distance(root) \in Nat
    BY <1>3, <1>5
  <2>2. Distance(n) <= Distance(root)
    BY <1>1, <2>1
  <2> QED BY <1>3, <1>6, <2>2
<1>8. FoundInv'
  <2>1. \A c \in Waiting(stack)', m \in Held' : ~Under(c, m)
    BY <1>2, <1>6
  <2> QED BY <1>1, <1>3, <1>4, <1>6, <2>1 DEF FoundInv, Distinct
\* The root was the farthest, so it may go, and its going excuses nobody less.
<1>9. ASSUME NEW m \in DOMAIN tree, m = root \/ Excused(m) PROVE Excused(m)'
  <2>1. ASSUME NEW h \in Held'
        PROVE  Distance(m) >= Distance(h) \/ Reckoned(tree[m], Distance(h))
    <3>0. Distance(m) \in Nat /\ Distance(h) \in Nat /\ Distance(root) \in Nat
      BY <1>3, <1>5, <1>7
    <3>1. CASE m = root
      BY <1>7, <3>0, <3>1
    <3>2. CASE m # root /\ h # n
      <4>1. h \in Held
        BY <1>6, <3>2
      <4> QED BY <1>1, <1>9, <3>2, <4>1 DEF Excused
    <3>3. CASE m # root /\ h = n
      <4>1. Distance(m) >= Distance(root) \/ Reckoned(tree[m], Distance(root))
        BY <1>1, <1>5, <1>9, <3>3 DEF Excused
      <4>2. CASE Distance(m) >= Distance(root)
        BY <1>1, <3>0, <3>3, <4>2
      <4>3. CASE Reckoned(tree[m], Distance(root))
        <5>1. AlongLat(tree[m]) \in Int /\ AlongLng(tree[m]) \in Int
          BY <1>2, NodeFacts
        <5> QED BY <1>1, <3>0, <3>3, <4>3, <5>1 DEF Reckoned
      <4> QED BY <4>1, <4>2, <4>3
    <3> QED BY <3>1, <3>2, <3>3
  <2>2. call' = "nearest" /\ Len(found') = bound'
    BY <1>1, <1>4, <1>5, <1>6
  <2>3. \A h \in Held' : Distance(m)' >= Distance(h)' \/ Reckoned(tree[m], Distance(h))'
    <3> SUFFICES ASSUME NEW h \in Held'
                 PROVE  Distance(m)' >= Distance(h)' \/ Reckoned(tree[m], Distance(h))'
      OBVIOUS
    <3>1. Distance(m)' = Distance(m) /\ Distance(h)' = Distance(h)
      BY <1>4
    <3>2. Reckoned(tree[m], Distance(h))' <=> Reckoned(tree[m], Distance(h))
      BY <1>2, <1>4, <3>1 DEF Reckoned, AlongLat, AlongLng
    <3> QED BY <2>1, <3>1, <3>2
  <2> QED BY <2>2, <2>3 DEF Excused
<1>10. LeftInv'
  <2> SUFFICES ASSUME NEW m \in DOMAIN tree
               PROVE  m \in Held' \/ (\E c \in Waiting(stack') : Under(c, m)) \/ Excused(m)'
    BY <1>2 DEF LeftInv
  <2> QED BY <1>2, <1>3, <1>6, <1>9
<1>11. HeapInv'
  <2>1. hole' \in 1..Len(found') /\ Bridged'
    BY <1>1, <1>6 DEF Bridged
  <2>2. ASSUME NEW i \in 2..Len(found'), i \div 2 # hole'
        PROVE  Distance(found[i])' <= Distance(found[i \div 2])'
    <3>1. /\ i \in 2..Len(found) /\ i \in 1..Len(found) /\ i \div 2 \in 1..Len(found)
          /\ i # 1 /\ i \div 2 # 1
      BY <1>1, <1>3, <1>6, <2>2
    <3>2. found'[i] = found[i] /\ found'[i \div 2] = found[i \div 2]
      BY <1>6, <3>1
    <3>3. Distance(found[i]) <= Distance(found[i \div 2])
      BY <1>1, <1>2, <3>1 DEF SearchInv, HeapInv, IsHeapBut
    <3>4. /\ Distance(found[i])' = Distance(found[i])
          /\ Distance(found[i \div 2])' = Distance(found[i \div 2])
      BY <1>2, <1>4, <3>2 DEF Distance
    <3> QED BY <3>3, <3>4
  <2>3. IsHeapBut({i \in 2..Len(found) : i \div 2 = hole})'
    BY <2>2 DEF IsHeapBut
  <2> QED BY <1>1, <2>1, <2>3 DEF HeapInv
<1> QED BY <1>1, <1>2, <1>3, <1>4, <1>8, <1>10, <1>11 DEF SearchInv, CallInv

\* The stack goes on without its first call, whose nodes need no visit.
LEMMA PassKeeps ==
  ASSUME TreeInv, SearchInv, pc = "search", pc' = pc, StackInv',
         UNCHANGED <<contents, request, found, hole>>,
         \A c \in Waiting(stack'), m \in Held : ~Under(c, m),
         \A m \in DOMAIN tree :
           (\E c \in Waiting(stack) : Under(c, m)) =>
             (\E c \in Waiting(stack') : Under(c, m)) \/ Excused(m)
  PROVE  SearchInv'
<1>1. tree' = tree /\ found' = found /\ hole' = hole /\ UNCHANGED request
  BY DEF contents
<1>2. Held' = Held
  BY <1>1 DEF Held
<1>3. /\ query' = query /\ call' = call /\ bound' = bound
      /\ \A m : Distance(m)' = Distance(m)
      /\ \A m : ReckonedBeyond(tree[m], bound)' <=> ReckonedBeyond(tree[m], bound)
      /\ \A m, d : Reckoned(tree[m], d)' <=> Reckoned(tree[m], d)
  BY <1>1, SameReckoning
<1>4. ASSUME NEW m \in DOMAIN tree, Excused(m) PROVE Excused(m)'
  <2>1. ASSUME NEW h \in Held, Distance(m) >= Distance(h) \/ Reckoned(tree[m], Distance(h))
        PROVE  Distance(m)' >= Distance(h)' \/ Reckoned(tree[m], Distance(h))'
    <3>1. Distance(m)' = Distance(m) /\ Distance(h)' = Distance(h)
      BY <1>3
    <3>2. Reckoned(tree[m], Distance(h))' <=> Reckoned(tree[m], Distance(h))
      BY <1>1, <1>3, <3>1 DEF Reckoned, AlongLat, AlongLng
    <3> QED BY <2>1, <3>1, <3>2
  <2> QED BY <1>1, <1>2, <1>3, <1>4, <2>1 DEF Excused
<1>5. FoundInv'
  <2>1. \A c \in Waiting(stack)', m \in Held' : ~Under(c, m)
    BY <1>2
  <2>2. call' = "nearby" => \A m \in Held' : Distance(m)' <= bound'
    BY <1>2, <1>3 DEF SearchInv, FoundInv
  <2> QED BY <1>1, <1>3, <2>1, <2>2 DEF SearchInv, FoundInv
<1>6. LeftInv'
  <2>1. \A m \in DOMAIN tree :
          m \in Held \/ (\E c \in Waiting(stack) : Under(c, m)) \/ Excused(m)
    BY SearchFacts
  <2> QED BY <1>1, <1>2, <1>4, <2>1 DEF LeftInv
<1>7. HeapInv'
  <2>1. pc' = "search"
    OBVIOUS
  <2> SUFFICES ASSUME call' = "nearest", NEW i \in 2..Len(found)
               PROVE  Distance(found[i])' <= Distance(found[i \div 2])'
    BY <1>1, <2>1 DEF HeapInv, IsHeapBut
  <2>2. Distance(found[i]) <= Distance(found[i \div 2])
    BY <1>3 DEF SearchInv, HeapInv, IsHeapBut
  <2> QED BY <1>1, <1>3, <2>2 DEF Distance
<1> QED BY <1>1, <1>3, <1>5, <1>6, <1>7 DEF SearchInv, CallInv

\* The heap is full of nodes that are no farther.
LEMMA PushNothingKeeps ==
  ASSUME TreeInv, SearchInv, NEW n \in DOMAIN tree, PushNothing(n)
  PROVE  SearchInv'
<1>1. /\ call = "nearest" /\ Visits(n) /\ Len(found) >= bound /\ Distance(n) >= Distance(found[1])
      /\ UNCHANGED <<found, hole, pc>>
  BY DEF PushNothing
<1>2. /\ pc = "search" /\ StackInv' /\ UNCHANGED <<contents, request>>
      /\ \A c \in Waiting(stack'), m \in Held \cup {n} : ~Under(c, m)
      /\ \A m \in DOMAIN tree :
           (\E c \in Waiting(stack) : Under(c, m)) =>
             m = n \/ \E c \in Waiting(stack') : Under(c, m)
  BY <1>1, VisitedIsNew
<1>3. /\ bound \in Int /\ bound > 0 /\ bound >= Len(found) /\ Len(found) \in Nat
      /\ \A m \in Held : m \in DOMAIN tree
      /\ \A m \in DOMAIN tree : Distance(m) \in Nat
      /\ Len(found) > 0 => found[1] \in Held
      /\ \A m \in Held : Distance(m) <= Distance(found[1])
  BY <1>1, <1>2, SearchFacts
<1>4. Len(found) = bound /\ Distance(found[1]) \in Nat
  BY <1>1, <1>3
<1>5. \A m \in Held : Distance(n) >= Distance(m)
  BY <1>1, <1>3, <1>4
<1>6. Excused(n)
  BY <1>1, <1>4, <1>5 DEF Excused
<1>7. UNCHANGED <<found, hole>> /\ pc' = pc
  BY <1>1
<1> QED BY <1>2, <1>6, <1>7, PassKeeps

\* Everything beyond a line that is not crossed is far enough away.
LEMMA CutOffKeeps ==
  ASSUME TreeInv, SearchInv, CutOff
  PROVE  SearchInv'
<1> DEFINE h == Head(stack)
<1>1. /\ pc = "search" /\ stack # <<>> /\ ~IsMade(h) /\ stack' = Tail(stack)
      /\ UNCHANGED <<contents, request, found, hole>> /\ pc' = pc
  BY DEF CutOff
<1>2. /\ query \in Queries /\ call \in {"nearby", "nearest"} /\ bound \in Int
      /\ call = "nearest" => bound > 0 /\ bound >= Len(found)
      /\ Len(found) \in Nat /\ \A m \in Held : m \in DOMAIN tree
      /\ \A m \in DOMAIN tree : Distance(m) \in Nat
      /\ Len(found) > 0 => found[1] \in Held
      /\ call = "nearest" => \A m \in Held : Distance(m) <= Distance(found[1])
  BY <1>1, SearchFacts
<1>3. /\ h \in Calls /\ Tail(stack) \in Seq(Calls)
      /\ Separate(Tail(stack)) /\ Planned(Tail(stack))
      /\ Waiting(stack) = Waiting(Tail(stack)) \cup {h.node}
      /\ h.plane # Always => \E n \in DOMAIN tree : FarSideOf(h, n)
  <2>1. StackInv
    BY DEF SearchInv
  <2> HIDE DEF h
  <2> QED BY <1>1, <2>1, TakeCall DEF h
<1> HIDE DEF h
<1>4. tree' = tree /\ query' = query
  BY <1>1 DEF contents, request
<1>5. StackInv'
  BY <1>1, <1>3, <1>4, SameStack
<1>6. \A c \in Waiting(stack'), m \in Held : ~Under(c, m)
  BY <1>1, <1>3 DEF SearchInv, FoundInv
<1>7. /\ h.plane # Always
      /\ call = "nearby" => ~(h.plane <= bound)
      /\ call = "nearest" => ~(Len(found) < bound) /\ ~(h.plane < Distance(found[1]))
  BY <1>1, <1>2 DEF IsMade, CloserThanMaxDist
<1>8. PICK n \in DOMAIN tree : FarSideOf(h, n)
  BY <1>3, <1>7
<1>9. ASSUME NEW m \in DOMAIN tree, Under(h.node, m) PROVE Excused(m)
  <2>1. h.plane <= 0 \/ Reckoned(tree[m], h.plane)
    BY <1>2, <1>8, <1>9, BeyondLine DEF FarSideOf
  <2>2. /\ h.plane \in Int /\ Distance(m) \in Nat
        /\ AlongLat(tree[m]) \in Int /\ AlongLng(tree[m]) \in Int
    BY <1>2, <1>3, NodeFacts DEF Calls
  <2>3. CASE call = "nearby"
    BY <1>2, <1>7, <2>1, <2>2, <2>3 DEF Excused, Reckoned, ReckonedBeyond
  <2>4. CASE call = "nearest"
    <3>1. Len(found) = bound /\ found[1] \in Held
      BY <1>2, <1>7, <2>4
    <3>2. ASSUME NEW x \in Held
          PROVE  Distance(m) >= Distance(x) \/ Reckoned(tree[m], Distance(x))
      <4>1. Distance(x) \in Nat /\ Distance(found[1]) \in Nat /\ Distance(x) <= Distance(found[1])
        BY <1>2, <2>4, <3>1
      <4>2. Distance(x) <= h.plane
        BY <1>7, <2>2, <2>4, <4>1
      <4>3. CASE h.plane <= 0
        BY <2>2, <4>1, <4>2, <4>3
      <4>4. CASE Reckoned(tree[m], h.plane)
        BY <2>2, <4>1, <4>2, <4>4 DEF Reckoned
      <4> QED BY <2>1, <4>3, <4>4
    <3> QED BY <2>4, <3>1, <3>2 DEF Excused
  <2> QED BY <1>2, <2>3, <2>4
<1>10. \A m \in DOMAIN tree :
         (\E c \in Waiting(stack) : Under(c, m)) =>
           (\E c \in Waiting(stack') : Under(c, m)) \/ Excused(m)
  BY <1>1, <1>3, <1>9
<1> QED BY <1>1, <1>5, <1>6, <1>10, PassKeeps

\* The same results in another order.
LEMMA SameResults ==
  ASSUME TreeInv, SearchInv, pc \in {"search", "up", "down"},
         UNCHANGED <<contents, request, stack>>,
         Distinct', Held' = Held, Len(found') = Len(found)
  PROVE  StackInv' /\ FoundInv' /\ LeftInv'
<1>1. tree' = tree /\ stack' = stack /\ UNCHANGED request
  BY DEF contents
<1>2. /\ query' = query /\ call' = call /\ bound' = bound
      /\ \A m : Distance(m)' = Distance(m)
      /\ \A m : ReckonedBeyond(tree[m], bound)' <=> ReckonedBeyond(tree[m], bound)
  BY <1>1, SameReckoning
<1>3. StackInv'
  <2>1. stack \in Seq(Calls) /\ Separate(stack) /\ Planned(stack)
    BY DEF SearchInv, StackInv
  <2> QED BY <1>1, <1>2, <2>1, SameStack
<1>4. FoundInv'
  <2>1. \A c \in Waiting(stack)', m \in Held' : ~Under(c, m)
    BY <1>1 DEF SearchInv, FoundInv
  <2>2. call' = "nearby" => \A m \in Held' : Distance(m)' <= bound'
    BY <1>2 DEF SearchInv, FoundInv
  <2>3. call' = "nearest" /\ bound' > 0 => Len(found') <= bound'
    BY <1>2 DEF SearchInv, FoundInv
  <2> QED BY <2>1, <2>2, <2>3 DEF FoundInv, Distinct
<1>5. ASSUME NEW m \in DOMAIN tree, Excused(m) PROVE Excused(m)'
  <2>1. ASSUME NEW h \in Held, Distance(m) >= Distance(h) \/ Reckoned(tree[m], Distance(h))
        PROVE  Distance(m)' >= Distance(h)' \/ Reckoned(tree[m], Distance(h))'
    <3>1. Distance(m)' = Distance(m) /\ Distance(h)' = Distance(h)
      BY <1>2
    <3>2. Reckoned(tree[m], Distance(h))' <=> Reckoned(tree[m], Distance(h))
      BY <1>1, <1>2, <3>1 DEF Reckoned, AlongLat, AlongLng
    <3> QED BY <2>1, <3>1, <3>2
  <2> QED BY <1>1, <1>2, <1>5, <2>1 DEF Excused
<1>6. LeftInv'
  <2>1. \A m \in DOMAIN tree :
          m \in Held \/ (\E c \in Waiting(stack) : Under(c, m)) \/ Excused(m)
    BY SearchFacts
  <2> QED BY <1>1, <1>5, <2>1 DEF LeftInv
<1> QED BY <1>3, <1>4, <1>6

LEMMA SwapFacts ==
  ASSUME Distinct, hole \in 1..Len(found), NEW i \in 1..Len(found), SwapTo(i), tree' = tree
  PROVE  /\ Distinct' /\ Held' = Held /\ Len(found') = Len(found)
         /\ \A j \in 1..Len(found) :
              found'[j] = IF j = i THEN found[hole] ELSE IF j = hole THEN found[i] ELSE found[j]
<1> DEFINE p == [j \in 1..Len(found) |-> IF j = i THEN hole ELSE IF j = hole THEN i ELSE j]
<1>1. p \in [1..Len(found) -> 1..Len(found)]
  OBVIOUS
<1>2. \A j \in 1..Len(found), k \in 1..Len(found) : p[j] = p[k] => j = k
  OBVIOUS
<1>3. \A j \in 1..Len(found) : p[p[j]] = j
  OBVIOUS
<1>4. found' = [j \in 1..Len(found) |-> found[p[j]]]
  <2>1. found = [j \in 1..Len(found) |-> found[j]] /\ DOMAIN found = 1..Len(found)
    BY DEF Distinct
  <2>2. found' = [found EXCEPT ![hole] = found[i], ![i] = found[hole]]
    BY DEF SwapTo
  <2>3. found' = [j \in 1..Len(found) |->
                    IF j = i THEN found[hole] ELSE IF j = hole THEN found[i] ELSE found[j]]
    BY <2>1, <2>2
  <2>4. \A j \in 1..Len(found) :
          found[p[j]] = IF j = i THEN found[hole] ELSE IF j = hole THEN found[i] ELSE found[j]
    OBVIOUS
  <2> HIDE DEF p
  <2> QED BY <2>3, <2>4
<1>5. \A j \in 1..Len(found) :
        found'[j] = IF j = i THEN found[hole] ELSE IF j = hole THEN found[i] ELSE found[j]
  BY <1>4
<1> HIDE DEF p
<1>6. \A j \in 1..Len(found) : \E k \in 1..Len(found) : p[k] = j
  BY <1>1, <1>3
<1> QED BY <1>1, <1>2, <1>4, <1>5, <1>6, FoundInOrder

\* What changes places: the item at the hole and another one.
LEMMA SwapKeeps ==
  ASSUME TreeInv, SearchInv, pc \in {"up", "down"}, hole \in 1..Len(found),
         NEW i \in 1..Len(found), SwapTo(i)
  PROVE  /\ CallInv' /\ StackInv' /\ FoundInv' /\ LeftInv'
         /\ pc' = pc /\ hole' = i /\ Len(found') = Len(found) /\ Len(found) \in Nat
         /\ \A j \in 1..Len(found) : Distance(found[j]) \in Nat
         /\ \A j \in 1..Len(found) :
              Distance(found[j])' = IF j = i THEN Distance(found[hole])
                                    ELSE IF j = hole THEN Distance(found[i]) ELSE Distance(found[j])
<1>1. UNCHANGED <<contents, request, stack>> /\ pc' = pc /\ hole' = i /\ tree' = tree
  BY DEF SwapTo, contents
<1>2. /\ Distinct /\ Len(found) \in Nat
      /\ \A m \in Held : m \in DOMAIN tree
      /\ \A m \in DOMAIN tree : Distance(m) \in Nat
  BY SearchFacts
<1>3. /\ Distinct' /\ Held' = Held /\ Len(found') = Len(found)
      /\ \A j \in 1..Len(found) :
           found'[j] = IF j = i THEN found[hole] ELSE IF j = hole THEN found[i] ELSE found[j]
  BY <1>1, <1>2, SwapFacts
<1>4. StackInv' /\ FoundInv' /\ LeftInv'
  BY <1>1, <1>3, SameResults
<1>5. CallInv'
  <2>1. query' = query /\ call' = call /\ bound' = bound
    BY <1>1 DEF request
  <2>2. ~(call = "nearest" /\ bound <= 0)
    BY DEF SearchInv, CallInv
  <2> QED BY <1>1, <2>1, <2>2 DEF SearchInv, CallInv
<1>6. \A j \in 1..Len(found) : found[j] \in Held
  BY DEF Held
<1>7. ASSUME NEW j \in 1..Len(found)
      PROVE  Distance(found[j])' = IF j = i THEN Distance(found[hole])
                                   ELSE IF j = hole THEN Distance(found[i]) ELSE Distance(found[j])
  BY <1>1, <1>3 DEF Distance, request
<1> QED BY <1>1, <1>2, <1>3, <1>4, <1>5, <1>6, <1>7

\* The heap is in order, and the search goes on.
LEMMA SettleKeeps ==
  ASSUME TreeInv, SearchInv, pc \in {"up", "down"}, Settle, IsHeapBut({})
  PROVE  SearchInv'
<1>1. UNCHANGED <<contents, request, stack, found>> /\ pc' = "search" /\ tree' = tree
  BY DEF Settle, contents
<1>2. Held' = Held /\ Distinct /\ Distinct' /\ Len(found') = Len(found)
  BY <1>1, SearchFacts DEF Held, Distinct
<1>3. StackInv' /\ FoundInv' /\ LeftInv'
  BY <1>1, <1>2, SameResults
<1>4. query' = query /\ call' = call /\ bound' = bound
  BY <1>1 DEF request
<1>5. HeapInv'
  <2> SUFFICES ASSUME NEW i \in 2..Len(found)
               PROVE  Distance(found[i])' <= Distance(found[i \div 2])'
    BY <1>1 DEF HeapInv, IsHeapBut
  <2>1. Distance(found[i]) <= Distance(found[i \div 2])
    BY DEF IsHeapBut
  <2> QED BY <1>1, <1>4, <2>1 DEF Distance
<1> QED BY <1>1, <1>3, <1>4, <1>5 DEF SearchInv, CallInv

\* heapifyUp: the item rises until what is over it is no nearer.
LEMMA HeapifyUpKeeps ==
  ASSUME TreeInv, SearchInv, HeapifyUp
  PROVE  SearchInv'
<1>1. /\ pc = "up" /\ hole \in 1..Len(found) /\ Bridged /\ IsHeapBut({hole})
  BY DEF HeapifyUp, SearchInv, HeapInv
<1>2. Len(found) \in Nat /\ hole \in Nat
  BY <1>1, SearchFacts
<1>3. CASE ~Rises /\ Settle
  <2>1. IsHeapBut({})
    <3> SUFFICES ASSUME NEW i \in 2..Len(found)
                 PROVE  Distance(found[i]) <= Distance(found[i \div 2])
      BY DEF IsHeapBut
    <3>1. CASE i # hole
      BY <1>1, <3>1 DEF IsHeapBut
    <3>2. CASE i = hole
      <4>1. hole > 1 /\ i \div 2 \in 1..Len(found)
        BY <1>2, <3>2
      <4>2. \A j \in 1..Len(found) : Distance(found[j]) \in Nat
        BY <1>1, SearchFacts DEF Held
      <4>3. ~(Distance(found[hole]) > Distance(found[hole \div 2]))
        BY <1>3, <4>1 DEF Rises, Parent
      <4> QED BY <1>1, <3>2, <4>1, <4>2, <4>3
    <3> QED BY <3>1, <3>2
  <2> QED BY <1>1, <1>3, <2>1, SettleKeeps
<1>4. CASE Rises /\ SwapTo(Parent)
  <2>0. PICK h \in Nat, p \in Nat : h = hole /\ p = hole \div 2
    BY <1>2
  <2>1. /\ h \in 1..Len(found) /\ h > 1 /\ p \in 1..Len(found) /\ p < h /\ SwapTo(p)
        /\ Distance(found[h]) > Distance(found[p])
    BY <1>1, <1>2, <1>4, <2>0 DEF Rises, Parent
  <2>2. h \div 2 = p /\ h = hole
    BY <2>0
  <2>3. /\ CallInv' /\ StackInv' /\ FoundInv' /\ LeftInv'
        /\ pc' = pc /\ hole' = p /\ Len(found') = Len(found)
        /\ \A j \in 1..Len(found) : Distance(found[j]) \in Nat
        /\ \A j \in 1..Len(found) :
             Distance(found[j])' = IF j = p THEN Distance(found[h])
                                   ELSE IF j = h THEN Distance(found[p]) ELSE Distance(found[j])
    BY <1>1, <2>1, <2>2, SwapKeeps
  <2>4. \A j \in 2..Len(found) : j \in 1..Len(found) /\ j \div 2 \in 1..Len(found) /\ j \div 2 < j
    BY <1>2
  <2>5. /\ Distance(found[h]) \in Nat /\ Distance(found[p]) \in Nat
        /\ Distance(found[p])' = Distance(found[h])
        /\ Distance(found[h])' = Distance(found[p])
    BY <2>1, <2>3
  <2>6. ASSUME NEW i \in 2..Len(found), i # p
        PROVE  Distance(found[i])' <= Distance(found[i \div 2])'
    <3>0. /\ i \in 1..Len(found) /\ i \div 2 \in 1..Len(found) /\ i \div 2 < i
          /\ Distance(found[i]) \in Nat /\ Distance(found[i \div 2]) \in Nat
      BY <2>3, <2>4
    <3>1. CASE i = h
      <4>1. Distance(found[i \div 2])' = Distance(found[h])
        BY <2>2, <2>5, <3>1
      <4>2. Distance(found[i])' = Distance(found[p])
        BY <2>5, <3>1
      <4> QED BY <2>1, <2>5, <4>1, <4>2
    <3>2. CASE i # h
      <4>1. Distance(found[i])' = Distance(found[i]) /\ Distance(found[i]) <= Distance(found[i \div 2])
        BY <1>1, <2>2, <2>3, <2>6, <3>0, <3>2 DEF IsHeapBut
      <4>2. CASE i \div 2 = h
        <5>1. Distance(found[i]) <= Distance(found[p])
          BY <1>1, <2>1, <2>2, <4>2 DEF Bridged
        <5>2. Distance(found[i \div 2])' = Distance(found[p])
          BY <2>5, <4>2
        <5> QED BY <4>1, <5>1, <5>2
      <4>3. CASE i \div 2 = p
        <5>1. Distance(found[i \div 2])' = Distance(found[h])
          BY <2>5, <4>3
        <5>2. Distance(found[i]) <= Distance(found[p])
          BY <4>1, <4>3
        <5> QED BY <2>1, <2>5, <3>0, <4>1, <5>1, <5>2
      <4>4. CASE i \div 2 # h /\ i \div 2 # p
        <5>1. Distance(found[i \div 2])' = Distance(found[i \div 2])
          BY <2>3, <3>0, <4>4
        <5> QED BY <4>1, <5>1
      <4> QED BY <4>2, <4>3, <4>4
    <3> QED BY <3>1, <3>2
  <2>7. ASSUME NEW i \in 2..Len(found), i \div 2 = p, p > 1
        PROVE  Distance(found[i])' <= Distance(found[p \div 2])'
    <3>0. /\ i \in 1..Len(found) /\ i # p
          /\ Distance(found[i]) \in Nat
      BY <2>3, <2>4, <2>7
    <3>1. /\ p \in 2..Len(found) /\ p # h /\ p \div 2 \in 1..Len(found)
          /\ p \div 2 # p /\ p \div 2 # h
      BY <1>2, <2>1, <2>2, <2>7
    <3>2. Distance(found[p]) <= Distance(found[p \div 2]) /\ Distance(found[p \div 2]) \in Nat
      BY <1>1, <2>2, <2>3, <3>1 DEF IsHeapBut
    <3>3. Distance(found[p \div 2])' = Distance(found[p \div 2])
      BY <2>3, <3>1
    <3>4. CASE i = h
      <4>1. Distance(found[i])' = Distance(found[p])
        BY <2>5, <3>4
      <4> QED BY <3>2, <3>3, <4>1
    <3>5. CASE i # h
      <4>1. Distance(found[i])' = Distance(found[i])
        BY <2>3, <3>0, <3>5
      <4>2. Distance(found[i]) <= Distance(found[p])
        BY <1>1, <2>2, <2>7, <3>5 DEF IsHeapBut
      <4> QED BY <2>5, <3>0, <3>2, <3>3, <4>1, <4>2
    <3> QED BY <3>4, <3>5
  <2>8. Bridged' /\ IsHeapBut({hole})' /\ hole' \in 1..Len(found')
    BY <2>1, <2>3, <2>6, <2>7 DEF Bridged, IsHeapBut
  <2>9. HeapInv'
    BY <1>1, <2>3, <2>8 DEF HeapInv
  <2> QED BY <2>3, <2>9 DEF SearchInv
<1> QED BY <1>3, <1>4 DEF HeapifyUp

LEMMA LargestFacts ==
  ASSUME Len(found) \in Nat, hole \in 1..Len(found),
         \A j \in 1..Len(found) : Distance(found[j]) \in Nat
  PROVE  /\ Largest \in 1..Len(found) /\ Largest \in {hole, 2 * hole, 2 * hole + 1}
         /\ \A j \in 1..Len(found) :
              j \in {hole, 2 * hole, 2 * hole + 1} => Distance(found[j]) <= Distance(found[Largest])
<1> DEFINE here == {i \in {hole, 2 * hole, 2 * hole + 1} : i <= Len(found)}
           D(i) == Distance(found[i])
           farthest == {i \in here : \A j \in here : D(i) >= D(j)}
<1>1. hole \in here /\ here \subseteq 1..Len(found)
  OBVIOUS
<1>2. \A i \in here : D(i) \in Nat
  BY <1>1
<1> HIDE DEF D
<1>3. \E i \in here : \A j \in here : D(i) >= D(j)
  <2>1. CASE 2 * hole > Len(found)
    <3>1. \A j \in here : j = hole
      BY <2>1
    <3> QED BY <1>1, <1>2, <3>1
  <2>2. CASE 2 * hole <= Len(found) /\ 2 * hole + 1 > Len(found)
    <3>1. (\A j \in here : j = hole \/ j = 2 * hole) /\ 2 * hole \in here
      BY <2>2
    <3> HIDE DEF here
    <3>2. PICK a \in Nat, b \in Nat : a = D(hole) /\ b = D(2 * hole)
      BY <1>1, <1>2, <3>1
    <3>3. a >= a /\ b >= b /\ (a >= b \/ b >= a)
      OBVIOUS
    <3> QED BY <1>1, <3>1, <3>2, <3>3, Zenon
  <2>3. CASE 2 * hole + 1 <= Len(found)
    <3>1. /\ \A j \in here : j = hole \/ j = 2 * hole \/ j = 2 * hole + 1
          /\ 2 * hole \in here /\ 2 * hole + 1 \in here
      BY <2>3
    <3> HIDE DEF here
    <3>2. PICK a \in Nat, b \in Nat, c \in Nat :
            a = D(hole) /\ b = D(2 * hole) /\ c = D(2 * hole + 1)
      BY <1>1, <1>2, <3>1
    <3>3. \/ a >= a /\ a >= b /\ a >= c
          \/ b >= a /\ b >= b /\ b >= c
          \/ c >= a /\ c >= b /\ c >= c
      OBVIOUS
    <3> QED BY <1>1, <3>1, <3>2, <3>3, Zenon
  <2> QED BY <2>1, <2>2, <2>3
<1>4. \E i \in farthest : \A j \in farthest : i <= j
  <2>0. here \subseteq Nat
    BY <1>1
  <2> HIDE DEF here
  <2>1. farthest \in SUBSET Nat /\ farthest # {}
    BY <1>3, <2>0
  <2> HIDE DEF farthest
  <2> QED BY <2>1, LeastExists
<1>5. Largest \in farthest
  <2>1. Largest = CHOOSE i \in farthest : \A j \in farthest : i <= j
    BY DEF Largest, D
  <2> HIDE DEF farthest
  <2> QED BY <1>4, <2>1
<1>6. \A j \in 1..Len(found) : j \in {hole, 2 * hole, 2 * hole + 1} => j \in here
  OBVIOUS
<1>7. Largest \in here /\ \A j \in here : D(Largest) >= D(j)
  BY <1>5
<1> HIDE DEF here
<1>8. \A j \in here : D(j) <= D(Largest)
  BY <1>2, <1>7
<1> QED BY <1>1, <1>6, <1>7, <1>8 DEF here, D

\* heapifyDown: the item sinks until what is under it is no farther.
LEMMA HeapifyDownKeeps ==
  ASSUME TreeInv, SearchInv, HeapifyDown
  PROVE  SearchInv'
<1>1. /\ pc = "down" /\ hole \in 1..Len(found) /\ Bridged
      /\ IsHeapBut({i \in 2..Len(found) : i \div 2 = hole})
  BY DEF HeapifyDown, SearchInv, HeapInv
<1>2. /\ Len(found) \in Nat /\ hole \in Nat
      /\ \A j \in 1..Len(found) : Distance(found[j]) \in Nat
  BY <1>1, SearchFacts DEF Held
<1>3. PICK h \in Nat, q \in Nat : h = hole /\ q = Largest
  BY <1>1, <1>2, LargestFacts
<1>4. /\ h \in 1..Len(found) /\ q \in 1..Len(found) /\ q \in {h, 2 * h, 2 * h + 1}
      /\ \A j \in 1..Len(found) :
           j \in {h, 2 * h, 2 * h + 1} => Distance(found[j]) <= Distance(found[q])
  BY <1>1, <1>2, <1>3, LargestFacts
<1>5. \A j \in 2..Len(found) :
        /\ j \in 1..Len(found) /\ j \div 2 \in 1..Len(found) /\ j \div 2 < j
        /\ j \div 2 = h => j \in {h, 2 * h, 2 * h + 1}
        /\ j \div 2 # h => Distance(found[j]) <= Distance(found[j \div 2])
  <2> SUFFICES ASSUME NEW j \in 2..Len(found)
               PROVE  /\ j \in 1..Len(found) /\ j \div 2 \in 1..Len(found) /\ j \div 2 < j
                      /\ j \div 2 = h => j \in {h, 2 * h, 2 * h + 1}
                      /\ j \div 2 # h => Distance(found[j]) <= Distance(found[j \div 2])
    OBVIOUS
  <2>1. j \in 1..Len(found) /\ j \div 2 \in 1..Len(found) /\ j \div 2 < j
    BY <1>2
  <2>2. j \div 2 = h => j \in {h, 2 * h, 2 * h + 1}
    BY <1>2
  <2>3. j \div 2 # h => Distance(found[j]) <= Distance(found[j \div 2])
    BY <1>1, <1>3 DEF IsHeapBut
  <2> QED BY <2>1, <2>2, <2>3
<1>6. CASE q = h /\ Settle
  <2>1. IsHeapBut({})
    <3> SUFFICES ASSUME NEW i \in 2..Len(found)
                 PROVE  Distance(found[i]) <= Distance(found[i \div 2])
      BY DEF IsHeapBut
    <3> QED BY <1>4, <1>5, <1>6
  <2> QED BY <1>1, <1>6, <2>1, SettleKeeps
<1>7. CASE q # h /\ SwapTo(q)
  <2>1. q \div 2 = h /\ q > h /\ q \in 2..Len(found)
    BY <1>2, <1>4, <1>7
  <2>2. /\ CallInv' /\ StackInv' /\ FoundInv' /\ LeftInv'
        /\ pc' = pc /\ hole' = q /\ Len(found') = Len(found)
        /\ \A j \in 1..Len(found) :
             Distance(found[j])' = IF j = q THEN Distance(found[h])
                                   ELSE IF j = h THEN Distance(found[q]) ELSE Distance(found[j])
    BY <1>1, <1>3, <1>4, <1>7, SwapKeeps
  <2>3. /\ Distance(found[h]) \in Nat /\ Distance(found[q]) \in Nat
        /\ Distance(found[q])' = Distance(found[h])
        /\ Distance(found[h])' = Distance(found[q])
    BY <1>2, <1>4, <2>1, <2>2
  <2>4. ASSUME NEW i \in 2..Len(found), i \div 2 # q
        PROVE  Distance(found[i])' <= Distance(found[i \div 2])'
    <3>0. /\ i \in 1..Len(found) /\ i \div 2 \in 1..Len(found) /\ i \div 2 < i
          /\ Distance(found[i]) \in Nat /\ Distance(found[i \div 2]) \in Nat
      BY <1>2, <1>5
    <3>1. CASE i \div 2 = h
      <4>1. Distance(found[i \div 2])' = Distance(found[q])
        BY <2>3, <3>1
      <4>2. Distance(found[i]) <= Distance(found[q]) /\ Distance(found[h]) <= Distance(found[q])
        BY <1>4, <1>5, <3>0, <3>1
      <4>3. Distance(found[i])' = Distance(found[i]) \/ Distance(found[i])' = Distance(found[h])
        BY <2>2, <3>0, <3>1
      <4> QED BY <4>1, <4>2, <4>3
    <3>2. CASE i = h
      <4>1. h > 1 /\ q \in 2..Len(found) /\ i \div 2 # h
        BY <2>1, <3>0, <3>2
      <4>2. Distance(found[q]) <= Distance(found[hole \div 2])
        BY <1>1, <1>3, <2>1, <4>1 DEF Bridged
      <4>3. Distance(found[i])' = Distance(found[q])
        BY <2>3, <3>2
      <4>4. Distance(found[i \div 2])' = Distance(found[i \div 2])
        BY <2>2, <2>4, <3>0, <4>1
      <4>5. hole \div 2 = i \div 2
        BY <1>3, <3>2
      <4> QED BY <4>2, <4>3, <4>4, <4>5
    <3>3. CASE i # h /\ i \div 2 # h
      <4>1. i # q
        BY <2>1, <3>3
      <4>2. /\ Distance(found[i])' = Distance(found[i])
            /\ Distance(found[i \div 2])' = Distance(found[i \div 2])
        BY <2>2, <2>4, <3>0, <3>3, <4>1
      <4> QED BY <1>5, <3>3, <4>2
    <3> QED BY <3>1, <3>2, <3>3
  <2>5. ASSUME NEW i \in 2..Len(found), i \div 2 = q
        PROVE  Distance(found[i])' <= Distance(found[q \div 2])'
    <3>1. i \in 1..Len(found) /\ i # q /\ i # h /\ q # h
      BY <1>5, <2>1, <2>5
    <3>2. Distance(found[i])' = Distance(found[i]) /\ Distance(found[i]) <= Distance(found[q])
      BY <1>5, <2>2, <2>5, <3>1
    <3>3. Distance(found[q \div 2])' = Distance(found[q])
      BY <2>1, <2>3
    <3> QED BY <3>2, <3>3
  <2>6. Bridged' /\ IsHeapBut({i \in 2..Len(found) : i \div 2 = hole})' /\ hole' \in 1..Len(found')
    <3>1. Bridged'
      BY <2>2, <2>5 DEF Bridged
    <3>2. IsHeapBut({i \in 2..Len(found) : i \div 2 = hole})'
      BY <2>2, <2>4 DEF IsHeapBut
    <3> QED BY <1>4, <2>2, <3>1, <3>2
  <2>7. HeapInv'
    BY <1>1, <2>2, <2>6 DEF HeapInv
  <2> QED BY <2>2, <2>7 DEF SearchInv
<1> QED BY <1>3, <1>6, <1>7 DEF HeapifyDown

-----------------------------------------------------------------------------
\* The answer has the items of the results, each once.
LEMMA BeforeCounts ==
  ASSUME Len(found) \in Nat, \A j \in 1..Len(found) : Distance(found[j]) \in Nat,
         NEW i \in 1..Len(found)
  PROVE  /\ Cardinality(Before(i)) \in 0..(Len(found) - 1)
         /\ \A j \in Before(i) : Cardinality(Before(j)) < Cardinality(Before(i))
         /\ \A j \in 1..Len(found) : j # i => j \in Before(i) \/ i \in Before(j)
<1> DEFINE I == 1..Len(found)
<1>1. IsFiniteSet(I) /\ Cardinality(I) = Len(found)
  <2>1. 1 \in Int /\ Len(found) \in Int
    OBVIOUS
  <2>2. Cardinality(1..Len(found)) = IF 1 > Len(found) THEN 0 ELSE Len(found) - 1 + 1
    BY <2>1, FS_Interval
  <2>3. Cardinality(I) = Len(found)
    BY <2>2
  <2>4. IsFiniteSet(I)
    BY <2>1, FS_Interval
  <2> QED BY <2>3, <2>4
<1>2. ASSUME NEW j \in I PROVE /\ j \notin Before(j) /\ Before(j) \subseteq I
                               /\ IsFiniteSet(Before(j)) /\ Cardinality(Before(j)) \in Nat
  <2>1. j \notin Before(j) /\ Before(j) \subseteq I
    BY DEF Before
  <2> QED BY <1>1, <2>1, FS_Subset, FS_CardinalityType
<1>3. Cardinality(Before(i)) <= Len(found) - 1
  <2>1. Before(i) \subseteq I \ {i} /\ IsFiniteSet(I \ {i})
    BY <1>1, <1>2, FS_RemoveElement
  <2>2. Cardinality(I \ {i}) = Len(found) - 1
    BY <1>1, FS_RemoveElement
  <2> HIDE DEF I
  <2>3. Cardinality(Before(i)) <= Cardinality(I \ {i})
    BY <2>1, FS_Subset
  <2> QED BY <2>2, <2>3
<1>4. ASSUME NEW j \in Before(i) PROVE Cardinality(Before(j)) < Cardinality(Before(i))
  <2>1. j \in I
    BY DEF Before
  <2>2. \A k \in I : Distance(found[k]) \in Nat /\ k \in Int
    OBVIOUS
  <2>3. Before(j) \subseteq Before(i)
    BY <2>1, <2>2 DEF Before
  <2>4. j \notin Before(j) /\ IsFiniteSet(Before(j)) /\ IsFiniteSet(Before(i))
        /\ Cardinality(Before(j)) \in Nat /\ Cardinality(Before(i)) \in Nat
    BY <1>2, <2>1
  <2>5. Cardinality(Before(j) \cup {j}) = Cardinality(Before(j)) + 1
    BY <2>4, FS_AddElement
  <2>6. Cardinality(Before(j) \cup {j}) <= Cardinality(Before(i))
    <3>1. Before(j) \cup {j} \subseteq Before(i)
      BY <2>3
    <3> QED BY <2>4, <3>1, FS_Subset
  <2> QED BY <2>4, <2>5, <2>6
<1>5. ASSUME NEW j \in I, j # i PROVE j \in Before(i) \/ i \in Before(j)
  <2>1. Distance(found[j]) \in Nat /\ Distance(found[i]) \in Nat /\ j \in Int /\ i \in Int
    OBVIOUS
  <2> QED BY <1>5, <2>1 DEF Before
<1> QED BY <1>2, <1>3, <1>4, <1>5

LEMMA SortedIsOrder ==
  ASSUME Len(found) \in Nat, \A j \in 1..Len(found) : Distance(found[j]) \in Nat
  PROVE  \E p \in [1..Len(found) -> 1..Len(found)] :
           /\ \A i, j \in 1..Len(found) : p[i] = p[j] => i = j
           /\ \A i \in 1..Len(found) : \E j \in 1..Len(found) : p[j] = i
           /\ Sorted = [i \in 1..Len(found) |-> found[p[i]]]
<1> DEFINE n == Len(found)
           I == 1..n
           Ranks == 0..(n - 1)
           rank == [i \in I |-> Cardinality(Before(i))]
           p == [m \in I |-> CHOOSE i \in I : Cardinality(Before(i)) = m - 1]
<1>1. rank \in [I -> Ranks]
  BY BeforeCounts
<1>2. ASSUME NEW i \in I, NEW j \in I, rank[i] = rank[j] PROVE i = j
  <2>1. Cardinality(Before(i)) = Cardinality(Before(j)) /\ Cardinality(Before(i)) \in Int
    BY <1>1, <1>2
  <2>2. i \notin Before(j) /\ j \notin Before(i)
    BY <2>1, BeforeCounts
  <2> QED BY <2>2, BeforeCounts
<1>3. IsFiniteSet(I) /\ IsFiniteSet(Ranks) /\ Cardinality(Ranks) = Cardinality(I)
  <2>1. 1 \in Int /\ 0 \in Int /\ n \in Int /\ n - 1 \in Int
    OBVIOUS
  <2>2. Cardinality(I) = IF 1 > n THEN 0 ELSE n - 1 + 1
    BY <2>1, FS_Interval
  <2>3. Cardinality(Ranks) = IF 0 > n - 1 THEN 0 ELSE n - 1 - 0 + 1
    BY <2>1, FS_Interval
  <2>4. Cardinality(Ranks) = Cardinality(I)
    BY <2>2, <2>3
  <2> QED BY <2>1, <2>4, FS_Interval
<1>4. rank \in Surjection(I, Ranks)
  <2> HIDE DEF rank, I, Ranks
  <2>1. rank \in Injection(I, Ranks)
    BY <1>1, <1>2 DEF Injection, IsInjective
  <2> QED BY <1>3, <2>1, FS_Injection
<1>5. ASSUME NEW m \in I PROVE p[m] \in I /\ Cardinality(Before(p[m])) = m - 1
  <2>1. m - 1 \in Ranks
    OBVIOUS
  <2>2. PICK i \in I : rank[i] = m - 1
    <3> HIDE DEF rank, I, Ranks
    <3> QED BY <1>4, <2>1 DEF Surjection
  <2>3. \E k \in I : Cardinality(Before(k)) = m - 1
    BY <2>2
  <2> QED BY <2>3
<1>6. p \in [I -> I]
  BY <1>5
<1>7. ASSUME NEW i \in I, NEW j \in I, p[i] = p[j] PROVE i = j
  <2>1. i - 1 = j - 1
    BY <1>5, <1>7
  <2> QED BY <2>1
<1>8. ASSUME NEW i \in I PROVE \E j \in I : p[j] = i
  <2>1. PICK m \in Int : m = Cardinality(Before(i)) + 1 /\ m \in I
    BY BeforeCounts
  <2>2. p[m] \in I /\ rank[p[m]] = rank[i]
    <3>1. p[m] \in I /\ Cardinality(Before(p[m])) = m - 1
      BY <1>5, <2>1
    <3>2. Cardinality(Before(i)) = m - 1
      BY <2>1, BeforeCounts
    <3> HIDE DEF p
    <3> QED BY <3>1, <3>2
  <2>3. p[m] = i
    <3> HIDE DEF p, rank
    <3> QED BY <1>2, <2>2
  <2> QED BY <2>1, <2>3
<1>9. Sorted = [i \in I |-> found[p[i]]]
  BY DEF Sorted
<1> HIDE DEF p
<1> QED BY <1>6, <1>7, <1>8, <1>9

LEMMA AnswerKeeps ==
  ASSUME TreeInv, SearchInv, Answer
  PROVE  SearchInv'
<1>1. /\ pc = "search" /\ stack = <<>> /\ found' = Sorted /\ pc' = "done"
      /\ UNCHANGED <<contents, request, stack, hole>> /\ tree' = tree
  BY DEF Answer, contents
<1>2. Distinct /\ Len(found) \in Nat /\ \A j \in 1..Len(found) : Distance(found[j]) \in Nat
  BY <1>1, SearchFacts DEF Held
<1>3. Distinct' /\ Held' = Held /\ Len(found') = Len(found)
  <2>1. PICK p \in [1..Len(found) -> 1..Len(found)] :
          /\ \A i, j \in 1..Len(found) : p[i] = p[j] => i = j
          /\ \A i \in 1..Len(found) : \E j \in 1..Len(found) : p[j] = i
          /\ Sorted = [i \in 1..Len(found) |-> found[p[i]]]
    BY <1>2, SortedIsOrder
  <2> QED BY <1>1, <1>2, <2>1, FoundInOrder
<1>4. StackInv' /\ FoundInv' /\ LeftInv'
  BY <1>1, <1>3, SameResults
<1>5. query' = query /\ call' = call /\ bound' = bound
  BY <1>1 DEF request
<1>6. CallInv'
  <2>1. ~(call = "nearest" /\ bound <= 0)
    <3>1. bound \in Int /\ (call = "nearest" => bound > 0)
      BY <1>1 DEF SearchInv, CallInv
    <3> QED BY <3>1
  <2> QED BY <1>1, <1>5, <2>1 DEF SearchInv, CallInv
<1>7. HeapInv'
  BY <1>1 DEF HeapInv
<1> QED BY <1>4, <1>6, <1>7 DEF SearchInv

LEMMA SearchesKeep ==
  ASSUME TreeInv, SearchInv, Searches
  PROVE  SearchInv'
<1>1. CASE \E place \in Queries, radius \in Radii : FindNearby(place, radius)
  <2>1. PICK place \in Queries, radius \in Radii : FindNearby(place, radius)
    BY <1>1
  <2> QED BY <2>1, StartKeeps, PlacesAssumption DEF FindNearby, SearchInv
<1>2. CASE \E place \in Queries, k \in Ks : FindKNearest(place, k)
  <2>1. PICK place \in Queries, k \in Ks : FindKNearest(place, k)
    BY <1>2
  <2> QED BY <2>1, StartKeeps, PlacesAssumption DEF FindKNearest, SearchInv
<1>3. CASE CutOff
  BY <1>3, CutOffKeeps
<1>4. ASSUME NEW n \in DOMAIN tree,
             VisitInRange(n) \/ PushLast(n) \/ PushOverRoot(n) \/ PushNothing(n)
      PROVE  SearchInv'
  BY <1>4, VisitInRangeKeeps, PushLastKeeps, PushOverRootKeeps, PushNothingKeeps
<1>5. CASE HeapifyUp \/ HeapifyDown
  BY <1>5, HeapifyUpKeeps, HeapifyDownKeeps
<1>6. CASE Answer \/ Return
  BY <1>6, AnswerKeeps, ReturnKeeps
<1> QED BY <1>1, <1>2, <1>3, <1>4, <1>5, <1>6 DEF Searches

LEMMA SearchNext ==
  TreeOrBuild /\ SearchInv /\ [Next]_vars => SearchInv'
<1> SUFFICES ASSUME TreeOrBuild, SearchInv, [Next]_vars PROVE SearchInv'
  OBVIOUS
<1>1. CASE \E p \in Grid : Insert(p)
  BY <1>1, IdleKeeps DEF Insert, SearchInv
<1>2. CASE \E list \in PointLists : BuildBalanced(list)
  BY <1>2, IdleKeeps DEF BuildBalanced, SearchInv
<1>3. CASE BuildNode
  BY <1>3, IdleKeeps DEF BuildNode, SearchInv
<1>4. CASE BuildEnds
  BY <1>4, IdleKeeps DEF BuildEnds, SearchInv
<1>5. CASE Searches
  BY <1>5, SearchesLeaveContents, SearchesKeep DEF TreeOrBuild
<1>6. CASE UNCHANGED vars
  <2>1. UNCHANGED <<tree, count, points, call, query, bound, stack, found, hole, pc>>
    BY <1>6 DEF vars, contents, request
  <2> QED BY <2>1
       DEF SearchInv, CallInv, StackInv, FoundInv, LeftInv, HeapInv, Calls, Separate, Planned, FarSideOf,
           Waiting, Held, Excused, IsHeapBut, Bridged, Distance, PlaneDist, Side, IsLeft,
           Reckoned, ReckonedBeyond, AlongLat, AlongLng
<1> QED BY <1>1, <1>2, <1>3, <1>4, <1>5, <1>6 DEF Next, Searches

-----------------------------------------------------------------------------
(* What the results are as bags of points.                                 *)
At(q) == {n \in DOMAIN tree : tree[n] = q}
HeldAt(q) == {n \in Held : tree[n] = q}

LEMMA HeldCount ==
  ASSUME TreeInv, Distinct
  PROVE  /\ Held \subseteq DOMAIN tree /\ IsFiniteSet(Held) /\ Cardinality(Held) = Len(found)
         /\ \A q : IsFiniteSet(At(q)) /\ IsFiniteSet(HeldAt(q)) /\ HeldAt(q) \subseteq At(q)
         /\ \A q : Cardinality(At(q)) \in Nat /\ Cardinality(HeldAt(q)) \in Nat
<1> DEFINE I == 1..Len(found)
           f == [i \in I |-> found[i]]
<1>1. Len(found) \in Nat /\ \A i \in I : found[i] \in DOMAIN tree
  BY DEF Distinct
<1>2. Held \subseteq DOMAIN tree /\ IsFiniteSet(DOMAIN tree)
  BY <1>1 DEF Held, TreeInv, IsTree
<1>3. IsFiniteSet(Held)
  BY <1>2, FS_Subset
<1>4. f \in [I -> Held] /\ (\A i, j \in I : f[i] = f[j] => i = j)
      /\ \A n \in Held : \E i \in I : f[i] = n
  BY DEF Held, Distinct
<1>5. IsFiniteSet(I) /\ Cardinality(I) = Len(found)
  <2>1. 1 \in Int /\ Len(found) \in Int
    BY <1>1
  <2>2. Cardinality(1..Len(found)) = IF 1 > Len(found) THEN 0 ELSE Len(found) - 1 + 1
    BY <2>1, FS_Interval
  <2>3. Cardinality(I) = Len(found)
    BY <1>1, <2>2
  <2>4. IsFiniteSet(I)
    BY <2>1, FS_Interval
  <2> QED BY <2>3, <2>4
<1>6. Cardinality(Held) = Cardinality(I)
  <2> HIDE DEF I, f
  <2>1. f \in Bijection(I, Held)
    BY <1>4 DEF Bijection, Injection, Surjection, IsInjective
  <2>2. ExistsBijection(I, Held)
    BY <2>1 DEF ExistsBijection
  <2> QED BY <1>5, <2>2, FS_Bijection
<1>7. ASSUME NEW q
      PROVE  /\ IsFiniteSet(At(q)) /\ IsFiniteSet(HeldAt(q)) /\ HeldAt(q) \subseteq At(q)
             /\ Cardinality(At(q)) \in Nat /\ Cardinality(HeldAt(q)) \in Nat
  <2>1. HeldAt(q) \subseteq At(q) /\ At(q) \subseteq DOMAIN tree
    BY <1>2 DEF At, HeldAt
  <2>2. IsFiniteSet(At(q))
    BY <1>2, <2>1, FS_Subset
  <2>3. IsFiniteSet(HeldAt(q))
    BY <2>1, <2>2, FS_Subset
  <2> QED BY <2>1, <2>2, <2>3, FS_CardinalityType
<1> QED BY <1>2, <1>3, <1>5, <1>6, <1>7

LEMMA PointsCount ==
  ASSUME TreeInv
  PROVE  points = [q \in {tree[n] : n \in DOMAIN tree} |-> Cardinality(At(q))]
BY DEF TreeInv, IsTree, PointsOf, At

LEMMA FoundCount ==
  ASSUME TreeInv, Distinct
  PROVE  FoundPoints = [q \in {tree[n] : n \in Held} |-> Cardinality(HeldAt(q))]
<1> DEFINE I == 1..Len(found)
           s == [i \in I |-> tree[found[i]]]
           InFound(q) == {i \in I : tree[found[i]] = q}
<1>1. DOMAIN s = I /\ FoundPoints = ToBag(s)
  BY DEF FoundPoints
<1>2. ToBag(s) = [q \in {s[i] : i \in I} |-> Cardinality({i \in I : s[i] = q})]
  BY <1>1 DEF ToBag, Range
<1>3. {s[i] : i \in I} = {tree[n] : n \in Held}
  <2>1. \A i \in I : s[i] = tree[found[i]] /\ found[i] \in Held
    BY DEF Held
  <2>2. \A n \in Held : \E i \in I : n = found[i]
    BY DEF Held
  <2> HIDE DEF s, I
  <2> QED BY <2>1, <2>2
<1>4. ASSUME NEW q PROVE {i \in I : s[i] = q} = InFound(q)
  OBVIOUS
<1>5. ASSUME NEW q PROVE Cardinality(InFound(q)) = Cardinality(HeldAt(q))
  <2> DEFINE f == [i \in InFound(q) |-> found[i]]
  <2>1. f \in [InFound(q) -> HeldAt(q)]
    BY DEF HeldAt, Held
  <2>2. \A i, j \in InFound(q) : f[i] = f[j] => i = j
    BY DEF Distinct
  <2>3. \A n \in HeldAt(q) : \E i \in InFound(q) : f[i] = n
    BY DEF HeldAt, Held
  <2>4. IsFiniteSet(InFound(q))
    <3>1. 1 \in Int /\ Len(found) \in Int
      BY DEF Distinct
    <3>2. IsFiniteSet(I) /\ InFound(q) \subseteq I
      BY <3>1, FS_Interval
    <3> QED BY <3>2, FS_Subset
  <2> HIDE DEF f, InFound
  <2>5. f \in Bijection(InFound(q), HeldAt(q))
    BY <2>1, <2>2, <2>3 DEF Bijection, Injection, Surjection, IsInjective
  <2>6. ExistsBijection(InFound(q), HeldAt(q))
    BY <2>5 DEF ExistsBijection
  <2> QED BY <2>4, <2>6, FS_Bijection
<1> HIDE DEF s, I, InFound
<1> QED BY <1>1, <1>2, <1>3, <1>4, <1>5

\* A point of which some copy is not in the results is the point of a node
\* that is not.
LEMMA LeftOut ==
  ASSUME TreeInv, Distinct, NEW B, DOMAIN B \subseteq DOMAIN points,
         \A q \in DOMAIN B : B[q] = points[q],
         NEW q \in DOMAIN (B (-) FoundPoints)
  PROVE  q \in DOMAIN B /\ \E n \in DOMAIN tree : n \notin Held /\ tree[n] = q
<1>1. q \in DOMAIN B /\ (IF q \in DOMAIN FoundPoints THEN B[q] - FoundPoints[q] ELSE B[q]) > 0
  BY DEF (-)
<1>2. q \in {tree[n] : n \in DOMAIN tree} /\ B[q] = Cardinality(At(q))
  BY <1>1, PointsCount
<1>3. Cardinality(At(q)) \in Nat
  BY HeldCount
<1> SUFFICES ASSUME At(q) = HeldAt(q) PROVE FALSE
  BY <1>1, HeldCount DEF At, HeldAt
<1>4. q \in {tree[n] : n \in Held}
  BY <1>2 DEF At, HeldAt
<1>5. q \in DOMAIN FoundPoints /\ FoundPoints[q] = Cardinality(At(q))
  BY <1>4, FoundCount
<1> QED BY <1>1, <1>2, <1>3, <1>5

LEMMA FoundInPoints ==
  ASSUME TreeInv, Distinct
  PROVE  FoundPoints \sqsubseteq points
<1>1. DOMAIN FoundPoints \subseteq DOMAIN points
  BY PointsCount, FoundCount, HeldCount
<1>2. ASSUME NEW q \in DOMAIN FoundPoints PROVE FoundPoints[q] <= points[q]
  <2>1. FoundPoints[q] = Cardinality(HeldAt(q)) /\ points[q] = Cardinality(At(q))
    BY <1>1, PointsCount, FoundCount
  <2> QED BY <2>1, HeldCount, FS_Subset
<1> QED BY <1>1, <1>2 DEF \sqsubseteq

LEMMA DoneFacts ==
  ASSUME TreeInv, SearchInv, pc = "done", call = "nearby" \/ (call = "nearest" /\ bound > 0)
  PROVE  /\ query \in Queries /\ bound \in Int /\ Distinct
         /\ \A m \in DOMAIN tree : m \in Held \/ Excused(m)
<1>1. query \in Queries /\ bound \in Int /\ stack = <<>>
  BY DEF SearchInv, CallInv
<1>2. Distinct
  BY DEF SearchInv, FoundInv, Distinct
<1>3. Waiting(stack) = {}
  BY <1>1 DEF Waiting
<1>4. \A m \in DOMAIN tree : m \in Held \/ Excused(m)
  BY <1>3 DEF SearchInv, LeftInv
<1> QED BY <1>1, <1>2, <1>4

LEMMA NearbyHolds ==
  TreeOrBuild /\ SearchInv => NearbyIsScan
<1> SUFFICES ASSUME TreeInv, SearchInv, pc = "done", call = "nearby"
             PROVE  /\ FoundPoints \sqsubseteq ScanNearby
                    /\ \A p \in DOMAIN (ScanNearby (-) FoundPoints) : ReckonedBeyond(p, bound)
  BY DEF NearbyIsScan, TreeOrBuild
<1>1. /\ query \in Queries /\ bound \in Int /\ Distinct
      /\ \A m \in DOMAIN tree : m \in Held \/ Excused(m)
  BY DoneFacts
<1>2. /\ DOMAIN ScanNearby = {q \in DOMAIN points : Metres(query, q) <= bound}
      /\ \A q \in DOMAIN ScanNearby : ScanNearby[q] = points[q]
  BY DEF ScanNearby
<1>3. FoundPoints \sqsubseteq ScanNearby
  <2>1. DOMAIN FoundPoints \subseteq DOMAIN points
        /\ \A q \in DOMAIN FoundPoints : FoundPoints[q] <= points[q]
    BY <1>1, FoundInPoints DEF \sqsubseteq
  <2>2. ASSUME NEW q \in DOMAIN FoundPoints PROVE Metres(query, q) <= bound
    <3>1. PICK n \in Held : q = tree[n]
      BY <1>1, FoundCount
    <3> QED BY <3>1 DEF SearchInv, FoundInv, Distance
  <2>3. DOMAIN FoundPoints \subseteq DOMAIN ScanNearby
    BY <1>2, <2>1, <2>2
  <2> QED BY <1>2, <2>1, <2>3 DEF \sqsubseteq
<1>4. ASSUME NEW p \in DOMAIN (ScanNearby (-) FoundPoints) PROVE ReckonedBeyond(p, bound)
  <2>1. DOMAIN ScanNearby \subseteq DOMAIN points
    BY <1>2
  <2>2. p \in DOMAIN ScanNearby /\ \E n \in DOMAIN tree : n \notin Held /\ tree[n] = p
    BY <1>1, <1>2, <2>1, LeftOut
  <2>3. PICK n \in DOMAIN tree : n \notin Held /\ tree[n] = p
    BY <2>2
  <2>4. Excused(n)
    BY <1>1, <2>3
  <2>5. ~(Distance(n) > bound)
    <3>1. Distance(n) <= bound
      BY <1>2, <2>2, <2>3 DEF Distance
    <3>2. Distance(n) \in Nat
      BY <1>1, NodeFacts
    <3> QED BY <1>1, <3>1, <3>2
  <2> QED BY <2>3, <2>4, <2>5 DEF Excused
<1> QED BY <1>3, <1>4

LEMMA NearestHolds ==
  TreeOrBuild /\ SearchInv => NearestIsScan
<1> SUFFICES ASSUME TreeInv, SearchInv, pc = "done", call = "nearest"
             PROVE  /\ FoundPoints \sqsubseteq points
                    /\ Len(found) = ScanLength
                    /\ \A p \in DOMAIN (points (-) FoundPoints) :
                         found # <<>> =>
                           LET worst == Distance(Last(found))
                           IN  Metres(query, p) >= worst \/ Reckoned(p, worst)
  BY DEF NearestIsScan, TreeOrBuild
<1>1. query \in Queries /\ bound \in Int /\ Distinct
  BY DEF SearchInv, CallInv, FoundInv, Distinct
<1>2. /\ IsFiniteSet(Held) /\ Held \subseteq DOMAIN tree /\ Cardinality(Held) = Len(found)
      /\ IsFiniteSet(DOMAIN tree) /\ count = Cardinality(DOMAIN tree) /\ Len(found) \in Nat
  BY <1>1, HeldCount DEF TreeInv, IsTree, Distinct
<1>3. Len(found) <= count /\ count \in Nat
  BY <1>2, FS_Subset, FS_CardinalityType
<1>4. FoundPoints \sqsubseteq points
  BY <1>1, FoundInPoints
<1>5. CASE bound <= 0
  <2>1. found = <<>>
    BY <1>5 DEF SearchInv, CallInv
  <2> QED BY <1>4, <1>5, <2>1 DEF ScanLength
<1>6. CASE bound > 0
  <2>1. \A m \in DOMAIN tree : m \in Held \/ Excused(m)
    BY <1>6, DoneFacts
  <2>2. Len(found) <= bound
    BY <1>6 DEF SearchInv, FoundInv
\* As long as the heap is not full nobody is excused.
  <2>3. Len(found) # bound => Len(found) = count
    <3> SUFFICES ASSUME Len(found) # bound PROVE Len(found) = count
      OBVIOUS
    <3>1. \A m \in DOMAIN tree : m \in Held
      BY <2>1 DEF Excused
    <3>2. Held = DOMAIN tree
      BY <1>2, <3>1
    <3> QED BY <1>2, <3>2
  <2>4. Len(found) = ScanLength
    BY <1>1, <1>2, <1>3, <1>6, <2>2, <2>3 DEF ScanLength
  <2>5. ASSUME NEW p \in DOMAIN (points (-) FoundPoints), found # <<>>
        PROVE  \/ Metres(query, p) >= Distance(Last(found))
               \/ Reckoned(p, Distance(Last(found)))
    <3>1. PICK n \in DOMAIN tree : n \notin Held /\ tree[n] = p
      <4>1. \A q \in DOMAIN points : points[q] = points[q]
        OBVIOUS
      <4> QED BY <1>1, <4>1, LeftOut
    <3>2. Excused(n)
      BY <2>1, <3>1
    <3>3. Last(found) \in Held
      <4>1. Len(found) \in 1..Len(found) /\ Last(found) = found[Len(found)]
        BY <1>1, <1>2, <2>5 DEF Last, Distinct
      <4> QED BY <4>1 DEF Held
    <3>4. Distance(n) >= Distance(Last(found)) \/ Reckoned(tree[n], Distance(Last(found)))
      BY <3>2, <3>3 DEF Excused
    <3> QED BY <3>1, <3>4 DEF Distance
  <2> QED BY <1>4, <2>4, <2>5
<1> QED BY <1>1, <1>5, <1>6

LEMMA TreeAndSearch ==
  Spec => [](TreeOrBuild /\ SearchInv)
<1>1. Init => TreeOrBuild /\ SearchInv
  BY InitTree, InitSearch
<1>2. TreeOrBuild /\ SearchInv /\ [Next]_vars => (TreeOrBuild /\ SearchInv)'
  BY TreeNext, SearchNext
<1> QED BY <1>1, <1>2, PTL DEF Spec

(* FindNearby answers with what the scan of all points finds, each point   *)
(* as often as it was inserted, but for points beyond the radius in the    *)
(* code's reckoning: a subtree is cut off only by a line farther away than *)
(* the radius, and what is beyond the line is farther still.               *)
THEOREM NearbyAnswers == Spec => []NearbyIsScan
BY TreeAndSearch, NearbyHolds, PTL

(* FindKNearest answers with as many points as the scan keeps, and what it *)
(* leaves out is no nearer than the last of them, at least in the code's   *)
(* reckoning: the root of the heap is the farthest, it only comes nearer,  *)
(* and nothing is cut off or replaced until the heap is full.              *)
THEOREM NearestAnswers == Spec => []NearestIsScan
BY TreeAndSearch, NearestHolds, PTL
-----------------------------------------------------------------------------
(* LSH3D.  Sequence s lists set S: every element, each once. *)
Lists(s, S) ==
  /\ s \in Seq(S)
  /\ \A m, n \in 1..Len(s) : s[m] = s[n] => m = n
  /\ \A x \in S : \E n \in 1..Len(s) : s[n] = x

LEMMA ListsNothing == Lists(<<>>, {})
BY DEF Lists

LEMMA ListsMore ==
  ASSUME NEW S, NEW s, Lists(s, S), NEW x, x \notin S
  PROVE  Lists(Append(s, x), S \cup {x})
<1> DEFINE more == Append(s, x)
<1>1. s \in Seq(S) /\ s \in Seq(S \cup {x}) /\ Len(s) \in Nat
  BY DEF Lists
<1>2. /\ more \in Seq(S \cup {x}) /\ Len(more) = Len(s) + 1
      /\ more[Len(s) + 1] = x
      /\ \A n \in 1..Len(s) : more[n] = s[n] /\ s[n] \in S
  BY <1>1
<1>3. \A m, n \in 1..Len(more) : more[m] = more[n] => m = n
  <2> SUFFICES ASSUME NEW m \in 1..Len(more), NEW n \in 1..Len(more), more[m] = more[n]
               PROVE  m = n
    OBVIOUS
  <2> HIDE DEF more
  <2>1. (m \in 1..Len(s) \/ m = Len(s) + 1) /\ (n \in 1..Len(s) \/ n = Len(s) + 1)
    BY <1>1, <1>2
  <2> QED
    BY <1>2, <2>1 DEF Lists
<1>4. \A y \in S \cup {x} : \E n \in 1..Len(more) : more[n] = y
  <2> SUFFICES ASSUME NEW y \in S \cup {x}
               PROVE  \E n \in 1..Len(more) : more[n] = y
    OBVIOUS
  <2> HIDE DEF more
  <2>1. CASE y = x
    <3>1. Len(s) + 1 \in 1..Len(more)
      BY <1>1, <1>2
    <3> QED
      BY <1>2, <2>1, <3>1
  <2>2. CASE y \in S
    <3>1. PICK n \in 1..Len(s) : s[n] = y
      BY <2>2 DEF Lists
    <3>2. n \in 1..Len(more)
      BY <1>1, <1>2
    <3> QED
      BY <1>2, <3>1, <3>2
  <2> QED
    BY <2>1, <2>2
<1> QED
  BY <1>2, <1>3, <1>4 DEF Lists

LEMMA ListsMeans ==
  ASSUME NEW S, NEW s, Lists(s, S)
  PROVE  IsInjective(s) /\ ToSet(s) = S
<1>1. s \in Seq(S) /\ DOMAIN s = 1..Len(s) /\ \A n \in 1..Len(s) : s[n] \in S
  BY DEF Lists
<1>2. IsInjective(s)
  BY <1>1 DEF Lists, IsInjective
<1>3. \A x \in S : \E n \in DOMAIN s : s[n] = x
  BY <1>1 DEF Lists
<1> QED
  BY <1>1, <1>2, <1>3, Zenon DEF ToSet

(* The points added that this table gives this key. *)
Sharing(t, key) == {p \in ToSet(all) : KeyOf[t][p] = key}

(* Every bucket lists the points that share its key. *)
TablesInv ==
  /\ all \in Seq(Cloud)
  /\ DOMAIN tables = TableNumbers
  /\ \A t \in TableNumbers :
       /\ DOMAIN tables[t] = {KeyOf[t][p] : p \in ToSet(all)}
       /\ \A key \in DOMAIN tables[t] : Lists(tables[t][key], Sharing(t, key))

LEMMA AddedFacts ==
  ASSUME TablesInv
  PROVE  /\ ToSet(all) \subseteq Cloud /\ ToSet(all) \subseteq Nat
         /\ \A t \in TableNumbers, p \in ToSet(all) : KeyOf[t][p] \in DOMAIN tables[t]
         /\ \A t \in TableNumbers : \A key : Lists(Bucket(t, key), Sharing(t, key))
<1>1. ToSet(all) \subseteq Cloud /\ ToSet(all) \subseteq Nat
  <2>1. DOMAIN all = 1..Len(all) /\ \A n \in 1..Len(all) : all[n] \in Cloud
    BY DEF TablesInv
  <2> QED
    BY <2>1, CloudAssumption DEF ToSet
<1>2. \A t \in TableNumbers, p \in ToSet(all) : KeyOf[t][p] \in DOMAIN tables[t]
  BY DEF TablesInv
<1>3. ASSUME NEW t \in TableNumbers, NEW key
      PROVE  Lists(Bucket(t, key), Sharing(t, key))
  <2>1. CASE key \in DOMAIN tables[t]
    BY <2>1 DEF TablesInv, Bucket
  <2>2. CASE key \notin DOMAIN tables[t]
    <3>1. Sharing(t, key) = {} /\ Bucket(t, key) = <<>>
      BY <1>2, <2>2 DEF Sharing, Bucket
    <3> QED
      BY <3>1, ListsNothing
  <2> QED
    BY <2>1, <2>2
<1> QED
  BY <1>1, <1>2, <1>3

LEMMA AddKeeps ==
  ASSUME TablesInv, NEW p \in Cloud, Add(p)
  PROVE  TablesInv'
<1>1. all' = Append(all, p) /\ all \in Seq(Cloud) /\ p \notin ToSet(all)
  BY DEF Add, TablesInv
<1>2. all' \in Seq(Cloud)
  BY <1>1
<1>3. ToSet(all)' = ToSet(all) \cup {p}
  <2>1. /\ Len(all) \in Nat /\ Len(all') = Len(all) + 1 /\ all'[Len(all) + 1] = p
        /\ \A n \in 1..Len(all) : all'[n] = all[n]
        /\ DOMAIN all = 1..Len(all) /\ DOMAIN (all') = 1..(Len(all) + 1)
    BY <1>1, <1>2
  <2>2. DOMAIN (all') = DOMAIN all \cup {Len(all) + 1}
    BY <2>1
  <2> QED
    BY <2>1, <2>2 DEF ToSet
<1>4. ASSUME NEW t \in TableNumbers, NEW key
      PROVE  Sharing(t, key)' = IF key = KeyOf[t][p] THEN Sharing(t, key) \cup {p}
                                ELSE Sharing(t, key)
  BY <1>3 DEF Sharing
<1>5. /\ DOMAIN (tables') = TableNumbers
      /\ \A t \in TableNumbers :
           /\ DOMAIN (tables'[t]) = DOMAIN tables[t] \cup {KeyOf[t][p]}
           /\ \A key \in DOMAIN tables[t] \cup {KeyOf[t][p]} :
                tables'[t][key] = IF key = KeyOf[t][p] THEN Append(Bucket(t, key), p)
                                  ELSE tables[t][key]
  BY DEF Add
<1>6. ASSUME NEW t \in TableNumbers
      PROVE  DOMAIN (tables'[t]) = {KeyOf[t][q] : q \in ToSet(all)'}
  BY <1>3, <1>5 DEF TablesInv
<1>7. ASSUME NEW t \in TableNumbers, NEW key \in DOMAIN (tables'[t])
      PROVE  Lists(tables'[t][key], Sharing(t, key)')
  <2>1. CASE key = KeyOf[t][p]
    <3>1. Lists(Bucket(t, key), Sharing(t, key)) /\ p \notin Sharing(t, key)
      BY <1>1, AddedFacts DEF Sharing
    <3>2. tables'[t][key] = Append(Bucket(t, key), p)
      BY <1>5, <2>1
    <3> QED
      BY <1>4, <2>1, <3>1, <3>2, ListsMore
  <2>2. CASE key # KeyOf[t][p]
    <3>1. key \in DOMAIN tables[t] /\ tables'[t][key] = tables[t][key]
      BY <1>5, <2>2
    <3> QED
      BY <1>4, <2>2, <3>1 DEF TablesInv
  <2> QED
    BY <2>1, <2>2
<1> QED
  BY <1>2, <1>5, <1>6, <1>7 DEF TablesInv, Lists, Sharing

LEMMA SameTables ==
  ASSUME TablesInv, UNCHANGED lshIndex
  PROVE  TablesInv' /\ ToSet(all)' = ToSet(all)
<1>1. tables' = tables /\ all' = all
  BY DEF lshIndex
<1>2. ToSet(all)' = ToSet(all)
  BY <1>1 DEF ToSet
<1>3. \A t, key : Sharing(t, key)' = Sharing(t, key)
  BY <1>2 DEF Sharing
<1>4. TablesInv'
  BY <1>1, <1>3 DEF TablesInv
<1> QED
  BY <1>2, <1>4

(* Where a call stands: the bucket it visits is one of its table that is   *)
(* not to be visited any more.                                             *)
PlaceInv ==
  /\ scanned \in {"none", "query", "pairs"}
  /\ scanned = "none" => table = 0 /\ seen = {} /\ hits = <<>>
  /\ table \in 0..Len(KeyOf)
  /\ table = 0 => buckets = {} /\ bucket = <<>>
  /\ first \in Nat \ {0} /\ second \in Nat
  /\ scanned # "query" => first < second
  /\ scanned = "query" /\ table > 0 =>
       \/ buckets = {KeyOf[table][argument]} /\ bucket = <<>>
       \/ buckets = {} /\ bucket = Bucket(table, KeyOf[table][argument])
  /\ scanned = "pairs" /\ table > 0 =>
       /\ buckets \subseteq DOMAIN tables[table]
       /\ \/ bucket = <<>>
          \/ \E key \in DOMAIN tables[table] \ buckets : bucket = tables[table][key]

LEMMA TableNumber ==
  PlaceInv => /\ Len(KeyOf) \in Nat /\ table \in Nat
              /\ table > 0 => table \in TableNumbers
              /\ table < Len(KeyOf) => table + 1 \in TableNumbers
BY CloudAssumption DEF PlaceInv, TableNumbers

LEMMA PlaceNext ==
  ASSUME TablesInv, PlaceInv, [LshNext]_lshVars
  PROVE  PlaceInv'
<1> USE CloudAssumption
<1>1. CASE UNCHANGED lshVars
  BY <1>1 DEF lshVars, lshIndex, loops, PlaceInv, Bucket
<1>2. ASSUME NEW p \in Cloud, Add(p)
      PROVE  PlaceInv'
  BY <1>2 DEF Add, loops, PlaceInv
<1>3. ASSUME NEW kind \in {"query", "pairs"}, NEW arg, Call(kind, arg)
      PROVE  PlaceInv'
  <2>1. table = 0 /\ buckets = {} /\ bucket = <<>> /\ scanned = "none"
    BY <1>3 DEF Call, PlaceInv
  <2> QED
    BY <1>3, <2>1 DEF Call, loops, lshIndex, PlaceInv
<1>4. CASE NextTable
  <2>1. /\ table' = table + 1 /\ table' \in 0..Len(KeyOf) /\ table' > 0
        /\ bucket' = <<>> /\ first' = 1 /\ second' = 2
        /\ UNCHANGED <<lshIndex, scanned, argument>> /\ scanned # "none"
    BY <1>4, TableNumber DEF NextTable, AtFirst, PlaceInv
  <2>2. buckets' = IF scanned = "query" THEN {KeyOf[table'][argument]} ELSE DOMAIN tables[table']
    BY <1>4 DEF NextTable
  <2> QED
    BY <2>1, <2>2 DEF PlaceInv, lshIndex
<1>5. CASE VisitBucket
  <2>1. PICK key \in buckets : /\ bucket' = Bucket(table, key) /\ buckets' = buckets \ {key}
                               /\ first' = 1 /\ second' = 2
    BY <1>5 DEF VisitBucket, AtFirst
  <2>2. UNCHANGED <<tables, scanned, argument, table, seen, hits>> /\ scanned # "none"
    BY <1>5 DEF VisitBucket, lshIndex
  <2>3. table > 0
    BY <2>1, TableNumber DEF PlaceInv
  <2>4. CASE scanned = "query"
    <3>1. buckets = {KeyOf[table][argument]} /\ key = KeyOf[table][argument]
      BY <2>1, <2>3, <2>4 DEF PlaceInv
    <3>2. buckets' = {} /\ bucket' = Bucket(table, KeyOf[table][argument])
      BY <2>1, <3>1
    <3>3. Bucket(table, KeyOf[table][argument])' = Bucket(table, KeyOf[table][argument])
      BY <2>2 DEF Bucket
    <3> QED
      BY <2>1, <2>2, <2>3, <2>4, <3>2, <3>3 DEF PlaceInv
  <2>5. CASE scanned = "pairs"
    <3>1. key \in DOMAIN tables[table] /\ buckets \subseteq DOMAIN tables[table]
      BY <2>1, <2>3, <2>5 DEF PlaceInv
    <3>2. key \in DOMAIN tables[table] \ buckets' /\ bucket' = tables[table][key]
      BY <2>1, <3>1 DEF Bucket
    <3> QED
      BY <2>1, <2>2, <2>3, <2>5, <3>1, <3>2 DEF PlaceInv
  <2> QED
    BY <2>2, <2>4, <2>5 DEF PlaceInv
<1>6. CASE CompareWithPoint
  BY <1>6 DEF CompareWithPoint, lshIndex, PlaceInv, Bucket
<1>7. CASE ComparePair
  BY <1>7 DEF ComparePair, lshIndex, PlaceInv
<1>8. CASE NextFirst
  BY <1>8 DEF NextFirst, lshIndex, PlaceInv
<1>9. CASE HandOver
  BY <1>9 DEF HandOver, AllVisited, AtFirst, PlaceInv
<1> QED
  BY <1>1, <1>2, <1>3, <1>4, <1>5, <1>6, <1>7, <1>8, <1>9 DEF LshNext

-----------------------------------------------------------------------------
(* Query has met whatever it has passed: the points that share a table     *)
(* before this one, and those of this bucket before this place.            *)
Candidate(q) == <<q, Dist[{argument, q}]>>

QueryInv ==
  scanned = "query" =>
    /\ \A q \in seen : q \in ToSet(all) \ {argument} /\ ShareBucket(argument, q)
    /\ \A q \in ToSet(all) \ {argument}, t \in TableNumbers :
         t < table /\ KeyOf[t][argument] = KeyOf[t][q] => q \in seen
    /\ \A n \in 1..Len(bucket) : n < first /\ bucket[n] # argument => bucket[n] \in seen
    /\ Lists(hits, {Candidate(q) : q \in seen})

LEMMA QueryDone ==
  ASSUME TablesInv, PlaceInv, QueryInv, scanned = "query", BucketDone, buckets = {},
         NEW q \in ToSet(all) \ {argument}, NEW t \in TableNumbers, t <= table,
         KeyOf[t][argument] = KeyOf[t][q]
  PROVE  q \in seen
<1>0. table \in Nat /\ t \in Nat \ {0}
  BY TableNumber, CloudAssumption DEF TableNumbers
<1>1. CASE t < table
  BY <1>1 DEF QueryInv
<1>2. CASE t = table
  <2>1. bucket = Bucket(t, KeyOf[t][argument])
    BY <1>0, <1>2 DEF PlaceInv
  <2>2. Lists(bucket, Sharing(t, KeyOf[t][argument]))
    BY <2>1, AddedFacts
  <2>3. PICK n \in 1..Len(bucket) : bucket[n] = q
    BY <2>2 DEF Lists, Sharing
  <2>4. first \in Nat /\ Len(bucket) \in Nat /\ first > Len(bucket)
    BY <2>2 DEF BucketDone, PlaceInv, Lists
  <2>5. n < first
    BY <2>3, <2>4
  <2> QED
    BY <2>3, <2>5 DEF QueryInv
<1> QED
  BY <1>0, <1>1, <1>2

(* What the loop meets is new in the table it is in. *)
LEMMA CompareKeepsQuery ==
  ASSUME TablesInv, PlaceInv, QueryInv, CompareWithPoint
  PROVE  QueryInv'
<1> DEFINE c == bucket[first]
<1>1. /\ scanned = "query" /\ first <= Len(bucket) /\ first' = first + 1
      /\ first \in Nat \ {0}
      /\ UNCHANGED <<tables, all, scanned, argument, table, buckets, bucket>>
  BY DEF CompareWithPoint, PlaceInv, lshIndex
<1>2. /\ table \in TableNumbers
      /\ Lists(bucket, Sharing(table, KeyOf[table][argument]))
  <2>1. bucket # <<>>
    BY <1>1
  <2>2. table > 0 /\ table \in TableNumbers
    BY <2>1, TableNumber DEF PlaceInv
  <2>3. CASE buckets = {} /\ bucket = Bucket(table, KeyOf[table][argument])
    BY <2>2, <2>3, AddedFacts
  <2> QED
    BY <1>1, <2>1, <2>2, <2>3 DEF PlaceInv
<1>3. Len(bucket) \in Nat /\ first \in 1..Len(bucket)
  BY <1>1, <1>2 DEF Lists
<1>4. c \in ToSet(all) /\ KeyOf[table][c] = KeyOf[table][argument]
  BY <1>2, <1>3 DEF Lists, Sharing
<1>5. ToSet(all)' = ToSet(all) /\ \A q : ShareBucket(argument, q)' = ShareBucket(argument, q)
  BY <1>1 DEF ToSet, ShareBucket
<1>6. \A q : Candidate(q)' = Candidate(q)
  BY <1>1 DEF Candidate
<1>7. ShareBucket(argument, c)
  BY <1>2, <1>4 DEF ShareBucket
<1>8. CASE c # argument /\ c \notin seen
  <2>1. seen' = seen \cup {c} /\ hits' = Append(hits, Candidate(c))
    BY <1>8, CompareWithPoint DEF CompareWithPoint, IsNew, Candidate
  <2>2. {Candidate(q)' : q \in seen'} = {Candidate(q) : q \in seen} \cup {Candidate(c)}
    BY <1>6, <2>1
  <2>3. Candidate(c) \notin {Candidate(q) : q \in seen}
    BY <1>8 DEF Candidate
  <2>4. Lists(hits, {Candidate(q) : q \in seen})
    BY <1>1 DEF QueryInv
  <2>5. Lists(hits', {Candidate(q)' : q \in seen'})
    <3> DEFINE met == {Candidate(q) : q \in seen}
               new == Candidate(c)
    <3> HIDE DEF met, new
    <3>1. Lists(hits, met) /\ new \notin met
      BY <2>3, <2>4 DEF met, new
    <3>2. Lists(Append(hits, new), met \cup {new})
      BY <3>1, ListsMore
    <3> QED
      BY <2>1, <2>2, <3>2 DEF met, new
  <2>6. \A n \in 1..Len(bucket) : n < first' /\ bucket[n] # argument => bucket[n] \in seen'
    BY <1>1, <1>3, <2>1 DEF QueryInv
  <2>7. \A q \in seen' : q \in ToSet(all) \ {argument} /\ ShareBucket(argument, q)
    BY <1>1, <1>4, <1>7, <1>8, <2>1 DEF QueryInv
  <2>8. \A q \in ToSet(all) \ {argument}, t \in TableNumbers :
          t < table /\ KeyOf[t][argument] = KeyOf[t][q] => q \in seen'
    BY <1>1, <2>1 DEF QueryInv
  <2> HIDE DEF c
  <2> QED
    BY <1>1, <1>5, <2>5, <2>6, <2>7, <2>8 DEF QueryInv
<1>9. CASE ~(c # argument /\ c \notin seen)
  <2>1. seen' = seen /\ hits' = hits
    BY <1>9, CompareWithPoint DEF CompareWithPoint, IsNew
  <2>2. {Candidate(q)' : q \in seen'} = {Candidate(q) : q \in seen}
    BY <1>6, <2>1
  <2>3. Lists(hits', {Candidate(q)' : q \in seen'})
    BY <1>1, <2>1, <2>2 DEF QueryInv
  <2>6. \A n \in 1..Len(bucket) : n < first' /\ bucket[n] # argument => bucket[n] \in seen'
    BY <1>1, <1>3, <1>9, <2>1 DEF QueryInv
  <2>7. \A q \in seen' : q \in ToSet(all) \ {argument} /\ ShareBucket(argument, q)
    BY <1>1, <2>1 DEF QueryInv
  <2>8. \A q \in ToSet(all) \ {argument}, t \in TableNumbers :
          t < table /\ KeyOf[t][argument] = KeyOf[t][q] => q \in seen'
    BY <1>1, <2>1 DEF QueryInv
  <2> HIDE DEF c
  <2> QED
    BY <1>1, <1>5, <2>3, <2>6, <2>7, <2>8 DEF QueryInv
<1> QED
  BY <1>8, <1>9

LEMMA QueryNext ==
  ASSUME TablesInv, PlaceInv, QueryInv, [LshNext]_lshVars
  PROVE  QueryInv'
<1>1. CASE CompareWithPoint
  BY <1>1, CompareKeepsQuery
<1>2. CASE scanned' # "query"
  BY <1>2 DEF QueryInv
<1>3. ASSUME scanned' = "query", NEW arg, Call("query", arg)
      PROVE  QueryInv'
  <2>1. /\ seen' = {} /\ hits' = <<>> /\ table' = 0 /\ bucket' = <<>>
    BY <1>3 DEF Call, PlaceInv, loops
  <2>2. \A t \in TableNumbers : ~(t < table')
    BY <2>1, CloudAssumption DEF TableNumbers
  <2>3. {Candidate(q)' : q \in seen'} = {}
    BY <2>1
  <2> QED
    <3>1. Lists(hits', {Candidate(q)' : q \in seen'})
      BY <2>1, <2>3, ListsNothing, Zenon
    <3>2. /\ \A q \in seen' : q \in ToSet(all)' \ {argument'} /\ ShareBucket(argument, q)'
          /\ \A n \in 1..Len(bucket') : FALSE
      BY <2>1
    <3> QED
      BY <2>2, <3>1, <3>2 DEF QueryInv
<1>4. ASSUME scanned' = "query", UNCHANGED <<lshIndex, scanned, argument, seen, hits>>
      PROVE  /\ scanned = "query" /\ UNCHANGED <<argument, seen, hits>>
             /\ ToSet(all)' = ToSet(all)
             /\ \A q \in seen' : q \in ToSet(all)' \ {argument'} /\ ShareBucket(argument, q)'
             /\ Lists(hits', {Candidate(q)' : q \in seen'})
  <2>1. ToSet(all)' = ToSet(all) /\ \A q : ShareBucket(argument, q)' = ShareBucket(argument, q)
    BY <1>4, SameTables DEF ShareBucket
  <2>2. \A q : Candidate(q)' = Candidate(q)
    BY <1>4 DEF Candidate
  <2>3. {Candidate(q)' : q \in seen'} = {Candidate(q) : q \in seen}
    BY <1>4, <2>2
  <2> QED
    BY <1>4, <2>1, <2>3 DEF QueryInv
<1>5. CASE scanned' = "query" /\ NextTable
  <2>1. /\ UNCHANGED <<lshIndex, scanned, argument, seen, hits>>
        /\ table' = table + 1 /\ bucket' = <<>> /\ BucketDone /\ buckets = {}
    BY <1>5 DEF NextTable, AtFirst
  <2>2. ASSUME NEW q \in ToSet(all) \ {argument}, NEW t \in TableNumbers,
               t < table', KeyOf[t][argument] = KeyOf[t][q]
        PROVE  q \in seen
    <3>1. t <= table
      BY <2>1, <2>2, TableNumber, CloudAssumption DEF TableNumbers
    <3> QED
      BY <1>5, <2>1, <2>2, <3>1, QueryDone
  <2> QED
    BY <1>4, <1>5, <2>1, <2>2 DEF QueryInv
<1>6. CASE scanned' = "query" /\ VisitBucket
  <2>1. /\ UNCHANGED <<lshIndex, scanned, argument, table, seen, hits>> /\ first' = 1
    BY <1>6 DEF VisitBucket, AtFirst
  <2>2. \A n \in 1..Len(bucket') : ~(n < first')
    BY <2>1
  <2> QED
    BY <1>4, <1>6, <2>1, <2>2 DEF QueryInv
<1>7. CASE scanned' = "query" /\ UNCHANGED lshVars
  BY <1>4, <1>7 DEF QueryInv, lshVars, loops
<1> QED
  BY <1>1, <1>2, <1>3, <1>5, <1>6, <1>7
     DEF LshNext, Add, Call, ComparePair, NextFirst, HandOver, PlaceInv

-----------------------------------------------------------------------------
(* FullScanDuplicates has met every pair of the tables before this one, of *)
(* the buckets of this one that were visited before, and of this bucket    *)
(* before these two places.                                                *)
Near(pair) == Dist[ToSet(pair)] <= argument

Behind(p, q) ==
  \/ \E t \in TableNumbers : t < table /\ KeyOf[t][p] = KeyOf[t][q]
  \/ /\ table > 0 /\ KeyOf[table][p] = KeyOf[table][q]
     /\ KeyOf[table][p] \notin buckets /\ p \notin ToSet(bucket)

IsPair(x) ==
  /\ x \in ToSet(all) \X ToSet(all)
  /\ x[1] < x[2] /\ ShareBucket(x[1], x[2])

Passed(m, n) == m < n /\ (m < first \/ (m = first /\ n < second))

PairsInv ==
  scanned = "pairs" =>
    /\ \A x \in seen : IsPair(x)
    /\ \A p, q \in ToSet(all) : p < q /\ Behind(p, q) => <<p, q>> \in seen
    /\ \A m, n \in 1..Len(bucket) :
         Passed(m, n) => Ordered(bucket[m], bucket[n]) \in seen
    /\ Lists(hits, {x \in seen : Near(x)})

LEMMA PairsBucket ==
  ASSUME TablesInv, PlaceInv, scanned = "pairs", bucket # <<>>
  PROVE  /\ table \in TableNumbers
         /\ \E key \in DOMAIN tables[table] \ buckets :
              bucket = tables[table][key] /\ Lists(bucket, Sharing(table, key))
<1>1. table > 0 /\ table \in TableNumbers
  BY TableNumber DEF PlaceInv
<1> QED
  BY <1>1 DEF PlaceInv, TablesInv

LEMMA BucketPair ==
  ASSUME NEW S, Lists(bucket, S), S \subseteq Nat,
         BucketDone, scanned = "pairs", PlaceInv, PairsInv,
         NEW p \in S, NEW q \in S, p < q
  PROVE  <<p, q>> \in seen
<1>1. PICK m \in 1..Len(bucket) : bucket[m] = p
  BY DEF Lists
<1>2. PICK n \in 1..Len(bucket) : bucket[n] = q
  BY DEF Lists
<1>3. p \in Nat /\ q \in Nat /\ m # n
  BY <1>1, <1>2
<1>4. Len(bucket) \in Nat /\ first \in Nat /\ first >= Len(bucket)
  BY DEF BucketDone, Lists, PlaceInv
<1>5. CASE m < n
  <2>1. Passed(m, n)
    BY <1>1, <1>2, <1>4, <1>5 DEF Passed
  <2>2. Ordered(bucket[m], bucket[n]) = <<p, q>>
    BY <1>1, <1>2, <1>3 DEF Ordered
  <2> QED
    BY <1>1, <1>2, <2>1, <2>2 DEF PairsInv
<1>6. CASE n < m
  <2>1. Passed(n, m)
    BY <1>1, <1>2, <1>4, <1>6 DEF Passed
  <2>2. Ordered(bucket[n], bucket[m]) = <<p, q>>
    BY <1>1, <1>2, <1>3 DEF Ordered
  <2> QED
    BY <1>1, <1>2, <2>1, <2>2 DEF PairsInv
<1>7. m < n \/ n < m
  BY <1>3
<1> QED
  BY <1>5, <1>6, <1>7

LEMMA PairsDone ==
  ASSUME TablesInv, PlaceInv, PairsInv, scanned = "pairs", BucketDone,
         NEW p \in ToSet(all), NEW q \in ToSet(all), p < q,
         NEW t \in TableNumbers, t <= table, KeyOf[t][p] = KeyOf[t][q],
         t = table => KeyOf[t][p] \notin buckets
  PROVE  <<p, q>> \in seen
<1>1. t \in Nat \ {0} /\ table \in Nat
  BY TableNumber, CloudAssumption DEF TableNumbers
<1>2. CASE t < table
  BY <1>2 DEF PairsInv, Behind
<1>3. CASE t = table /\ p \notin ToSet(bucket)
  BY <1>1, <1>3 DEF PairsInv, Behind
<1>4. CASE t = table /\ p \in ToSet(bucket)
  <2>1. bucket # <<>>
    BY <1>4 DEF ToSet
  <2>2. PICK key \in DOMAIN tables[table] \ buckets : Lists(bucket, Sharing(table, key))
    BY <2>1, PairsBucket
  <2>3. p \in Sharing(table, key)
    BY <1>4, <2>2, ListsMeans
  <2>4. q \in Sharing(table, key) /\ Sharing(table, key) \subseteq Nat
    BY <1>4, <2>3, AddedFacts DEF Sharing
  <2> QED
    BY <2>2, <2>3, <2>4, BucketPair
<1> QED
  BY <1>1, <1>2, <1>3, <1>4

(* Two points of a bucket, in either order. *)
LEMMA PairFacts ==
  ASSUME TablesInv, PlaceInv, scanned = "pairs", second <= Len(bucket)
  PROVE  /\ first \in 1..Len(bucket) /\ second \in 1..Len(bucket)
         /\ IsPair(Ordered(bucket[first], bucket[second]))
<1>1. first \in Nat \ {0} /\ second \in Nat /\ first < second
  BY DEF PlaceInv
<1>2. bucket # <<>>
  BY <1>1
<1>3. PICK key \in DOMAIN tables[table] \ buckets : Lists(bucket, Sharing(table, key))
  BY <1>2, PairsBucket
<1>4. table \in TableNumbers /\ Len(bucket) \in Nat
  BY <1>2, <1>3, PairsBucket DEF Lists
<1>5. first \in 1..Len(bucket) /\ second \in 1..Len(bucket)
  BY <1>1, <1>4
<1> DEFINE p == bucket[first]
           q == bucket[second]
<1>6. p \in Sharing(table, key) /\ q \in Sharing(table, key) /\ p # q
  <2>1. bucket \in Seq(Sharing(table, key))
    BY <1>3 DEF Lists
  <2>2. p \in Sharing(table, key) /\ q \in Sharing(table, key)
    BY <1>5, <2>1
  <2>3. first # second
    BY <1>1
  <2> QED
    BY <1>3, <1>5, <2>2, <2>3 DEF Lists
<1> HIDE DEF p, q
<1>7. p \in ToSet(all) /\ q \in ToSet(all) /\ p \in Nat /\ q \in Nat
  BY <1>6, AddedFacts DEF Sharing
<1>8. ShareBucket(p, q) /\ ShareBucket(q, p)
  BY <1>4, <1>6 DEF ShareBucket, Sharing
<1>9. IsPair(Ordered(p, q))
  <2>1. CASE p > q
    BY <1>7, <1>8, <2>1 DEF IsPair, Ordered
  <2>2. CASE ~(p > q)
    BY <1>6, <1>7, <1>8, <2>2 DEF IsPair, Ordered
  <2> QED
    BY <2>1, <2>2
<1> QED
  BY <1>5, <1>9 DEF p, q

LEMMA ComparePairKeeps ==
  ASSUME TablesInv, PlaceInv, PairsInv, ComparePair
  PROVE  PairsInv'
<1> DEFINE pair == Ordered(bucket[first], bucket[second])
           near == {x \in seen : Near(x)}
<1>1. /\ scanned = "pairs" /\ second <= Len(bucket) /\ second' = second + 1
      /\ seen' = seen \cup {pair}
      /\ hits' = IF pair \notin seen /\ Near(pair) THEN Append(hits, pair) ELSE hits
      /\ UNCHANGED <<tables, all, scanned, argument, table, buckets, bucket, first>>
  BY DEF ComparePair, lshIndex, IsNew, Near
<1>2. first \in 1..Len(bucket) /\ second \in 1..Len(bucket) /\ IsPair(pair)
  BY <1>1, PairFacts
<1>3. ToSet(all)' = ToSet(all) /\ ToSet(bucket)' = ToSet(bucket)
  BY <1>1 DEF ToSet
<1>4. /\ \A x : IsPair(x)' = IsPair(x)
      /\ \A p, q : Behind(p, q)' = Behind(p, q)
      /\ \A x : Near(x)' = Near(x)
  BY <1>1, <1>3 DEF IsPair, ShareBucket, Behind, Near
<1>5. \A x \in seen' : IsPair(x)'
  <2> HIDE DEF pair
  <2> QED
    BY <1>1, <1>2, <1>4 DEF PairsInv
<1>6. \A p, q \in ToSet(all)' : p < q /\ Behind(p, q)' => <<p, q>> \in seen'
  BY <1>1, <1>3, <1>4 DEF PairsInv
<1>7. ASSUME NEW m \in 1..Len(bucket), NEW n \in 1..Len(bucket), Passed(m, n)'
      PROVE  Ordered(bucket[m], bucket[n]) \in seen'
  <2>1. Passed(m, n) \/ (m = first /\ n = second)
    BY <1>1, <1>2, <1>7 DEF Passed
  <2>2. CASE Passed(m, n)
    BY <1>1, <2>2 DEF PairsInv
  <2>3. CASE m = first /\ n = second
    BY <1>1, <2>3
  <2> QED
    BY <2>1, <2>2, <2>3
<1>8. Lists(hits', {x \in seen' : Near(x)'})
  <2> DEFINE nearNow == {x \in seen' : Near(x)'}
  <2> HIDE DEF pair
  <2>1. Lists(hits, near)
    BY <1>1 DEF PairsInv
  <2>2. CASE pair \notin seen /\ Near(pair)
    <3>1. nearNow = near \cup {pair} /\ pair \notin near
      BY <1>1, <1>4, <2>2
    <3>2. hits' = Append(hits, pair)
      BY <1>1, <2>2
    <3> HIDE DEF near, nearNow
    <3>3. Lists(Append(hits, pair), near \cup {pair})
      BY <2>1, <3>1, ListsMore
    <3> QED
      BY <3>1, <3>2, <3>3 DEF nearNow
  <2>3. CASE ~(pair \notin seen /\ Near(pair))
    <3>1. nearNow = near
      BY <1>1, <1>4, <2>3
    <3>2. hits' = hits
      BY <1>1, <2>3
    <3> HIDE DEF near, nearNow
    <3> QED
      BY <2>1, <3>1, <3>2 DEF nearNow
  <2> QED
    BY <2>2, <2>3
<1> HIDE DEF pair, near
<1> QED
  BY <1>1, <1>5, <1>6, <1>7, <1>8 DEF PairsInv, Ordered

(* What every step of the call but the comparisons leaves. *)
LEMMA SameMet ==
  ASSUME PairsInv, scanned' = "pairs",
         UNCHANGED <<lshIndex, scanned, argument, seen, hits>>
  PROVE  /\ scanned = "pairs" /\ ToSet(all)' = ToSet(all)
         /\ \A x \in seen' : IsPair(x)'
         /\ Lists(hits', {x \in seen' : Near(x)'})
<1>1. /\ ToSet(all)' = ToSet(all) /\ scanned = "pairs"
      /\ UNCHANGED <<all, argument, seen, hits>>
  BY DEF lshIndex, ToSet
<1>2. /\ \A x : IsPair(x)' = IsPair(x)
      /\ \A x : Near(x)' = Near(x)
  BY <1>1 DEF IsPair, ShareBucket, Near
<1>3. {x \in seen' : Near(x)'} = {x \in seen : Near(x)}
  BY <1>1, <1>2
<1> QED
  BY <1>1, <1>2, <1>3 DEF PairsInv

LEMMA PairsNext ==
  ASSUME TablesInv, PlaceInv, PairsInv, [LshNext]_lshVars
  PROVE  PairsInv'
<1>1. CASE ComparePair
  BY <1>1, ComparePairKeeps
<1>2. CASE scanned' # "pairs"
  BY <1>2 DEF PairsInv
<1>3. ASSUME scanned' = "pairs", NEW arg, Call("pairs", arg)
      PROVE  PairsInv'
  <2>1. /\ seen' = {} /\ hits' = <<>> /\ table' = 0 /\ bucket' = <<>>
    BY <1>3 DEF Call, PlaceInv, loops
  <2>2. \A p, q : ~Behind(p, q)'
    BY <2>1, CloudAssumption DEF Behind, TableNumbers
  <2>3. {x \in seen' : Near(x)'} = {}
    BY <2>1
  <2>4. Lists(hits', {x \in seen' : Near(x)'})
    BY <2>1, <2>3, ListsNothing, Zenon
  <2>5. (\A x \in seen' : IsPair(x)') /\ \A m \in 1..Len(bucket') : FALSE
    BY <2>1
  <2> QED
    BY <2>2, <2>4, <2>5 DEF PairsInv
<1>4. CASE scanned' = "pairs" /\ NextTable
  <2>1. /\ UNCHANGED <<lshIndex, scanned, argument, seen, hits>> /\ scanned = "pairs"
        /\ table' = table + 1 /\ bucket' = <<>> /\ BucketDone /\ buckets = {}
        /\ buckets' = DOMAIN tables[table'] /\ table' \in TableNumbers
    BY <1>4, TableNumber DEF NextTable, AtFirst
  <2>2. ASSUME NEW p \in ToSet(all), NEW q \in ToSet(all), p < q, Behind(p, q)'
        PROVE  <<p, q>> \in seen
    <3>1. KeyOf[table'][p] \in buckets'
      BY <2>1, AddedFacts
    <3>2. PICK t \in TableNumbers : t < table' /\ KeyOf[t][p] = KeyOf[t][q]
      BY <2>2, <3>1 DEF Behind
    <3>3. t <= table
      BY <2>1, <3>2, TableNumber, CloudAssumption DEF TableNumbers
    <3> QED
      BY <2>1, <2>2, <3>2, <3>3, PairsDone
  <2>3. \A m \in 1..Len(bucket') : FALSE
    BY <2>1
  <2> QED
    BY <1>4, <2>1, <2>2, <2>3, SameMet DEF PairsInv
<1>5. CASE scanned' = "pairs" /\ VisitBucket
  <2>1. PICK key \in buckets : bucket' = Bucket(table, key) /\ buckets' = buckets \ {key}
    BY <1>5 DEF VisitBucket, AtFirst
  <2>2. /\ UNCHANGED <<lshIndex, scanned, argument, table, seen, hits>> /\ scanned = "pairs"
        /\ first' = 1 /\ second' = 2 /\ BucketDone
    BY <1>5 DEF VisitBucket, AtFirst
  <2>3. table > 0 /\ table \in TableNumbers
    BY <2>1, TableNumber DEF PlaceInv
  <2>4. ToSet(bucket') = Sharing(table, key)
    BY <2>1, <2>3, AddedFacts, ListsMeans
  <2>5. ASSUME NEW p \in ToSet(all), NEW q \in ToSet(all), p < q, Behind(p, q)'
        PROVE  <<p, q>> \in seen
    <3>1. CASE \E t \in TableNumbers : t < table /\ KeyOf[t][p] = KeyOf[t][q]
      BY <2>2, <2>5, <3>1 DEF PairsInv, Behind
    <3>2. CASE /\ KeyOf[table][p] = KeyOf[table][q]
               /\ KeyOf[table][p] \notin buckets' /\ p \notin ToSet(bucket')
      <4>1. KeyOf[table][p] # key
        BY <2>4, <3>2 DEF Sharing
      <4>2. KeyOf[table][p] \notin buckets
        BY <2>1, <3>2, <4>1
      <4>3. table <= table
        BY TableNumber
      <4> QED
        BY <2>2, <2>3, <2>5, <3>2, <4>2, <4>3, PairsDone
    <3>3. ToSet(bucket)' = ToSet(bucket')
      BY DEF ToSet
    <3> QED
      BY <2>2, <2>5, <3>1, <3>2, <3>3 DEF Behind
  <2>6. \A m, n \in 1..Len(bucket') : ~Passed(m, n)'
    BY <2>2 DEF Passed
  <2> QED
    BY <1>5, <2>2, <2>5, <2>6, SameMet DEF PairsInv
<1>6. CASE scanned' = "pairs" /\ NextFirst
  <2>1. /\ UNCHANGED <<lshIndex, scanned, argument, table, buckets, bucket, seen, hits>>
        /\ first' = first + 1 /\ second' = first + 2 /\ second > Len(bucket)
        /\ scanned = "pairs" /\ bucket # <<>>
    BY <1>6 DEF NextFirst, PlaceInv
  <2>2. \A p, q : Behind(p, q)' = Behind(p, q)
    BY <2>1 DEF Behind, ToSet
  <2>3. first \in Nat /\ second \in Nat /\ Len(bucket) \in Nat
    BY <2>1, PairsBucket DEF PlaceInv, Lists
  <2>4. \A m, n \in 1..Len(bucket) : Passed(m, n)' => Passed(m, n)
    BY <2>1, <2>3 DEF Passed
  <2> QED
    BY <1>6, <2>1, <2>2, <2>4, SameMet DEF PairsInv, Ordered
<1>7. CASE scanned' = "pairs" /\ UNCHANGED lshVars
  <2>1. /\ UNCHANGED <<lshIndex, scanned, argument, table, buckets, bucket, seen, hits>>
        /\ UNCHANGED <<first, second>>
    BY <1>7 DEF lshVars, loops
  <2>2. \A p, q : Behind(p, q)' = Behind(p, q)
    BY <2>1 DEF Behind, ToSet
  <2>3. \A m, n : Passed(m, n)' = Passed(m, n)
    BY <2>1 DEF Passed
  <2> QED
    BY <1>7, <2>1, <2>2, <2>3, SameMet DEF PairsInv, Ordered
<1> QED
  BY <1>1, <1>2, <1>3, <1>4, <1>5, <1>6, <1>7
     DEF LshNext, Add, Call, CompareWithPoint, HandOver, PlaceInv

LEMMA TablesNext ==
  ASSUME TablesInv, [LshNext]_lshVars
  PROVE  TablesInv'
<1>1. ASSUME NEW p \in Cloud, Add(p)
      PROVE  TablesInv'
  BY <1>1, AddKeeps
<1>2. CASE UNCHANGED lshIndex
  BY <1>2, SameTables
<1> QED
  BY <1>1, <1>2
     DEF LshNext, Call, NextTable, VisitBucket, CompareWithPoint, ComparePair,
         NextFirst, HandOver, lshVars

LEMMA InitScan == LshInit => TablesInv /\ PlaceInv /\ QueryInv /\ PairsInv
<1> SUFFICES ASSUME LshInit
             PROVE  TablesInv /\ PlaceInv /\ QueryInv /\ PairsInv
  OBVIOUS
<1>1. ToSet(all) = {} /\ all \in Seq(Cloud)
  BY DEF LshInit, ToSet
<1>2. TablesInv
  BY <1>1 DEF LshInit, TablesInv, TableNumbers
<1> QED
  BY <1>2, CloudAssumption DEF LshInit, PlaceInv, QueryInv, PairsInv

(* What the two calls hand over. *)
LEMMA CallsAreExact ==
  ASSUME TablesInv, PlaceInv, QueryInv, PairsInv
  PROVE  EachPairOnce
<1> SUFFICES ASSUME AllVisited
             PROVE  EachPairOnce
  BY DEF EachPairOnce
<1>1. /\ buckets = {} /\ BucketDone /\ \A t \in TableNumbers : t <= table
      /\ scanned = "query" \/ scanned = "pairs"
  BY CloudAssumption DEF AllVisited, PlaceInv, TableNumbers
<1>2. CASE scanned = "query"
  <2>1. IsInjective(hits) /\ ToSet(hits) = {Candidate(q) : q \in seen}
    <3> DEFINE met == {Candidate(q) : q \in seen}
    <3>1. Lists(hits, met)
      BY <1>2 DEF QueryInv
    <3> HIDE DEF met
    <3>2. IsInjective(hits) /\ ToSet(hits) = met
      BY <3>1, ListsMeans
    <3> QED
      BY <3>2 DEF met
  <2>2. seen = {q \in ToSet(all) \ {argument} : ShareBucket(argument, q)}
    BY <1>1, <1>2, QueryDone DEF QueryInv, ShareBucket
  <2> QED
    BY <1>2, <2>1, <2>2 DEF EachPairOnce, Candidate
<1>3. CASE scanned = "pairs"
  <2>1. IsInjective(hits) /\ ToSet(hits) = {x \in seen : Near(x)}
    <3> DEFINE met == {x \in seen : Near(x)}
    <3>1. Lists(hits, met)
      BY <1>3 DEF PairsInv
    <3> HIDE DEF met
    <3>2. IsInjective(hits) /\ ToSet(hits) = met
      BY <3>1, ListsMeans
    <3> QED
      BY <3>2 DEF met
  <2>2. \A x : x \in seen <=> IsPair(x)
    <3>1. ASSUME NEW x, IsPair(x)
          PROVE  x \in seen
      <4>1. PICK p \in ToSet(all), q \in ToSet(all) : x = <<p, q>> /\ p < q /\ ShareBucket(p, q)
        BY <3>1 DEF IsPair
      <4>2. PICK t \in TableNumbers : KeyOf[t][p] = KeyOf[t][q]
        BY <4>1 DEF ShareBucket
      <4> QED
        BY <1>1, <1>3, <4>1, <4>2, PairsDone
    <3> QED
      BY <1>3, <3>1 DEF PairsInv
  <2>3. ToSet(hits) = {x \in ToSet(all) \X ToSet(all) :
                         x[1] < x[2] /\ ShareBucket(x[1], x[2]) /\ Near(x)}
    BY <2>1, <2>2 DEF IsPair
  <2> QED
    BY <1>3, <2>1, <2>3 DEF EachPairOnce, Near
<1> QED
  BY <1>1, <1>2, <1>3

(* For any points, keys and distances, both searches of the hashed cloud   *)
(* report what shares a bucket of some table, once, however the buckets of *)
(* a table are ordered.                                                    *)
THEOREM CloudAnswers == LshSpec => []EachPairOnce
<1> DEFINE ScanInv == TablesInv /\ PlaceInv /\ QueryInv /\ PairsInv
<1>1. LshInit => ScanInv
  BY InitScan
<1>2. ScanInv /\ [LshNext]_lshVars => ScanInv'
  BY TablesNext, PlaceNext, QueryNext, PairsNext
<1>3. ScanInv => EachPairOnce
  BY CallsAreExact
<1> QED
  BY <1>1, <1>2, <1>3, PTL DEF LshSpec

-----------------------------------------------------------------------------
(* GeoIndex.  The bisections of a geohash: the intervals from the whole    *)
(* axis down to a cell.                                                    *)

Halvings(h, v, start, n) == h = [m \in 0..n |-> IF m = 0 THEN start ELSE Halve(v, h[m - 1])]

\* The steps of a bisection are as many as its bits.
LEMMA BisectionExists ==
  ASSUME NEW v, NEW start, NEW n \in Nat
  PROVE  \E h : Halvings(h, v, start, n)
<1> USE DEF Halvings
<1> DEFINE Solves(h, k) == h = [m \in 0..k |-> IF m = 0 THEN start ELSE Halve(v, h[m - 1])]
           T == {k \in 0..n : ~ \E h : Solves(h, k)}
<1> SUFFICES ASSUME T # {} PROVE FALSE
  <2>1. n \in 0..n /\ (n \notin T => \E h : Solves(h, n))
    <3> HIDE DEF Solves
    <3> QED OBVIOUS
  <2> HIDE DEF T
  <2>2. T = {} => n \notin T
    OBVIOUS
  <2> QED BY <2>1, <2>2
<1>1. PICK k \in T : \A j \in T : k <= j
  <2>1. T \in SUBSET Nat
    <3> HIDE DEF Solves
    <3> QED OBVIOUS
  <2> HIDE DEF T
  <2> QED BY <2>1, LeastExists
<1>2. k # 0
  <2>1. Solves([m \in 0..0 |-> start], 0)
    OBVIOUS
  <2> QED BY <2>1
<1>3. k - 1 \in 0..n /\ k - 1 \notin T /\ k \in Nat
  <2>1. k \in 0..n
    OBVIOUS
  <2>2. k - 1 \in 0..n /\ ~(k <= k - 1) /\ k \in Nat
    BY <1>2, <2>1
  <2> HIDE DEF T
  <2> QED BY <1>1, <2>2
<1>4. PICK h : Solves(h, k - 1)
  BY <1>3
<1> DEFINE g == [m \in 0..k |-> IF m = 0 THEN start ELSE Halve(v, h[m - 1])]
<1>5. \A m \in 0..(k - 1) : g[m] = h[m]
  <2> SUFFICES ASSUME NEW m \in 0..(k - 1) PROVE g[m] = h[m]
    OBVIOUS
  <2>1. m \in 0..k
    BY <1>3
  <2> QED BY <1>4, <2>1
<1>6. ASSUME NEW m \in 0..k
      PROVE  g[m] = IF m = 0 THEN start ELSE Halve(v, g[m - 1])
  <2>1. CASE m = 0
    BY <2>1
  <2>2. CASE m # 0
    <3>1. m - 1 \in 0..(k - 1)
      BY <1>3, <2>2
    <3> QED BY <1>5, <2>2, <3>1
  <2> QED BY <2>1, <2>2
<1>7. Solves(g, k)
  <2>1. g = [m \in 0..k |-> g[m]]
    OBVIOUS
  <2> HIDE DEF g
  <2> QED BY <1>6, <2>1
<1> QED BY <1>7

\* The interval with its number, of those of size u from -half on: what is below it, or
\* above it, does not hold v, if there is anything.
\* b is the interval of its number among n of size u, and holds v or is at that end.
HalvedTo(b, v, half, n, u) ==
  /\ b.number \in 0..(n - 1)
  /\ b.low = b.number * u - half /\ b.high = b.number * u + u - half
  /\ b.low <= v \/ b.number = 0
  /\ v < b.high \/ b.number = n - 1

LEMMA HalveStep ==
  ASSUME NEW v \in Int, NEW half \in Int, NEW n \in Nat \ {0}, NEW u \in Nat, NEW b,
         HalvedTo(b, v, half, n, 2 * u)
  PROVE  HalvedTo(Halve(v, b), v, half, 2 * n, u)
<1> DEFINE k == b.number
           x == k * u
           mid == (b.low + b.high) \div 2
<1>1. k \in Nat /\ k <= n - 1
  BY DEF HalvedTo
<1>2. /\ k * (2 * u) = 2 * x /\ (2 * k) * u = 2 * x /\ (2 * k + 1) * u = 2 * x + u
      /\ x \in Nat
  <2> HIDE DEF k
  <2> QED BY <1>1
<1>3. /\ b.low = 2 * x - half /\ b.high = 2 * x + 2 * u - half
      /\ b.low <= v \/ k = 0
      /\ v < b.high \/ k = n - 1
  <2> HIDE DEF x
  <2> QED BY <1>2 DEF HalvedTo
<1> HIDE DEF x
<1>4. mid = 2 * x + u - half
  BY <1>2, <1>3
<1>5. CASE v >= mid
  <2>1. Halve(v, b) = [number |-> 2 * k + 1, low |-> mid, high |-> b.high]
    BY <1>5 DEF Halve
  <2> HIDE DEF k, mid
  <2> QED BY <1>1, <1>2, <1>3, <1>4, <1>5, <2>1 DEF HalvedTo
<1>6. CASE ~(v >= mid)
  <2>1. Halve(v, b) = [number |-> 2 * k, low |-> b.low, high |-> mid]
    BY <1>6 DEF Halve
  <2> HIDE DEF k, mid
  <2> QED BY <1>1, <1>2, <1>3, <1>4, <1>6, <2>1 DEF HalvedTo
<1> QED BY <1>5, <1>6

\* A bisection finds the interval that holds v, and its number.
LEMMA BisectionFinds ==
  ASSUME NEW v \in Int, NEW bits \in Nat, bits <= LngBits, LngBits \in Nat,
         NEW err \in Nat, NEW half \in Int, err * 2 ^ bits = half
  PROVE  \E b : Bisected(v, half, bits) = b.number /\ HalvedTo(b, v, half, 2 ^ bits, 2 * err)
<1> DEFINE start == [number |-> 0, low |-> -half, high |-> half]
           after == CHOOSE h : Halvings(h, v, start, bits)
           Pow(n) == 2 ^ n
           unit(m) == 2 * (err * Pow(bits - m))
           Good(m) == HalvedTo(after[m], v, half, Pow(m), unit(m))
           T == {m \in 0..bits : ~Good(m)}
<1>1. Bisected(v, half, bits) = after[bits].number
  BY DEF Bisected, Halvings
<1>2. Halvings(after, v, start, bits)
  <2> HIDE DEF start
  <2> QED BY BisectionExists
<1> HIDE DEF after
<1>3. after[0] = start /\ \A m \in 1..bits : after[m] = Halve(v, after[m - 1])
  <2> HIDE DEF start
  <2> QED BY <1>2 DEF Halvings
<1>4. /\ Pow(0) = 1
      /\ \A n \in 0..bits : Pow(n) \in Nat \ {0} /\ Pow(n + 1) = 2 * Pow(n)
  <2>1. \A n \in 0..bits : n \in 0..LngBits
    OBVIOUS
  <2> QED BY <2>1, PowersAssumption
<1>5. err * Pow(bits) = half
  OBVIOUS
<1> HIDE DEF Pow
<1>6. Good(0)
  <2>1. unit(0) = 2 * half
    BY <1>5
  <2>2. HalvedTo(start, v, half, 1, 2 * half)
    BY DEF HalvedTo
  <2> QED BY <1>3, <1>4, <2>1, <2>2
<1>7. ASSUME NEW m \in 1..bits, Good(m - 1) PROVE Good(m)
  <2>1. /\ m - 1 \in 0..bits /\ bits - m \in 0..bits /\ (m - 1) + 1 = m
        /\ (bits - m) + 1 = bits - (m - 1)
    OBVIOUS
  <2>2. Pow(m) = 2 * Pow(m - 1) /\ Pow(m - 1) \in Nat \ {0}
    BY <1>4, <2>1
  <2>3. Pow(bits - (m - 1)) = 2 * Pow(bits - m) /\ Pow(bits - m) \in Nat
    BY <1>4, <2>1
  <2>4. unit(m - 1) = 2 * unit(m) /\ unit(m) \in Nat
    <3> DEFINE q == Pow(bits - m)
    <3>1. q \in Nat /\ Pow(bits - (m - 1)) = 2 * q
      BY <2>3
    <3> HIDE DEF q
    <3>2. err * (2 * q) = 2 * (err * q) /\ err * q \in Nat
      BY <3>1
    <3> QED BY <3>1, <3>2 DEF q
  <2>5. HalvedTo(after[m - 1], v, half, Pow(m - 1), 2 * unit(m))
    BY <1>7, <2>4
  <2> HIDE DEF unit
  <2>6. HalvedTo(Halve(v, after[m - 1]), v, half, 2 * Pow(m - 1), unit(m))
    BY <2>2, <2>4, <2>5, HalveStep
  <2> QED BY <1>3, <2>2, <2>6
<1>8. T = {}
  <2> SUFFICES ASSUME T # {} PROVE FALSE
    OBVIOUS
  <2>1. PICK m \in T : \A k \in T : m <= k
    <3>1. T \in SUBSET Nat
      <4> HIDE DEF Good
      <4> QED OBVIOUS
    <3> HIDE DEF T
    <3> QED BY <3>1, LeastExists
  <2> HIDE DEF Good
  <2>2. m \in 0..bits /\ ~Good(m)
    OBVIOUS
  <2>3. m # 0
    BY <1>6, <2>2
  <2>4. m \in 1..bits /\ m - 1 \in 0..bits /\ ~(m <= m - 1)
    BY <2>2, <2>3
  <2>5. Good(m - 1)
    <3>1. m - 1 \notin T
      <4> HIDE DEF T
      <4> QED BY <2>1, <2>4
    <3> QED BY <2>4, <3>1
  <2> QED BY <1>7, <2>2, <2>4, <2>5
<1>9. Good(bits)
  <2> HIDE DEF Good
  <2> QED BY <1>8
<1>10. unit(bits) = 2 * err
  <2>1. bits - bits = 0
    OBVIOUS
  <2> QED BY <1>4, <2>1
<1>11. HalvedTo(after[bits], v, half, 2 ^ bits, 2 * err)
  BY <1>9, <1>10 DEF Pow
<1> QED BY <1>1, <1>11

LEMMA ProductsAscend ==
  ASSUME NEW a \in Int, NEW b \in Int, NEW w \in Nat, a <= b
  PROVE  a * w <= b * w
<1>1. PICK d \in Nat : b = a + d
  <2>1. b - a \in Nat /\ b = a + (b - a)
    OBVIOUS
  <2> QED BY <2>1
<1>2. b * w = a * w + d * w /\ d * w \in Nat /\ a * w \in Int
  BY <1>1
<1> QED BY <1>2

\* There is no other interval that holds v, and the ends stand for what lies beyond.
LEMMA NumberFound ==
  ASSUME NEW v \in Int, NEW half \in Int, NEW n \in Nat \ {0}, NEW w \in Nat \ {0}, NEW b,
         HalvedTo(b, v, half, n, w), n * w = 2 * half
  PROVE  /\ b.number \in 0..(n - 1)
         /\ v >= half => b.number = n - 1
         /\ v <= -half => b.number = 0
         /\ \A j \in 0..(n - 1) : j * w <= v + half /\ v + half < j * w + w => b.number = j
<1> DEFINE k == b.number
           x == k * w
<1>1. k \in 0..(n - 1)
  BY DEF HalvedTo
<1>2. /\ x <= v + half \/ k = 0
      /\ v + half < x + w \/ k = n - 1
      /\ x \in Int
  <2>1. k \in Int
    BY <1>1
  <2>2. x \in Int
    <3> HIDE DEF k
    <3> QED BY <2>1
  <2> HIDE DEF x
  <2>3. b.low = x - half /\ b.high = x + w - half
    BY DEF HalvedTo, x
  <2> QED BY <2>2, <2>3 DEF HalvedTo
<1> HIDE DEF k
<1>3. (k + 1) * w = x + w
  BY <1>1
<1>4. ASSUME v >= half PROVE k = n - 1
  <2> SUFFICES ASSUME k # n - 1 PROVE FALSE
    OBVIOUS
  <2>1. (k + 1) * w <= n * w
    BY <1>1, ProductsAscend
  <2> HIDE DEF x
  <2>2. v + half < 2 * half
    BY <1>2, <1>3, <2>1
  <2> QED BY <1>4, <2>2
<1>5. ASSUME v <= -half PROVE k = 0
  <2> SUFFICES ASSUME k # 0 PROVE FALSE
    OBVIOUS
  <2>1. 1 * w <= k * w
    BY <1>1, ProductsAscend
  <2>2. x >= w
    BY <2>1
  <2> HIDE DEF x
  <2> QED BY <1>2, <1>5, <2>2
<1>6. ASSUME NEW j \in 0..(n - 1), j * w <= v + half, v + half < j * w + w PROVE k = j
  <2> DEFINE y == j * w
  <2>1. y \in Int /\ (j + 1) * w = y + w /\ y <= v + half /\ v + half < y + w
    BY <1>6
  <2>2. CASE k < j
    <3>1. (k + 1) * w <= y
      BY <1>1, <2>2, ProductsAscend
    <3>2. k # n - 1
      BY <1>1, <2>2
    <3> HIDE DEF x, y
    <3> QED BY <1>2, <1>3, <2>1, <3>1, <3>2
  <2>3. CASE j < k
    <3>1. (j + 1) * w <= x
      BY <1>1, <2>3, ProductsAscend
    <3>2. k # 0
      BY <1>1, <2>3
    <3> HIDE DEF x, y
    <3> QED BY <1>2, <2>1, <3>1, <3>2
  <2> QED BY <1>1, <2>2, <2>3
<1> QED BY <1>1, <1>4, <1>5, <1>6 DEF k

-----------------------------------------------------------------------------
(* The cells and their neighbours.                                         *)

\* All cells.
World == [row : 0..(Rows - 1), col : 0..(Columns - 1)]

LEMMA WorldSizes ==
  /\ LatBits \in Nat /\ LngBits \in Nat /\ LatBits <= LngBits
  /\ Rows \in Nat \ {0} /\ Columns \in Nat \ {0}
  /\ LatErr \in Nat \ {0} /\ LngErr \in Nat \ {0}
  /\ 90 * Degree \in Nat /\ LatErr * Rows = 90 * Degree
  /\ 180 * Degree \in Nat /\ LngErr * Columns = 180 * Degree
<1>1. LatBits \in Nat /\ LngBits \in Nat /\ LatBits <= LngBits
  BY UnitsAssumption DEF LatBits, LngBits
<1>2. Rows \in Nat \ {0} /\ Columns \in Nat \ {0}
  BY <1>1, PowersAssumption DEF Rows, Columns
<1>3. ASSUME NEW r \in Nat \ {0}, NEW d \in Nat \ {0}, (d \div r) * r = d
      PROVE  d \div r \in Nat \ {0}
  <2>1. d \div r \in Int
    OBVIOUS
  <2> DEFINE q == d \div r
  <2> HIDE DEF q
  <2>2. q \in Int /\ q * r = d
    BY <1>3, <2>1 DEF q
  <2>3. ASSUME q <= 0 PROVE FALSE
    <3>1. q * r <= 0 * r
      BY <2>2, <2>3, ProductsAscend
    <3>2. 0 * r = 0
      OBVIOUS
    <3> QED BY <2>2, <3>1, <3>2
  <2>4. q \in Nat \ {0}
    BY <2>2, <2>3
  <2> QED BY <2>4 DEF q
<1>4. 90 * Degree \in Nat \ {0} /\ 180 * Degree \in Nat \ {0}
  BY UnitsAssumption
<1>5. (90 * Degree) \div Rows \in Nat \ {0}
  <2>1. ((90 * Degree) \div Rows) * Rows = 90 * Degree
    BY UnitsAssumption DEF LatErr
  <2> QED BY <1>2, <1>3, <1>4, <2>1
<1>6. (180 * Degree) \div Columns \in Nat \ {0}
  <2>1. ((180 * Degree) \div Columns) * Columns = 180 * Degree
    BY UnitsAssumption DEF LngErr
  <2> QED BY <1>2, <1>3, <1>4, <2>1
<1> QED BY <1>1, <1>2, <1>4, <1>5, <1>6, UnitsAssumption DEF LatErr, LngErr

\* The rows and columns that a latitude and a longitude lead to.
RowOf(v) == Bisected(v, 90 * Degree, LatBits)
ColOf(v) == Bisected(v, 180 * Degree, LngBits)

LEMMA AxisFound ==
  ASSUME NEW v \in Int
  PROVE  /\ \E b : RowOf(v) = b.number /\ HalvedTo(b, v, 90 * Degree, Rows, 2 * LatErr)
         /\ \E b : ColOf(v) = b.number /\ HalvedTo(b, v, 180 * Degree, Columns, 2 * LngErr)
<1>1. LatErr * 2 ^ LatBits = 90 * Degree /\ LngErr * 2 ^ LngBits = 180 * Degree
  BY WorldSizes DEF Rows, Columns
<1>2. \E b : RowOf(v) = b.number /\ HalvedTo(b, v, 90 * Degree, Rows, 2 * LatErr)
  BY <1>1, WorldSizes, BisectionFinds DEF RowOf, Rows
<1>3. \E b : ColOf(v) = b.number /\ HalvedTo(b, v, 180 * Degree, Columns, 2 * LngErr)
  BY <1>1, WorldSizes, BisectionFinds DEF ColOf, Columns
<1> QED BY <1>2, <1>3

LEMMA RowFound ==
  ASSUME NEW v \in Int
  PROVE  /\ RowOf(v) \in 0..(Rows - 1)
         /\ v >= 90 * Degree => RowOf(v) = Rows - 1
         /\ v <= -(90 * Degree) => RowOf(v) = 0
         /\ \A j \in 0..(Rows - 1) :
              j * (2 * LatErr) <= v + 90 * Degree
                /\ v + 90 * Degree < j * (2 * LatErr) + 2 * LatErr => RowOf(v) = j
<1> DEFINE half == 90 * Degree
           w == 2 * LatErr
<1>1. half \in Int /\ w \in Nat \ {0} /\ Rows \in Nat \ {0} /\ Rows * w = 2 * half
  BY WorldSizes
<1>2. PICK b : RowOf(v) = b.number /\ HalvedTo(b, v, half, Rows, w)
  BY AxisFound
<1> HIDE DEF half, w
<1>3. /\ b.number \in 0..(Rows - 1)
      /\ v >= half => b.number = Rows - 1
      /\ v <= -half => b.number = 0
      /\ \A j \in 0..(Rows - 1) : j * w <= v + half /\ v + half < j * w + w => b.number = j
  BY <1>1, <1>2, NumberFound
<1> QED BY <1>2, <1>3 DEF half, w

LEMMA ColFound ==
  ASSUME NEW v \in Int
  PROVE  /\ ColOf(v) \in 0..(Columns - 1)
         /\ \A j \in 0..(Columns - 1) :
              j * (2 * LngErr) <= v + 180 * Degree
                /\ v + 180 * Degree < j * (2 * LngErr) + 2 * LngErr => ColOf(v) = j
<1> DEFINE half == 180 * Degree
           w == 2 * LngErr
<1>1. half \in Int /\ w \in Nat \ {0} /\ Columns \in Nat \ {0} /\ Columns * w = 2 * half
  BY WorldSizes
<1>2. PICK b : ColOf(v) = b.number /\ HalvedTo(b, v, half, Columns, w)
  BY AxisFound
<1> HIDE DEF half, w
<1>3. /\ b.number \in 0..(Columns - 1)
      /\ \A j \in 0..(Columns - 1) : j * w <= v + half /\ v + half < j * w + w => b.number = j
  BY <1>1, <1>2, NumberFound
<1> QED BY <1>2, <1>3 DEF half, w

\* Where the centres of the cells are, and what is next to the last ones.
LEMMA CenterAt ==
  ASSUME NEW e \in Nat \ {0}, NEW n \in Nat \ {0}, NEW half, half = e * n, NEW j \in -1..n
  PROVE  /\ j * (2 * e) \in Int /\ half \in Nat
         /\ j \in 0..(n - 1) => 0 <= j * (2 * e) /\ j * (2 * e) + 2 * e <= 2 * half
         /\ j = n => j * (2 * e) = 2 * half
         /\ j = -1 => j * (2 * e) = -(2 * e)
         /\ (n - 1) * (2 * e) = 2 * half - 2 * e
<1> DEFINE w == 2 * e
<1>1. n * w = 2 * half /\ w \in Nat /\ j * w \in Int /\ half \in Nat
  OBVIOUS
<1>2. ASSUME j \in 0..(n - 1) PROVE 0 <= j * w /\ j * w + w <= 2 * half
  <2>1. 0 * w <= j * w /\ (j + 1) * w <= n * w
    <3> HIDE DEF w
    <3> QED BY <1>1, <1>2, ProductsAscend
  <2>2. (j + 1) * w = j * w + w /\ 0 * w = 0
    OBVIOUS
  <2> HIDE DEF w
  <2> QED BY <1>1, <2>1, <2>2
<1>3. j = -1 => j * w = -w
  OBVIOUS
<1>4. (n - 1) * w = n * w - w
  OBVIOUS
<1> QED BY <1>1, <1>2, <1>3, <1>4

\* The row or column d beside one.
RowBeside(r, d) == IF r + d < 0 \/ r + d = Rows THEN r ELSE r + d

ColBeside(k, d) ==
  IF k + d < 0 THEN Columns - 1 ELSE IF k + d = Columns THEN 0 ELSE k + d

LEMMA RowBesideFound ==
  ASSUME NEW r \in 0..(Rows - 1), NEW d \in {-1, 0, 1}
  PROVE  RowOf(clampLat(LatErr * (2 * r + 1) - 90 * Degree + 2 * LatErr * d)) = RowBeside(r, d)
<1> DEFINE e == LatErr
           n == Rows
           half == 90 * Degree
           j == r + d
           x == j * (2 * e)
           v == LatErr * (2 * r + 1) - 90 * Degree + 2 * LatErr * d
<1>1. e \in Nat \ {0} /\ n \in Nat \ {0} /\ half = e * n /\ half \in Nat
  BY WorldSizes
<1>2. j \in -1..n /\ r \in 0..(n - 1) /\ j \in Int
  BY <1>1
<1>3. v = x + e - half
  <2>1. e * (2 * r + 1) + 2 * e * d = x + e
    <3> HIDE DEF e
    <3> QED BY <1>1, <1>2
  <2>2. /\ e * (2 * r + 1) \in Int /\ 2 * e * d \in Int /\ x \in Int
    <3> HIDE DEF e
    <3> QED BY <1>1, <1>2
  <2>3. v = e * (2 * r + 1) - half + 2 * e * d
    OBVIOUS
  <2> DEFINE a == e * (2 * r + 1)
             b == 2 * e * d
  <2> HIDE DEF a, b, v, x, half
  <2>4. a \in Int /\ b \in Int /\ x \in Int /\ a + b = x + e /\ v = a - half + b
    BY <2>1, <2>2, <2>3 DEF a, b
  <2> QED BY <1>1, <2>4
<1> HIDE DEF v
<1>4. /\ x \in Int
      /\ j \in 0..(n - 1) => 0 <= x /\ x + 2 * e <= 2 * half
      /\ j = n => x = 2 * half
      /\ j = -1 => x = -(2 * e)
  <2> HIDE DEF e, n, half, j
  <2> QED BY <1>1, <1>2, CenterAt
<1>5. v \in Int /\ clampLat(v) = IF v > half THEN half ELSE IF v < -half THEN -half ELSE v
  <2>1. v \in Int
    <3> HIDE DEF x, half
    <3> QED BY <1>1, <1>3, <1>4
  <2>2. -90 * Degree = -half
    BY UnitsAssumption
  <2> QED BY <2>1, <2>2 DEF clampLat
<1>6. CASE j \in 0..(n - 1)
  <2>1. clampLat(v) = v
    <3> HIDE DEF x, half
    <3> QED BY <1>1, <1>3, <1>4, <1>5, <1>6
  <2>2. x <= v + half /\ v + half < x + 2 * e
    <3> HIDE DEF x, half
    <3> QED BY <1>1, <1>3, <1>4
  <2>3. RowOf(v) = j
    BY <1>5, <1>6, <2>2, RowFound
  <2>4. RowBeside(r, d) = j
    BY <1>1, <1>2, <1>6 DEF RowBeside
  <2> QED BY <2>1, <2>3, <2>4 DEF v
<1>7. CASE j = n
  <2>1. clampLat(v) = half
    <3> HIDE DEF x, half
    <3> QED BY <1>1, <1>3, <1>4, <1>5, <1>7
  <2>2. RowOf(half) = n - 1
    BY <1>1, RowFound
  <2>3. RowBeside(r, d) = n - 1
    BY <1>1, <1>2, <1>7 DEF RowBeside
  <2> QED BY <2>1, <2>2, <2>3 DEF v
<1>8. CASE j = -1
  <2>1. clampLat(v) = -half
    <3> HIDE DEF x, half
    <3> QED BY <1>1, <1>3, <1>4, <1>5, <1>8
  <2>2. RowOf(-half) = 0
    <3>1. -half \in Int /\ -half <= -(90 * Degree)
      BY <1>1
    <3> QED BY <3>1, RowFound
  <2>3. RowBeside(r, d) = 0
    BY <1>1, <1>2, <1>8 DEF RowBeside
  <2> QED BY <2>1, <2>2, <2>3 DEF v
<1>9. j \in 0..(n - 1) \/ j = n \/ j = -1
  <2> HIDE DEF j, n
  <2> QED BY <1>1, <1>2
<1> QED BY <1>6, <1>7, <1>8, <1>9, Zenon

LEMMA ColBesideFound ==
  ASSUME NEW k \in 0..(Columns - 1), NEW d \in {-1, 0, 1}
  PROVE  ColOf(wrapLng(LngErr * (2 * k + 1) - 180 * Degree + 2 * LngErr * d)) = ColBeside(k, d)
<1> DEFINE e == LngErr
           n == Columns
           half == 180 * Degree
           j == k + d
           x == j * (2 * e)
           v == LngErr * (2 * k + 1) - 180 * Degree + 2 * LngErr * d
<1>1. e \in Nat \ {0} /\ n \in Nat \ {0} /\ half = e * n /\ half \in Nat
  BY WorldSizes
<1>2. j \in -1..n /\ k \in 0..(n - 1) /\ j \in Int
  BY <1>1
<1>3. v = x + e - half
  <2>1. e * (2 * k + 1) + 2 * e * d = x + e
    <3> HIDE DEF e
    <3> QED BY <1>1, <1>2
  <2>2. /\ e * (2 * k + 1) \in Int /\ 2 * e * d \in Int /\ x \in Int
    <3> HIDE DEF e
    <3> QED BY <1>1, <1>2
  <2>3. v = e * (2 * k + 1) - half + 2 * e * d
    OBVIOUS
  <2> DEFINE a == e * (2 * k + 1)
             b == 2 * e * d
  <2> HIDE DEF a, b, v, x, half
  <2>4. a \in Int /\ b \in Int /\ x \in Int /\ a + b = x + e /\ v = a - half + b
    BY <2>1, <2>2, <2>3 DEF a, b
  <2> QED BY <1>1, <2>4
<1> HIDE DEF v
<1>4. /\ x \in Int
      /\ j \in 0..(n - 1) => 0 <= x /\ x + 2 * e <= 2 * half
      /\ j = n => x = 2 * half
      /\ j = -1 => x = -(2 * e)
      /\ (n - 1) * (2 * e) = 2 * half - 2 * e
  <2> HIDE DEF e, n, half, j
  <2> QED BY <1>1, <1>2, CenterAt
<1>5. /\ v \in Int
      /\ wrapLng(v) = IF v > half THEN v - 2 * half
                      ELSE IF v < -half THEN v + 2 * half ELSE v
  <2>1. v \in Int
    <3> HIDE DEF x, half
    <3> QED BY <1>1, <1>3, <1>4
  <2>2. -180 * Degree = -half /\ 360 * Degree = 2 * half
    BY UnitsAssumption
  <2> QED BY <2>1, <2>2 DEF wrapLng
<1>6. CASE j \in 0..(n - 1)
  <2>1. wrapLng(v) = v
    <3> HIDE DEF x, half
    <3> QED BY <1>1, <1>3, <1>4, <1>5, <1>6
  <2>2. x <= v + half /\ v + half < x + 2 * e
    <3> HIDE DEF x, half
    <3> QED BY <1>1, <1>3, <1>4
  <2>3. ColOf(v) = j
    BY <1>5, <1>6, <2>2, ColFound
  <2>4. ColBeside(k, d) = j
    BY <1>1, <1>2, <1>6 DEF ColBeside
  <2> QED BY <2>1, <2>3, <2>4 DEF v
<1>7. CASE j = n
  <2>1. wrapLng(v) = e - half
    <3> HIDE DEF x, half
    <3> QED BY <1>1, <1>3, <1>4, <1>5, <1>7
  <2>2. ColOf(e - half) = 0
    <3>1. /\ e - half \in Int /\ 0 \in 0..(n - 1)
          /\ 0 * (2 * e) <= (e - half) + half /\ (e - half) + half < 0 * (2 * e) + 2 * e
      <4> HIDE DEF e, n, half
      <4> QED BY <1>1
    <3> QED BY <3>1, ColFound
  <2>3. ColBeside(k, d) = 0
    BY <1>1, <1>2, <1>7 DEF ColBeside
  <2> QED BY <2>1, <2>2, <2>3 DEF v
<1>8. CASE j = -1
  <2>1. wrapLng(v) = half - e
    <3> HIDE DEF x, half
    <3> QED BY <1>1, <1>3, <1>4, <1>5, <1>8
  <2>2. ColOf(half - e) = n - 1
    <3>1. /\ half - e \in Int /\ n - 1 \in 0..(n - 1)
          /\ (n - 1) * (2 * e) <= (half - e) + half
          /\ (half - e) + half < (n - 1) * (2 * e) + 2 * e
      <4> HIDE DEF e, n, half
      <4> QED BY <1>1, <1>4
    <3> QED BY <3>1, ColFound
  <2>3. ColBeside(k, d) = n - 1
    BY <1>1, <1>2, <1>8 DEF ColBeside
  <2> QED BY <2>1, <2>2, <2>3 DEF v
<1>9. j \in 0..(n - 1) \/ j = n \/ j = -1
  <2> HIDE DEF j, n
  <2> QED BY <1>1, <1>2
<1> QED BY <1>6, <1>7, <1>8, <1>9, Zenon

\* What is encoded one cell away, clamped and wrapped, is the cell beside.
LEMMA NeighborBeside ==
  ASSUME NEW c \in World, NEW d1 \in {-1, 0, 1}, NEW d2 \in {-1, 0, 1}
  PROVE  Neighbor(c, <<d1, d2>>) = [row |-> RowBeside(c.row, d1), col |-> ColBeside(c.col, d2)]
<1>1. c.row \in 0..(Rows - 1) /\ c.col \in 0..(Columns - 1)
  BY DEF World
<1>2. <<d1, d2>>[1] = d1 /\ <<d1, d2>>[2] = d2
  OBVIOUS
<1>3. Neighbor(c, <<d1, d2>>)
        = [row |-> RowOf(clampLat(LatErr * (2 * c.row + 1) - 90 * Degree + 2 * LatErr * d1)),
           col |-> ColOf(wrapLng(LngErr * (2 * c.col + 1) - 180 * Degree + 2 * LngErr * d2))]
  BY <1>2 DEF Neighbor, Encode, Decode, RowOf, ColOf
<1> QED BY <1>1, <1>3, RowBesideFound, ColBesideFound

Steps == {-1, 0, 1}

Beside(c, d1, d2) == [row |-> RowBeside(c.row, d1), col |-> ColBeside(c.col, d2)]

LEMMA AdjacentCells ==
  ASSUME NEW c \in World
  PROVE  /\ \A x \in ToSet(Adjacent(c)) : \E d1 \in Steps, d2 \in Steps : x = Beside(c, d1, d2)
         /\ \A d1 \in Steps, d2 \in Steps :
              d1 # 0 \/ d2 # 0 => Beside(c, d1, d2) \in ToSet(Adjacent(c))
<1>1. ToSet(Adjacent(c)) = {Neighbor(c, Directions[n]) : n \in 1..8}
  BY DEF ToSet, Adjacent
<1>2. ASSUME NEW n \in 1..8
      PROVE  \E d1 \in Steps, d2 \in Steps : Directions[n] = <<d1, d2>>
  <2>1. \/ n = 1 \/ n = 2 \/ n = 3 \/ n = 4 \/ n = 5 \/ n = 6 \/ n = 7 \/ n = 8
    OBVIOUS
  <2> QED BY <2>1 DEF Directions, Steps
<1>3. ASSUME NEW d1 \in Steps, NEW d2 \in Steps, d1 # 0 \/ d2 # 0
      PROVE  \E n \in 1..8 : Directions[n] = <<d1, d2>>
  <2>1. /\ Directions[1] = <<1, 0>> /\ Directions[2] = <<1, 1>> /\ Directions[3] = <<0, 1>>
        /\ Directions[4] = <<-1, 1>> /\ Directions[5] = <<-1, 0>> /\ Directions[6] = <<-1, -1>>
        /\ Directions[7] = <<0, -1>> /\ Directions[8] = <<1, -1>>
    BY DEF Directions
  <2>2. d1 \in {-1, 0, 1} /\ d2 \in {-1, 0, 1} /\ {1, 2, 3, 4, 5, 6, 7, 8} \subseteq 1..8
    BY DEF Steps
  <2> HIDE DEF Directions
  <2> QED BY <1>3, <2>1, <2>2
<1>4. \A d1 \in Steps, d2 \in Steps : Neighbor(c, <<d1, d2>>) = Beside(c, d1, d2)
  BY NeighborBeside DEF Steps, Beside
<1>5. ASSUME NEW x \in ToSet(Adjacent(c))
      PROVE  \E d1 \in Steps, d2 \in Steps : x = Beside(c, d1, d2)
  <2>1. PICK n \in 1..8 : x = Neighbor(c, Directions[n])
    BY <1>1
  <2>2. PICK d1 \in Steps, d2 \in Steps : Directions[n] = <<d1, d2>>
    BY <1>2
  <2> QED BY <1>4, <2>1, <2>2
<1>6. ASSUME NEW d1 \in Steps, NEW d2 \in Steps, d1 # 0 \/ d2 # 0
      PROVE  Beside(c, d1, d2) \in ToSet(Adjacent(c))
  <2>1. PICK n \in 1..8 : Directions[n] = <<d1, d2>>
    BY <1>3, <1>6
  <2>2. Neighbor(c, Directions[n]) = Beside(c, d1, d2)
    BY <1>4, <2>1
  <2> QED BY <1>1, <2>2
<1> QED BY <1>5, <1>6

\* The columns between two.
Around(a, b) == LET gap == Gap(a, b) IN IF gap <= Columns - gap THEN gap ELSE Columns - gap

LEMMA ApartParts ==
  ASSUME NEW o \in World, NEW c \in World
  PROVE  /\ o.row \in 0..(Rows - 1) /\ o.col \in 0..(Columns - 1)
         /\ Gap(o.row, c.row) \in Nat /\ Around(o.col, c.col) \in Nat
         /\ Apart(o, c) = IF Gap(o.row, c.row) >= Around(o.col, c.col)
                          THEN Gap(o.row, c.row) ELSE Around(o.col, c.col)
         /\ Apart(o, c) = 0 <=> c = o
<1>1. /\ o.row \in 0..(Rows - 1) /\ o.col \in 0..(Columns - 1)
      /\ c.row \in 0..(Rows - 1) /\ c.col \in 0..(Columns - 1)
      /\ Rows \in Nat \ {0} /\ Columns \in Nat \ {0}
  BY WorldSizes DEF World
<1>2. /\ Gap(o.row, c.row) \in Nat /\ Around(o.col, c.col) \in Nat
      /\ Gap(o.row, c.row) = 0 <=> o.row = c.row
      /\ Around(o.col, c.col) = 0 <=> o.col = c.col
  BY <1>1 DEF Gap, Around
<1>3. Apart(o, c) = IF Gap(o.row, c.row) >= Around(o.col, c.col)
                    THEN Gap(o.row, c.row) ELSE Around(o.col, c.col)
  BY DEF Apart, RowsApart, ColumnsApart, Around
<1>4. c = o <=> c.row = o.row /\ c.col = o.col
  BY DEF World
<1>5. Apart(o, c) = 0 <=> Gap(o.row, c.row) = 0 /\ Around(o.col, c.col) = 0
  BY <1>2, <1>3
<1> QED BY <1>1, <1>2, <1>3, <1>4, <1>5

LEMMA BesideIsNear ==
  ASSUME NEW a \in 0..(Rows - 1), NEW b \in 0..(Rows - 1),
         NEW k \in 0..(Columns - 1), NEW l \in 0..(Columns - 1), NEW d \in Steps
  PROVE  /\ RowBeside(b, d) \in 0..(Rows - 1) /\ Gap(a, RowBeside(b, d)) <= Gap(a, b) + 1
         /\ ColBeside(l, d) \in 0..(Columns - 1)
         /\ Around(k, ColBeside(l, d)) <= Around(k, l) + 1
<1>1. Rows \in Nat \ {0} /\ Columns \in Nat \ {0} /\ d \in {-1, 0, 1}
  BY WorldSizes DEF Steps
<1>2. RowBeside(b, d) \in 0..(Rows - 1) /\ Gap(a, RowBeside(b, d)) <= Gap(a, b) + 1
  BY <1>1 DEF RowBeside, Gap
<1>3. ColBeside(l, d) \in 0..(Columns - 1) /\ Around(k, ColBeside(l, d)) <= Around(k, l) + 1
  BY <1>1 DEF ColBeside, Around, Gap
<1> QED BY <1>2, <1>3

\* A neighbour is at most one ring farther out.
LEMMA RingsTouch ==
  ASSUME NEW o \in World, NEW c \in World, NEW x \in ToSet(Adjacent(c))
  PROVE  x \in World /\ Apart(o, x) <= Apart(o, c) + 1
<1>1. PICK d1 \in Steps, d2 \in Steps : x = Beside(c, d1, d2)
  BY AdjacentCells
<1>2. /\ o.row \in 0..(Rows - 1) /\ o.col \in 0..(Columns - 1)
      /\ c.row \in 0..(Rows - 1) /\ c.col \in 0..(Columns - 1)
  BY ApartParts
<1>3. /\ x.row = RowBeside(c.row, d1) /\ x.col = ColBeside(c.col, d2)
      /\ x.row \in 0..(Rows - 1) /\ x.col \in 0..(Columns - 1)
  BY <1>1, <1>2, BesideIsNear DEF Beside
<1>4. x \in World
  BY <1>1, <1>3 DEF World, Beside
<1>5. Gap(o.row, x.row) <= Gap(o.row, c.row) + 1 /\ Around(o.col, x.col) <= Around(o.col, c.col) + 1
  BY <1>2, <1>3, BesideIsNear
<1>6. /\ Gap(o.row, c.row) \in Nat /\ Around(o.col, c.col) \in Nat
      /\ Gap(o.row, x.row) \in Nat /\ Around(o.col, x.col) \in Nat
      /\ Apart(o, c) = IF Gap(o.row, c.row) >= Around(o.col, c.col)
                       THEN Gap(o.row, c.row) ELSE Around(o.col, c.col)
      /\ Apart(o, x) = IF Gap(o.row, x.row) >= Around(o.col, x.col)
                       THEN Gap(o.row, x.row) ELSE Around(o.col, x.col)
  BY <1>4, ApartParts
<1> QED BY <1>4, <1>5, <1>6

\* From a row or a column there is a step towards another one, and it can be undone.
LEMMA StepInward ==
  ASSUME NEW a \in 0..(Rows - 1), NEW b \in 0..(Rows - 1),
         NEW k \in 0..(Columns - 1), NEW l \in 0..(Columns - 1)
  PROVE  /\ RowBeside(b, 0) = b /\ ColBeside(l, 0) = l
         /\ Gap(a, b) # 0 =>
              \E m \in 0..(Rows - 1), d \in Steps :
                d # 0 /\ RowBeside(m, d) = b /\ Gap(a, m) = Gap(a, b) - 1
         /\ Around(k, l) # 0 =>
              \E m \in 0..(Columns - 1), d \in Steps :
                d # 0 /\ ColBeside(m, d) = l /\ Around(k, m) = Around(k, l) - 1
<1>1. Rows \in Nat \ {0} /\ Columns \in Nat \ {0} /\ 1 \in Steps /\ -1 \in Steps
  BY WorldSizes DEF Steps
<1>2. RowBeside(b, 0) = b /\ ColBeside(l, 0) = l
  BY <1>1 DEF RowBeside, ColBeside
<1>3. ASSUME Gap(a, b) # 0
      PROVE  \E m \in 0..(Rows - 1), d \in Steps :
               d # 0 /\ RowBeside(m, d) = b /\ Gap(a, m) = Gap(a, b) - 1
  <2>1. CASE a < b
    <3>1. /\ b - 1 \in 0..(Rows - 1) /\ RowBeside(b - 1, 1) = b
          /\ Gap(a, b - 1) = Gap(a, b) - 1
      BY <1>1, <2>1 DEF RowBeside, Gap
    <3> QED BY <1>1, <3>1
  <2>2. CASE b < a
    <3>1. /\ b + 1 \in 0..(Rows - 1) /\ RowBeside(b + 1, -1) = b
          /\ Gap(a, b + 1) = Gap(a, b) - 1
      BY <1>1, <2>2 DEF RowBeside, Gap
    <3> QED BY <1>1, <3>1
  <2> QED BY <1>1, <1>3, <2>1, <2>2 DEF Gap
<1>4. ASSUME Around(k, l) # 0
      PROVE  \E m \in 0..(Columns - 1), d \in Steps :
               d # 0 /\ ColBeside(m, d) = l /\ Around(k, m) = Around(k, l) - 1
  <2> DEFINE up == IF l + 1 = Columns THEN 0 ELSE l + 1
             down == IF l = 0 THEN Columns - 1 ELSE l - 1
  <2>1. /\ up \in 0..(Columns - 1) /\ ColBeside(up, -1) = l
        /\ down \in 0..(Columns - 1) /\ ColBeside(down, 1) = l
    BY <1>1 DEF ColBeside
  <2>2. \/ Around(k, up) = Around(k, l) - 1
        \/ Around(k, down) = Around(k, l) - 1
    <3>1. CASE k < l
      BY <1>1, <1>4, <3>1 DEF Around, Gap
    <3>2. CASE l < k
      BY <1>1, <1>4, <3>2 DEF Around, Gap
    <3>3. CASE k = l
      BY <1>1, <1>4, <3>3 DEF Around, Gap
    <3> QED BY <3>1, <3>2, <3>3
  <2> HIDE DEF up, down
  <2> QED BY <1>1, <2>1, <2>2
<1> QED BY <1>2, <1>3, <1>4

\* Next to a cell there is one that is nearer.
LEMMA InwardCell ==
  ASSUME NEW o \in World, NEW c \in World, NEW r \in Nat, Apart(o, c) = r + 1
  PROVE  \E n \in World : Apart(o, n) = r /\ c \in ToSet(Adjacent(n))
<1> DEFINE gap == Gap(o.row, c.row)
           far == Around(o.col, c.col)
<1>1. /\ o.row \in 0..(Rows - 1) /\ o.col \in 0..(Columns - 1)
      /\ c.row \in 0..(Rows - 1) /\ c.col \in 0..(Columns - 1)
      /\ c = [row |-> c.row, col |-> c.col]
      /\ gap \in Nat /\ far \in Nat
      /\ r + 1 = IF gap >= far THEN gap ELSE far
  BY ApartParts DEF World
<1>2. \E m \in 0..(Rows - 1), d \in Steps :
        /\ RowBeside(m, d) = c.row
        /\ IF gap = r + 1 THEN d # 0 /\ Gap(o.row, m) = r ELSE Gap(o.row, m) = gap
  <2>1. CASE gap = r + 1
    <3>1. gap # 0
      BY <2>1
    <3>2. PICK m \in 0..(Rows - 1), d \in Steps :
            d # 0 /\ RowBeside(m, d) = c.row /\ Gap(o.row, m) = gap - 1
      BY <3>1, <1>1, StepInward
    <3> HIDE DEF gap, far
    <3>3. gap - 1 = r
      BY <2>1
    <3> QED
      BY <3>2, <3>3, <2>1
  <2>2. CASE gap # r + 1
    <3>1. RowBeside(c.row, 0) = c.row /\ 0 \in Steps
      BY <1>1, StepInward DEF Steps
    <3> QED
      BY <3>1, <2>2, <1>1
  <2> QED
    BY <2>1, <2>2
<1>3. \E l \in 0..(Columns - 1), d \in Steps :
        /\ ColBeside(l, d) = c.col
        /\ IF far = r + 1 THEN d # 0 /\ Around(o.col, l) = r ELSE Around(o.col, l) = far
  <2>1. CASE far = r + 1
    <3>1. far # 0
      BY <2>1
    <3>2. PICK l \in 0..(Columns - 1), d \in Steps :
            d # 0 /\ ColBeside(l, d) = c.col /\ Around(o.col, l) = far - 1
      BY <3>1, <1>1, StepInward
    <3> HIDE DEF gap, far
    <3>3. far - 1 = r
      BY <2>1
    <3> QED
      BY <3>2, <3>3, <2>1
  <2>2. CASE far # r + 1
    <3>1. ColBeside(c.col, 0) = c.col /\ 0 \in Steps
      BY <1>1, StepInward DEF Steps
    <3> QED
      BY <3>1, <2>2, <1>1
  <2> QED
    BY <2>1, <2>2
<1>4. PICK m \in 0..(Rows - 1), d1 \in Steps :
        /\ RowBeside(m, d1) = c.row
        /\ IF gap = r + 1 THEN d1 # 0 /\ Gap(o.row, m) = r ELSE Gap(o.row, m) = gap
  BY <1>2
<1>5. PICK l \in 0..(Columns - 1), d2 \in Steps :
        /\ ColBeside(l, d2) = c.col
        /\ IF far = r + 1 THEN d2 # 0 /\ Around(o.col, l) = r ELSE Around(o.col, l) = far
  BY <1>3
<1> DEFINE n == [row |-> m, col |-> l]
<1>6. n \in World /\ n.row = m /\ n.col = l
  BY DEF World
<1>7. c = Beside(n, d1, d2)
  BY <1>1, <1>4, <1>5, <1>6 DEF Beside
<1>8. d1 # 0 \/ d2 # 0
  BY <1>1, <1>4, <1>5
<1>9. Apart(o, n) = r
  <2>1. Apart(o, n) = IF Gap(o.row, m) >= Around(o.col, l) THEN Gap(o.row, m) ELSE Around(o.col, l)
    BY <1>6, ApartParts
  <2> HIDE DEF n
  <2>2. gap = r + 1 => Gap(o.row, m) = r
    BY <1>4
  <2>3. gap # r + 1 => Gap(o.row, m) = gap
    BY <1>4
  <2>4. far = r + 1 => Around(o.col, l) = r
    BY <1>5
  <2>5. far # r + 1 => Around(o.col, l) = far
    BY <1>5
  <2> HIDE DEF gap, far
  <2> QED
    BY <1>1, <2>1, <2>2, <2>3, <2>4, <2>5
<1>10. c \in ToSet(Adjacent(n))
  BY <1>6, <1>7, <1>8, AdjacentCells
<1> QED
  BY <1>6, <1>9, <1>10

\* So every nearer ring has a cell.
LEMMA RingExists ==
  ASSUME NEW o \in World, NEW c \in World, NEW r \in Nat, r <= Apart(o, c)
  PROVE  \E n \in World : Apart(o, n) = r
<1> DEFINE T == {m \in Nat : m >= r /\ \E n \in World : Apart(o, n) = m}
<1>1. \A n \in World : Apart(o, n) \in Nat
  BY ApartParts
<1>2. Apart(o, c) \in T
  BY <1>1
<1>3. PICK m \in T : \A k \in T : m <= k
  BY <1>2, LeastExists
<1>4. PICK n \in World : Apart(o, n) = m
  OBVIOUS
<1>5. CASE m = r
  BY <1>4, <1>5
<1>6. CASE m # r
  <2>1. m - 1 \in Nat /\ m - 1 >= r
    BY <1>6
  <2>2. Apart(o, n) = (m - 1) + 1
    BY <1>4
  <2>3. \E x \in World : Apart(o, x) = m - 1
    BY <2>1, <2>2, InwardCell
  <2>4. m - 1 \in T
    BY <2>1, <2>3
  <2> QED
    BY <2>4, <1>3
<1> QED
  BY <1>5, <1>6

LEMMA EncodeInWorld ==
  ASSUME NEW p, p.lat \in Int, p.lng \in Int
  PROVE  Encode(p) \in World
BY RowFound, ColFound DEF Encode, World, RowOf, ColOf

\* A list and one of other elements.
LEMMA ListsBoth ==
  ASSUME NEW S, NEW s, Lists(s, S), NEW T, NEW t, Lists(t, T), S \cap T = {}
  PROVE  Lists(s \o t, S \cup T)
<1> DEFINE m == Len(s)
           n == Len(t)
           both == s \o t
<1>1. /\ s \in Seq(S \cup T) /\ t \in Seq(S \cup T) /\ m \in Nat /\ n \in Nat
      /\ \A i \in 1..m : s[i] \in S
      /\ \A i \in 1..n : t[i] \in T
      /\ \A i, j \in 1..m : s[i] = s[j] => i = j
      /\ \A i, j \in 1..n : t[i] = t[j] => i = j
      /\ \A x \in S : \E i \in 1..m : s[i] = x
      /\ \A x \in T : \E i \in 1..n : t[i] = x
  BY DEF Lists
<1>2. /\ both \in Seq(S \cup T) /\ Len(both) = m + n
      /\ \A i \in 1..(m + n) : both[i] = IF i <= m THEN s[i] ELSE t[i - m]
  BY <1>1
<1> HIDE DEF m, n, both
<1>3. \A i \in 1..(m + n) : IF i <= m THEN i \in 1..m /\ both[i] = s[i] /\ both[i] \in S
                            ELSE i - m \in 1..n /\ both[i] = t[i - m] /\ both[i] \in T
  BY <1>1, <1>2
<1>4. ASSUME NEW i \in 1..(m + n), NEW j \in 1..(m + n), both[i] = both[j]
      PROVE  i = j
  <2>1. CASE i <= m /\ j <= m
    BY <2>1, <1>1, <1>3, <1>4
  <2>2. CASE ~(i <= m) /\ ~(j <= m)
    <3>1. i - m = j - m
      BY <2>2, <1>1, <1>3, <1>4
    <3> QED
      BY <3>1, <1>1
  <2>3. CASE (i <= m) # (j <= m)
    BY <2>3, <1>3, <1>4
  <2> QED
    BY <2>1, <2>2, <2>3
<1>5. ASSUME NEW x \in S \cup T PROVE \E i \in 1..(m + n) : both[i] = x
  <2>1. CASE x \in S
    <3>1. PICK i \in 1..m : s[i] = x
      BY <2>1, <1>1
    <3>2. i \in 1..(m + n) /\ i <= m
      BY <1>1
    <3> QED
      BY <3>1, <3>2, <1>2
  <2>2. CASE x \in T
    <3>1. PICK i \in 1..n : t[i] = x
      BY <2>2, <1>1
    <3>2. i + m \in 1..(m + n) /\ ~(i + m <= m) /\ (i + m) - m = i
      BY <1>1
    <3> QED
      BY <3>1, <3>2, <1>2
  <2> QED
    BY <2>1, <2>2
<1> QED
  BY <1>2, <1>4, <1>5 DEF Lists, both

LEMMA ListIsLong ==
  ASSUME NEW S, NEW s, Lists(s, S), IsFiniteSet(S)
  PROVE  Len(s) \in Nat /\ Len(s) = Cardinality(S)
<1> DEFINE n == Len(s)
<1>1. n \in Nat /\ s \in [1..n -> S]
  BY DEF Lists
<1>2. s \in Injection(1..n, S) /\ s \in Surjection(1..n, S)
  BY <1>1 DEF Lists, Injection, Surjection, IsInjective
<1> HIDE DEF n
<1>3. Cardinality(1..n) = n
  BY <1>1, FS_Interval
<1> QED
  BY <1>1, <1>2, <1>3, FS_Injection DEF n

\* SetToSeq chooses a list.
LEMMA SetToSeqLists ==
  ASSUME NEW S, IsFiniteSet(S)
  PROVE  Lists(SetToSeq(S), S)
<1> DEFINE n == Cardinality(S)
           s == SetToSeq(S)
<1>1. n \in Nat
  BY FS_CardinalityType
<1>2. ExistsBijection(1..n, S)
  BY FS_CardinalityType
<1> HIDE DEF n
<1>3. \E f \in [1..n -> S] : IsInjective(f)
  BY <1>2 DEF ExistsBijection, Bijection, Injection
<1>4. s \in [1..n -> S] /\ IsInjective(s)
  BY <1>3 DEF SetToSeq, n
<1> HIDE DEF s
<1>5. Cardinality(1..n) = n
  BY <1>1, FS_Interval
<1>6. s \in Surjection(1..n, S)
  BY <1>4, <1>5, FS_Injection DEF Injection, n
<1>7. s \in Seq(S) /\ Len(s) = n
  BY <1>1, <1>4
<1>8. \A i, j \in 1..n : s[i] = s[j] => i = j
  BY <1>4 DEF IsInjective
<1> QED
  BY <1>6, <1>7, <1>8 DEF Lists, Surjection, s

-----------------------------------------------------------------------------
(* The index and the rings of FindKNearest.                                *)

\* A point lies in the slice of its cell, and the index counts its points.
EntryInv ==
  /\ DOMAIN cells \subseteq World
  /\ \A c \in DOMAIN cells : cells[c] \in Seq(Located)
  /\ \A e \in Entries : Encode(PointAt(e)) = e[1]
  /\ inserted \in Nat
  /\ IsFiniteSet(Entries) /\ Cardinality(Entries) = inserted

\* A search begins with nothing.
StartInv ==
  geoPc = "idle" => visited = {} /\ gathered = <<>> /\ located = <<>>

\* After r rounds the cells nearer than r are seen, and those at r are next.
RingsDone(r) ==
  /\ visited = {c \in World : Apart(Encode(center), c) < r}
  /\ ring = {c \in World : Apart(Encode(center), c) = r}
  /\ Lists(gathered, EntriesIn(visited))

RingInv ==
  geoPc = "search" /\ search = "nearest" =>
    /\ center \in Centers /\ limit \in Nat \ {0}
    /\ \E r \in Nat : RingsDone(r)

GeoInv == EntryInv /\ StartInv /\ RingInv /\ NearestByRings

LEMMA PointAtEntry ==
  ASSUME NEW e
  PROVE  e \in Entries <=> \E c \in DOMAIN cells : \E n \in 1..Len(cells[c]) : e = <<c, n>>
BY DEF Entries

LEMMA EntryParts ==
  ASSUME EntryInv, NEW e \in Entries
  PROVE  /\ e[1] \in World /\ PointAt(e) \in Located
         /\ center \in Centers => Away(e) \in Int
<1>1. PICK c \in DOMAIN cells : \E n \in 1..Len(cells[c]) : e = <<c, n>>
  BY PointAtEntry
<1>2. PICK n \in 1..Len(cells[c]) : e = <<c, n>>
  BY <1>1
<1>3. cells[c] \in Seq(Located) /\ c \in World
  BY DEF EntryInv
<1>4. cells[c][n] \in Located
  BY <1>3
<1>5. PointAt(e) \in Located
  BY <1>2, <1>4 DEF PointAt
<1> QED
  BY <1>2, <1>3, <1>5, GeoAssumption DEF Away

LEMMA PlaceInWorld ==
  ASSUME NEW p \in Located \cup Centers
  PROVE  Encode(p) \in World
<1>1. p \in [lat : Int, lng : Int]
  BY GeoAssumption
<1> QED
  BY <1>1, EncodeInWorld

\* An insertion adds one entry, at the end of its cell.
LEMMA InsertKeepsEntries ==
  ASSUME EntryInv, NEW p \in Located, InsertPoint(p)
  PROVE  EntryInv'
<1> DEFINE h == Encode(p)
           was == In(h)
<1>0. PICK last : last = <<h, Len(was) + 1>>
  OBVIOUS
<1>1. h \in World
  BY PlaceInWorld
<1>2. was \in Seq(Located)
  BY DEF In, EntryInv
<1>3. Len(was) \in Nat /\ Append(was, p) \in Seq(Located) /\ Len(Append(was, p)) = Len(was) + 1
  BY <1>2
<1>4. /\ \A n \in 1..Len(was) : Append(was, p)[n] = was[n]
      /\ Append(was, p)[Len(was) + 1] = p
  BY <1>2
<1>5. cells' = [c \in DOMAIN cells \cup {h} |-> IF c = h THEN Append(was, p) ELSE cells[c]]
  BY DEF InsertPoint
<1>6. /\ h \in DOMAIN cells => was = cells[h]
      /\ h \notin DOMAIN cells => was = <<>> /\ Len(was) = 0
  BY DEF In
<1> HIDE DEF h, was
<1>7. /\ DOMAIN cells' = DOMAIN cells \cup {h}
      /\ cells'[h] = Append(was, p)
      /\ \A c \in DOMAIN cells : c # h => cells'[c] = cells[c]
  BY <1>5
<1>8. DOMAIN cells' \subseteq World /\ \A c \in DOMAIN cells' : cells'[c] \in Seq(Located)
  BY <1>1, <1>3, <1>7 DEF EntryInv
<1>9. \A e : e \in Entries' <=> \E c \in DOMAIN cells' : \E n \in 1..Len(cells'[c]) : e = <<c, n>>
  BY DEF Entries
<1>10. last \notin Entries
  <2> SUFFICES ASSUME last \in Entries PROVE FALSE
    OBVIOUS
  <2>1. PICK c \in DOMAIN cells : \E n \in 1..Len(cells[c]) : last = <<c, n>>
    BY PointAtEntry
  <2>2. PICK n \in 1..Len(cells[c]) : last = <<c, n>>
    BY <2>1
  <2>3. c = h /\ n = Len(was) + 1
    BY <2>2, <1>0
  <2>4. Len(was) + 1 \in 1..Len(was)
    BY <2>2, <2>3, <1>6
  <2> QED
    BY <2>4, <1>3
<1>11. Entries' = Entries \cup {last}
  <2>1. ASSUME NEW e \in Entries' PROVE e \in Entries \cup {last}
    <3>1. PICK c \in DOMAIN cells' : \E n \in 1..Len(cells'[c]) : e = <<c, n>>
      BY <1>9
    <3>2. PICK n \in 1..Len(cells'[c]) : e = <<c, n>>
      BY <3>1
    <3>3. CASE c # h
      BY <3>2, <3>3, <1>7, PointAtEntry
    <3>4. CASE c = h
      <4>1. n \in 1..(Len(was) + 1)
        BY <3>2, <3>4, <1>3, <1>7
      <4>2. CASE n = Len(was) + 1
        BY <4>2, <3>2, <3>4, <1>0
      <4>3. CASE n # Len(was) + 1
        <5>1. n \in 1..Len(was)
          BY <4>1, <4>3, <1>3
        <5>2. h \in DOMAIN cells
          BY <5>1, <1>6
        <5> QED
          BY <5>1, <5>2, <3>2, <3>4, <1>6, PointAtEntry
      <4> QED
        BY <4>2, <4>3
    <3> QED
      BY <3>3, <3>4
  <2>2. ASSUME NEW e \in Entries PROVE e \in Entries'
    <3>1. PICK c \in DOMAIN cells : \E n \in 1..Len(cells[c]) : e = <<c, n>>
      BY PointAtEntry
    <3>2. PICK n \in 1..Len(cells[c]) : e = <<c, n>>
      BY <3>1
    <3>3. n \in 1..Len(cells'[c])
      BY <3>2, <1>3, <1>6, <1>7
    <3> QED
      BY <3>2, <3>3, <1>7, <1>9
  <2>3. last \in Entries'
    <3>1. Len(was) + 1 \in 1..Len(cells'[h]) /\ h \in DOMAIN cells'
      BY <1>3, <1>7
    <3> QED
      BY <3>1, <1>0, <1>9
  <2> QED
    BY <2>1, <2>2, <2>3
<1>12. \A e \in Entries' : Encode(PointAt(e)') = e[1]
  <2>1. ASSUME NEW e \in Entries PROVE PointAt(e)' = PointAt(e)
    <3>1. PICK c \in DOMAIN cells : \E n \in 1..Len(cells[c]) : e = <<c, n>>
      BY PointAtEntry
    <3>2. PICK n \in 1..Len(cells[c]) : e = <<c, n>>
      BY <3>1
    <3>3. cells'[c][n] = cells[c][n]
      BY <3>2, <1>4, <1>6, <1>7
    <3> QED
      BY <3>2, <3>3 DEF PointAt
  <2>2. PointAt(last)' = p
    BY <1>0, <1>4, <1>7 DEF PointAt
  <2>3. Encode(PointAt(last)') = last[1]
    BY <2>2, <1>0 DEF h
  <2>4. \A e \in Entries : Encode(PointAt(e)') = e[1]
    BY <2>1 DEF EntryInv
  <2> QED
    BY <2>3, <2>4, <1>11
<1>13. inserted' = inserted + 1 /\ inserted \in Nat /\ IsFiniteSet(Entries) /\ Cardinality(Entries) = inserted
  BY DEF InsertPoint, EntryInv
<1>14. IsFiniteSet(Entries') /\ Cardinality(Entries') = inserted'
  BY <1>10, <1>11, <1>13, FS_AddElement
<1> QED
  BY <1>8, <1>12, <1>13, <1>14 DEF EntryInv

\* A round sees one ring and puts the next one before it.
LEMMA NextRingSeen ==
  ASSUME EntryInv, RingInv, NextRing
  PROVE  RingInv'
<1> DEFINE o == Encode(center)
<1>1. PICK r \in Nat : RingsDone(r)
  BY DEF RingInv, NextRing
<1>2. center \in Centers /\ limit \in Nat \ {0}
  BY DEF RingInv, NextRing
<1>3. o \in World
  BY <1>2, PlaceInWorld
<1>4. /\ visited' = visited \cup ring /\ gathered' = gathered \o SetToSeq(EntriesIn(ring))
      /\ center' = center /\ limit' = limit /\ cells' = cells
  BY DEF NextRing, indexed, wanted
<1> DEFINE reached == UNION {ToSet(Adjacent(c)) : c \in ring}
<1>13. ring' = reached \ visited'
  BY DEF NextRing
<1>14. \A x : x \in reached <=> \E c \in ring : x \in ToSet(Adjacent(c))
  OBVIOUS
<1> HIDE DEF o, reached
<1>5. visited = {c \in World : Apart(o, c) < r} /\ ring = {c \in World : Apart(o, c) = r}
  BY <1>1 DEF RingsDone, o
<1>6. \A c \in World : Apart(o, c) \in Nat
  BY <1>3, ApartParts
<1>7. visited' = {c \in World : Apart(o, c) < r + 1}
  BY <1>4, <1>5, <1>6
<1>8. ASSUME NEW x \in ring' PROVE x \in World /\ Apart(o, x) = r + 1
  <2>1. PICK c \in ring : x \in ToSet(Adjacent(c))
    BY <1>13, <1>14
  <2>2. c \in World /\ Apart(o, c) = r
    BY <1>5
  <2>3. x \in World /\ Apart(o, x) <= r + 1
    BY <2>1, <2>2, <1>3, RingsTouch
  <2>4. x \notin visited'
    BY <1>13
  <2> QED
    BY <2>3, <2>4, <1>6, <1>7
<1>9. ASSUME NEW x \in World, Apart(o, x) = r + 1 PROVE x \in ring'
  <2>1. PICK c \in World : Apart(o, c) = r /\ x \in ToSet(Adjacent(c))
    BY <1>9, <1>3, InwardCell
  <2>2. c \in ring
    BY <2>1, <1>5
  <2>3. x \notin visited'
    BY <1>7, <1>9
  <2> QED
    BY <2>1, <2>2, <2>3, <1>13, <1>14
<1>10. ring' = {c \in World : Apart(o, c) = r + 1}
  BY <1>8, <1>9
<1>11. Lists(gathered', EntriesIn(visited)')
  <2>1. Entries' = Entries
    BY <1>4 DEF Entries
  <2>2. EntriesIn(visited)' = EntriesIn(visited) \cup EntriesIn(ring)
    BY <2>1, <1>4 DEF EntriesIn
  <2>3. EntriesIn(visited) \cap EntriesIn(ring) = {}
    BY <1>5 DEF EntriesIn
  <2>4. IsFiniteSet(EntriesIn(ring))
    BY FS_Subset DEF EntriesIn, EntryInv
  <2>5. Lists(gathered, EntriesIn(visited)) /\ Lists(SetToSeq(EntriesIn(ring)), EntriesIn(ring))
    BY <1>1, <2>4, SetToSeqLists DEF RingsDone
  <2> QED
    BY <2>2, <2>3, <2>5, <1>4, ListsBoth
<1>12. RingsDone(r + 1)'
  BY <1>4, <1>7, <1>10, <1>11 DEF RingsDone, o
<1> QED
  BY <1>2, <1>4, <1>12 DEF RingInv

\* Sorting rearranges.
LEMMA SortingLists ==
  ASSUME NEW S, NEW es, Lists(es, S), NEW sorted \in Sortings(es)
  PROVE  /\ Lists(sorted, S) /\ Len(sorted) = Len(es)
         /\ \A m, n \in 1..Len(es) : m < n => Away(sorted[m]) <= Away(sorted[n])
<1> DEFINE size == Len(es)
<1>1. /\ size \in Nat /\ es \in Seq(S) /\ DOMAIN es = 1..size
      /\ \A m, n \in 1..size : es[m] = es[n] => m = n
      /\ \A x \in S : \E n \in 1..size : es[n] = x
      /\ \A n \in 1..size : es[n] \in S
  BY DEF Lists
<1> HIDE DEF size
<1>2. PICK place \in Bijection(1..size, 1..size) : sorted = [n \in 1..size |-> es[place[n]]]
  BY <1>1 DEF Sortings
<1>3. \A m, n \in 1..size : m < n => Away(sorted[m]) <= Away(sorted[n])
  BY <1>1 DEF Sortings
<1>4. /\ place \in [1..size -> 1..size]
      /\ \A m, n \in 1..size : place[m] = place[n] => m = n
      /\ \A n \in 1..size : \E m \in 1..size : place[m] = n
  BY DEF Bijection, Injection, Surjection, IsInjective
<1>5. \A n \in 1..size : sorted[n] = es[place[n]] /\ place[n] \in 1..size
  BY <1>2, <1>4
<1>6. sorted \in Seq(S) /\ Len(sorted) = size
  BY <1>1, <1>2, <1>5
<1>7. \A m, n \in 1..size : sorted[m] = sorted[n] => m = n
  BY <1>1, <1>4, <1>5
<1>8. ASSUME NEW x \in S PROVE \E n \in 1..size : sorted[n] = x
  <2>1. PICK n \in 1..size : es[n] = x
    BY <1>1
  <2>2. PICK m \in 1..size : place[m] = n
    BY <1>4
  <2> QED
    BY <2>1, <2>2, <1>5
<1> QED
  BY <1>3, <1>6, <1>7, <1>8 DEF Lists, size

\* What FindKNearest returns: the first k of the entries it gathered.
LEMMA AnswerIsCut ==
  ASSUME NEW S, Lists(gathered, S), AnswerNearest, limit \in Nat \ {0}
  PROVE  \E sorted \in Sortings(gathered), k \in Nat :
           /\ k = IF Len(gathered) > limit THEN limit ELSE Len(gathered)
           /\ k <= Len(gathered)
           /\ located' = [m \in 1..k |-> sorted[m]] /\ Len(located') = k
<1>1. PICK sorted \in Sortings(gathered) :
        located' = IF Len(sorted) > limit THEN SubSeq(sorted, 1, limit) ELSE sorted
  BY DEF AnswerNearest
<1> DEFINE size == Len(gathered)
           k == IF size > limit THEN limit ELSE size
<1>2. size \in Nat /\ sorted \in Seq(S) /\ Len(sorted) = size
  BY SortingLists DEF Lists
<1> HIDE DEF size
<1>3. sorted = [m \in 1..size |-> sorted[m]] /\ k \in Nat /\ k <= size
  BY <1>2
<1>4. located' = [m \in 1..k |-> sorted[m]]
  <2>1. CASE size > limit
    <3>1. limit <= Len(sorted)
      BY <2>1, <1>2
    <3>2. SubSeq(sorted, 1, limit) = [m \in 1..limit |-> sorted[m]]
      BY <3>1, <1>2
    <3> QED
      BY <3>2, <2>1, <1>1, <1>2
  <2>2. CASE ~(size > limit)
    BY <2>2, <1>1, <1>2, <1>3
  <2> QED
    BY <2>1, <2>2
<1>5. Len(located') = k
  <2>1. k \in Nat
    BY <1>3
  <2> HIDE DEF k
  <2> QED
    BY <2>1, <1>4
<1> QED
  BY <1>3, <1>4, <1>5 DEF size

\* One that is left out is not nearer, or it lies in a later ring.
LEMMA RingsAnswer ==
  ASSUME EntryInv, RingInv, AnswerNearest
  PROVE  NearestByRings'
<1> DEFINE o == Encode(center)
           size == Len(gathered)
           inside == EntriesIn(visited)
<1>1. PICK r \in Nat : RingsDone(r)
  BY DEF RingInv, AnswerNearest
<1>2. center \in Centers /\ limit \in Nat \ {0}
  BY DEF RingInv, AnswerNearest
<1>3. /\ center' = center /\ limit' = limit /\ cells' = cells /\ inserted' = inserted
      /\ Entries' = Entries
  BY DEF AnswerNearest, wanted, indexed, Entries
<1>4. o \in World
  BY <1>2, PlaceInWorld
<1>5. \A e : PointAt(e)' = PointAt(e) /\ Away(e)' = Away(e)
  BY <1>3 DEF PointAt, Away
<1>6. /\ \A e \in Entries : e[1] \in World /\ Away(e) \in Int /\ Encode(PointAt(e)) = e[1]
      /\ IsFiniteSet(Entries) /\ inserted \in Nat /\ Cardinality(Entries) = inserted
  BY <1>2, EntryParts DEF EntryInv
<1>7. \A e : e \in inside <=> e \in Entries /\ e[1] \in World /\ Apart(o, e[1]) < r
  BY <1>1 DEF RingsDone, EntriesIn
<1>8. Lists(gathered, inside) /\ size \in Nat /\ size = Cardinality(inside) /\ size <= inserted
  <2>1. Lists(gathered, inside)
    BY <1>1 DEF RingsDone
  <2>2. IsFiniteSet(inside) /\ Cardinality(inside) <= inserted
    BY <1>6, <1>7, FS_Subset
  <2> HIDE DEF inside
  <2>3. size \in Nat /\ size = Cardinality(inside)
    BY <2>1, <2>2, ListIsLong
  <2> QED
    BY <2>1, <2>2, <2>3
<1>9. ring = {c \in World : Apart(o, c) = r}
  BY <1>1 DEF RingsDone
<1> HIDE DEF o, inside
<1>10. size >= limit \/ size = inserted
  <2>1. CASE size >= limit
    BY <2>1
  <2>2. CASE ring = {}
    <3>1. ASSUME NEW e \in Entries PROVE e \in inside
      <4>1. e[1] \in World /\ Apart(o, e[1]) \in Nat
        BY <1>4, <1>6, ApartParts
      <4>2. CASE Apart(o, e[1]) < r
        BY <4>1, <4>2, <1>7
      <4>3. CASE ~(Apart(o, e[1]) < r)
        <5>1. r <= Apart(o, e[1])
          BY <4>1, <4>3
        <5>2. \E n \in World : Apart(o, n) = r
          BY <5>1, <4>1, <1>4, RingExists
        <5> QED
          BY <5>2, <2>2, <1>9
      <4> QED
        BY <4>2, <4>3
    <3>2. inside = Entries
      BY <3>1, <1>7
    <3> QED
      BY <3>2, <1>6, <1>8
  <2> QED
    BY <2>1, <2>2 DEF AnswerNearest
<1>11. PICK sorted \in Sortings(gathered), k \in Nat :
         /\ k = IF size > limit THEN limit ELSE size
         /\ k <= size
         /\ located' = [m \in 1..k |-> sorted[m]] /\ Len(located') = k
  BY <1>2, <1>8, AnswerIsCut
<1>12. /\ \A m \in 1..size : sorted[m] \in inside
       /\ \A m, n \in 1..size : sorted[m] = sorted[n] => m = n
       /\ \A m, n \in 1..size : m < n => Away(sorted[m]) <= Away(sorted[n])
       /\ \A e \in inside : \E m \in 1..size : sorted[m] = e
  <2>1. /\ Lists(sorted, inside) /\ Len(sorted) = size
        /\ \A m, n \in 1..size : m < n => Away(sorted[m]) <= Away(sorted[n])
    BY <1>8, SortingLists
  <2> HIDE DEF size
  <2> QED
    BY <2>1 DEF Lists
<1> HIDE DEF size
<1>13. \A m \in 1..k : m \in 1..size /\ located'[m] = sorted[m]
  BY <1>8, <1>11
<1>14. IsInjective(located')
  <2>1. DOMAIN located' = 1..k
    BY <1>11
  <2>2. \A m, n \in 1..k : located'[m] = located'[n] => m = n
    BY <1>12, <1>13
  <2> QED
    BY <2>1, <2>2 DEF IsInjective
<1>15. \A f : f \in ToSet(located') <=> \E m \in 1..k : f = sorted[m]
  BY <1>11, <1>13 DEF ToSet
<1>16. \A f \in ToSet(located') : f \in inside
  BY <1>12, <1>13, <1>15
<1>17. ToSet(located') \subseteq Entries
  BY <1>7, <1>16
<1>18. Len(located') = IF limit <= 0 THEN 0 ELSE IF limit < inserted THEN limit ELSE inserted
  BY <1>2, <1>6, <1>8, <1>10, <1>11
<1>19. ASSUME NEW e \in Entries, e \notin ToSet(located'), NEW f \in ToSet(located'),
              Away(e) < Away(f), NEW g \in ToSet(located')
       PROVE  Apart(o, e[1]) > Apart(o, g[1])
  <2>1. e[1] \in World /\ Apart(o, e[1]) \in Nat /\ g[1] \in World /\ Apart(o, g[1]) \in Nat
    BY <1>4, <1>6, <1>17, ApartParts
  <2>2. Apart(o, g[1]) < r
    BY <1>7, <1>16
  <2>3. CASE e \in inside
    <3>1. PICK j \in 1..size : sorted[j] = e
      BY <2>3, <1>12
    <3>2. PICK m \in 1..k : f = sorted[m]
      BY <1>15
    <3>3. j \notin 1..k
      BY <3>1, <1>15, <1>19
    <3>4. m \in 1..size /\ m < j
      BY <3>3, <1>8, <1>11
    <3>5. Away(f) <= Away(e)
      BY <3>1, <3>2, <3>4, <1>12
    <3>6. Away(f) \in Int /\ Away(e) \in Int
      BY <1>6, <1>17
    <3> QED
      BY <3>5, <3>6, <1>19
  <2>4. CASE e \notin inside
    BY <2>1, <2>2, <2>4, <1>7
  <2> QED
    BY <2>3, <2>4
<1>20. \A e \in Entries : Ring(center, PointAt(e)) = Apart(o, e[1])
  BY <1>6 DEF Ring, o
<1>21. \A e \in Entries \ ToSet(located'), f \in ToSet(located') :
         Away(e) < Away(f) =>
           \A g \in ToSet(located') : Ring(center, PointAt(e)) > Ring(center, PointAt(g))
  BY <1>17, <1>19, <1>20
<1>22. \A e \in Entries' \ ToSet(located'), f \in ToSet(located') :
         Away(e)' < Away(f)' =>
           \A g \in ToSet(located') : Ring(center', PointAt(e)') > Ring(center', PointAt(g)')
  BY <1>3, <1>5, <1>21
<1> QED
  BY <1>3, <1>14, <1>17, <1>18, <1>22 DEF NearestByRings

\* The entries stay what they are while nothing is inserted.
LEMMA SearchKeepsEntries ==
  ASSUME EntryInv, UNCHANGED indexed
  PROVE  EntryInv'
<1>1. cells' = cells /\ inserted' = inserted
  BY DEF indexed
<1>2. Entries' = Entries /\ \A e : PointAt(e)' = PointAt(e)
  BY <1>1 DEF Entries, PointAt
<1> QED
  BY <1>1, <1>2 DEF EntryInv

LEMMA NearestStarts ==
  ASSUME GeoInv, NEW place \in Centers, NEW k \in GeoKs, SearchNearest(place, k)
  PROVE  RingInv' /\ NearestByRings'
<1> DEFINE o == Encode(place)
<1>1. /\ search' = "nearest" /\ center' = place /\ limit' = k /\ ring' = {o}
      /\ geoPc' = IF k <= 0 \/ inserted = 0 THEN "done" ELSE "search"
      /\ visited' = visited /\ gathered' = gathered /\ located' = located
      /\ cells' = cells /\ inserted' = inserted /\ geoPc = "idle"
  BY DEF SearchNearest, Ask, indexed
<1>2. visited = {} /\ gathered = <<>> /\ located = <<>>
  BY <1>1 DEF GeoInv, StartInv
<1>3. k \in Int /\ inserted \in Nat /\ o \in World
  BY GeoAssumption, PlaceInWorld DEF GeoInv, EntryInv
<1>4. RingInv'
  <2> SUFFICES ASSUME geoPc' = "search"
               PROVE  center' \in Centers /\ limit' \in Nat \ {0} /\ RingsDone(0)'
    BY DEF RingInv
  <2>1. limit' \in Nat \ {0}
    BY <1>1, <1>3
  <2> HIDE DEF o
  <2>2. \A c \in World : Apart(o, c) \in Nat /\ (Apart(o, c) = 0 <=> c = o)
    BY <1>3, ApartParts
  <2>3. {o} = {c \in World : Apart(o, c) = 0} /\ {} = {c \in World : Apart(o, c) < 0}
    BY <2>2, <1>3
  <2>4. EntriesIn(visited)' = {}
    BY <1>1, <1>2 DEF EntriesIn
  <2> QED
    BY <1>1, <1>2, <2>1, <2>3, <2>4, ListsNothing DEF RingsDone, o
<1>5. NearestByRings'
  <2> SUFFICES ASSUME geoPc' = "done" PROVE NearestByRings'
    BY DEF NearestByRings
  <2>1. k <= 0 \/ inserted = 0
    BY <1>1
  <2>2. located' = <<>>
    BY <1>1, <1>2
  <2>3. IsInjective(located') /\ ToSet(located') = {} /\ Len(located') = 0
    BY <2>2 DEF IsInjective, ToSet
  <2>4. Len(located') = IF limit' <= 0 THEN 0
                        ELSE IF limit' < inserted' THEN limit' ELSE inserted'
    BY <1>1, <1>3, <2>1, <2>3
  <2> QED
    BY <2>3, <2>4 DEF NearestByRings
<1> QED
  BY <1>4, <1>5

LEMMA GeoInvStep ==
  ASSUME GeoInv, [GeoNext]_geoVars
  PROVE  GeoInv'
<1> USE DEF GeoInv
<1>1. ASSUME NEW p \in Located, InsertPoint(p) PROVE GeoInv'
  <2>1. EntryInv'
    BY <1>1, InsertKeepsEntries
  <2>2. /\ geoPc = "idle" /\ geoPc' = "idle" /\ visited' = visited
        /\ gathered' = gathered /\ located' = located
    BY <1>1 DEF InsertPoint, progress
  <2> QED
    BY <2>1, <2>2 DEF StartInv, RingInv, NearestByRings
<1>2. ASSUME NEW place \in Centers, NEW radius \in GeoRadii, SearchNearby(place, radius)
      PROVE  GeoInv'
  <2>1. EntryInv'
    BY <1>2, SearchKeepsEntries DEF SearchNearby, Ask
  <2>2. search' = "nearby" /\ geoPc' = "search"
    BY <1>2 DEF SearchNearby, Ask
  <2> QED
    BY <2>1, <2>2 DEF StartInv, RingInv, NearestByRings
<1>3. ASSUME NEW place \in Centers, NEW k \in GeoKs, SearchNearest(place, k) PROVE GeoInv'
  <2>1. EntryInv'
    BY <1>3, SearchKeepsEntries DEF SearchNearest, Ask
  <2>2. geoPc' # "idle"
    BY <1>3 DEF SearchNearest
  <2> QED
    BY <1>3, <2>1, <2>2, NearestStarts DEF StartInv
<1>4. CASE ExpandCell
  <2>1. EntryInv'
    BY <1>4, SearchKeepsEntries DEF ExpandCell
  <2>2. search' = "nearby" /\ geoPc' = "search"
    BY <1>4 DEF ExpandCell, wanted
  <2> QED
    BY <2>1, <2>2 DEF StartInv, RingInv, NearestByRings
<1>5. CASE AnswerNearby
  <2>1. EntryInv'
    BY <1>5, SearchKeepsEntries DEF AnswerNearby
  <2>2. search' = "nearby" /\ geoPc' = "done"
    BY <1>5 DEF AnswerNearby, wanted
  <2> QED
    BY <2>1, <2>2 DEF StartInv, RingInv, NearestByRings
<1>6. CASE NextRing
  <2>1. EntryInv'
    BY <1>6, SearchKeepsEntries DEF NextRing
  <2>2. geoPc' = "search"
    BY <1>6 DEF NextRing
  <2> QED
    BY <1>6, <2>1, <2>2, NextRingSeen DEF StartInv, NearestByRings
<1>7. CASE AnswerNearest
  <2>1. EntryInv'
    BY <1>7, SearchKeepsEntries DEF AnswerNearest
  <2>2. geoPc' = "done"
    BY <1>7 DEF AnswerNearest
  <2> QED
    BY <1>7, <2>1, <2>2, RingsAnswer DEF StartInv, RingInv
<1>8. CASE ReturnLocated
  <2>1. EntryInv'
    BY <1>8, SearchKeepsEntries DEF ReturnLocated
  <2>2. geoPc' = "idle" /\ visited' = {} /\ gathered' = <<>> /\ located' = <<>>
    BY <1>8 DEF ReturnLocated
  <2> QED
    BY <2>1, <2>2 DEF StartInv, RingInv, NearestByRings
<1>9. CASE UNCHANGED geoVars
  <2>1. EntryInv'
    BY <1>9, SearchKeepsEntries DEF geoVars
  <2>2. /\ cells' = cells /\ inserted' = inserted /\ search' = search /\ center' = center
        /\ limit' = limit /\ ring' = ring /\ gathered' = gathered /\ visited' = visited
        /\ located' = located /\ geoPc' = geoPc
    BY <1>9 DEF geoVars, indexed, wanted, progress
  <2>3. StartInv'
    BY <2>2 DEF StartInv
  <2>4. RingInv'
    <3>1. EntriesIn(visited)' = EntriesIn(visited)
      BY <2>2 DEF EntriesIn, Entries
    <3>2. \A r : RingsDone(r)' <=> RingsDone(r)
      BY <2>2, <3>1 DEF RingsDone
    <3> QED
      BY <2>2, <3>2 DEF RingInv
  <2>5. Entries' = Entries /\ \A e : PointAt(e)' = PointAt(e) /\ Away(e)' = Away(e)
    BY <2>2 DEF Entries, PointAt, Away
  <2>6. NearestByRings'
    BY <2>2, <2>5 DEF NearestByRings
  <2> QED
    BY <2>1, <2>3, <2>4, <2>6
<1> QED
  BY <1>1, <1>2, <1>3, <1>4, <1>5, <1>6, <1>7, <1>8, <1>9 DEF GeoNext

(* FindKNearest of geoindex.go, whatever the precision, the points and the *)
(* distances, answers with as many points as there are, up to k, and one   *)
(* that is left out although it is nearer lies in a ring of cells beyond   *)
(* all of them: round r sees exactly the cells that are r rows or columns  *)
(* away, also across the date line and at the poles.                       *)
THEOREM RingsAnswerNearest == GeoSpec => []NearestByRings
<1>1. GeoInit => GeoInv
  <2> SUFFICES ASSUME GeoInit PROVE GeoInv
    OBVIOUS
  <2>1. DOMAIN cells = {} /\ inserted = 0 /\ geoPc = "idle"
    BY DEF GeoInit
  <2>2. Entries = {}
    BY <2>1 DEF Entries
  <2>3. EntryInv
    BY <2>1, <2>2, FS_EmptySet DEF EntryInv
  <2> QED
    BY <2>1, <2>3 DEF GeoInv, StartInv, RingInv, NearestByRings, GeoInit
<1>2. GeoInv /\ [GeoNext]_geoVars => GeoInv'
  BY GeoInvStep
<1>3. GeoInv => NearestByRings
  BY DEF GeoInv
<1> QED
  BY <1>1, <1>2, <1>3, PTL DEF GeoSpec
=============================================================================
