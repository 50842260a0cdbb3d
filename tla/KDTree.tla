------------------------------- MODULE KDTree -------------------------------
(***************************************************************************)
(* The two-dimensional tree of lab-2-geo (internal/kdtree/kdtree.go) and   *)
(* the plain scan it is compared with (internal/brute/brute.go).           *)
(*                                                                         *)
(* A node is named by the path that leads to it from the root, a sequence  *)
(* of sides, and the tree is a function from its nodes to their points.    *)
(* Even depths divide by latitude, odd ones by longitude.                  *)
(*                                                                         *)
(* The recursive searches become a stack of the calls still to be made.    *)
(* The call for the far side of a node waits there with the distance to    *)
(* the dividing line, and the test whether to make it comes when the near  *)
(* side has been searched.  The recursion of buildBalanced is a stack of   *)
(* the slices of its array that still have to become subtrees.  One step   *)
(* is one call, or one iteration of the loops that restore the heap.       *)
(*                                                                         *)
(* Coordinates are whole degrees and distances whole metres.  Metres is    *)
(* the great-circle distance, a parameter because it needs the sine; the   *)
(* distance to a dividing line is the product that the code computes.      *)
(***************************************************************************)
EXTENDS Integers, FiniteSets, SequencesExt

CONSTANTS
  Grid,          \* the points, records of lat and lng
  Queries,       \* the places asked about, of the same form
  Radii,         \* the radii asked for, in metres
  Ks,            \* the numbers of neighbours asked for
  PointLists,    \* the arguments of BuildBalanced
  MaxPoints,     \* bound: the points in the tree
  Metres(_, _),  \* geo.DistanceKm
  LatDegree,     \* the metres the code takes for a degree of latitude
  LngDegree      \* and of longitude, at each latitude asked about

Points == Grid \cup UNION {ToSet(list) : list \in PointLists}

ASSUME PlacesAssumption ==
  /\ Points \cup Queries \subseteq [lat : Int, lng : Int]
  /\ \A q \in Queries, p \in Points : Metres(q, p) \in Nat
  /\ LatDegree \in Int /\ \A q \in Queries : LngDegree[q.lat] \in Int
  /\ Radii \cup Ks \subseteq Int

ASSUME ListsAssumption ==
  /\ \A list \in PointLists : list \in Seq(ToSet(list))
  /\ MaxPoints \in Nat

VARIABLES
  tree, count,   \* the fields of KDTree
  points,        \* the points of a brute.Scanner given the same calls, a bag
  pts, parts,    \* the array of a balanced build, and its slices still to be
                 \* built, the next one first: the indexes from "from" to "to"
  call, query,   \* the running search, "nearby" or "nearest", and its place
  bound,         \* its radius or its k
  stack,         \* the calls to be made, the next one first
  found,         \* the nodes in the results, or in the heap
  hole,          \* the index in the heap that the loop has come to
  pc             \* "idle", "build", "search", "up", "down" or "done"

contents == <<tree, count, points, pts, parts>>
request == <<call, query, bound>>
vars == <<contents, request, stack, found, hole, pc>>

axis(depth) == depth % 2

Coordinate(p, depth) == IF axis(depth) = 0 THEN p.lat ELSE p.lng

(* p is on the left of what node n divides. *)
IsLeft(p, n) == Coordinate(p, Len(n)) < Coordinate(tree[n], Len(n))

Side(p, n) == IF IsLeft(p, n) THEN "left" ELSE "right"
Opposite(side) == IF side = "left" THEN "right" ELSE "left"

Paths == BoundedSeq({"left", "right"}, MaxPoints)

(* Mutant: the coordinate is the latitude at every depth. *)
PlaceByLatitude(p) ==
  CHOOSE n \in Paths \ DOMAIN tree :
    \A d \in 0..(Len(n) - 1) :
      LET up == SubSeq(n, 1, d)
      IN  /\ up \in DOMAIN tree
          /\ n[d + 1] = IF p.lat < tree[up].lat THEN "left" ELSE "right"

(* The nil that the descent of insertNode ends at. *)
Place(p) ==
  CHOOSE n \in Paths \ DOMAIN tree :
    \A d \in 0..(Len(n) - 1) :
      /\ SubSeq(n, 1, d) \in DOMAIN tree
      /\ n[d + 1] = Side(p, SubSeq(n, 1, d))

(* A call of buildBalanced with no points makes no node and is left out. *)
PartOf(n, from, to) ==
  IF from <= to THEN <<[node |-> n, from |-> from, to |-> to]>> ELSE <<>>

(* The array with each index of a slice moved as places says. *)
Moved(places) ==
  [i \in DOMAIN pts |-> IF i \in DOMAIN places THEN pts[places[i]] ELSE pts[i]]

(* What moving the elements of a slice about can make of the array. *)
Rearranged(slice) == {Moved(places) : places \in Bijection(slice, slice)}

GoesUp(s, slice, depth) ==
  \A i, j \in slice : i <= j => Coordinate(s[i], depth) <= Coordinate(s[j], depth)

(* Mutant: the slices are sorted by latitude at every depth. *)
SortedByLatitude(part) ==
  {s \in Rearranged(part.from..part.to) : GoesUp(s, part.from..part.to, 0)}

(* What sort.Slice may make of the array when it sorts one slice: equal    *)
(* elements are left in any order.                                         *)
SortedSlice(part) ==
  {s \in Rearranged(part.from..part.to) :
     GoesUp(s, part.from..part.to, Len(part.node))}

-----------------------------------------------------------------------------
Abs(n) == IF n < 0 THEN -n ELSE n

AlongLat(p) == Abs(query.lat - p.lat) * LatDegree                 \* absDegToKm
AlongLng(p) == Abs(query.lng - p.lng) * LngDegree[query.lat]      \* absDegToKmLng

PlaneDist(n) ==
  IF axis(Len(n)) = 0 THEN AlongLat(tree[n]) ELSE AlongLng(tree[n])

Distance(n) == Metres(query, tree[n])

Always == -1

(* A call with nil does nothing and is left out. *)
CallTo(n, plane) ==
  IF n \in DOMAIN tree THEN <<[node |-> n, plane |-> plane]>> ELSE <<>>

(* The calls that a visit of n makes: its near side, and its far side if   *)
(* the dividing line turns out close enough.                               *)
CallsBelow(n) ==
  LET near == Side(query, n)
  IN  CallTo(Append(n, near), Always) \o CallTo(Append(n, Opposite(near)), PlaneDist(n))

(* Mutant: a heap that is not yet full already cuts subtrees off. *)
CloserThanRoot(plane) == plane < Distance(found[1])

(* As long as the heap is not full, maxDist is greater than any distance. *)
CloserThanMaxDist(plane) ==
  IF Len(found) < bound THEN TRUE ELSE plane < Distance(found[1])

(* Mutant: a line exactly at the radius is too far. *)
IsMadeInside(c) ==
  CASE c.plane = Always -> TRUE
    [] c.plane # Always /\ call = "nearby" -> c.plane < bound
    [] c.plane # Always /\ call = "nearest" -> CloserThanMaxDist(c.plane)

IsMade(c) ==
  CASE c.plane = Always -> TRUE
    [] c.plane # Always /\ call = "nearby" -> c.plane <= bound
    [] c.plane # Always /\ call = "nearest" -> CloserThanMaxDist(c.plane)

-----------------------------------------------------------------------------
Init ==
  /\ tree = <<>> /\ count = 0 /\ points = <<>>
  /\ pts = <<>> /\ parts = <<>>
  /\ call = "none" /\ query = <<>> /\ bound = 0
  /\ stack = <<>> /\ found = <<>> /\ hole = 0
  /\ pc = "idle"

Insert(p) ==
  /\ pc = "idle" /\ Cardinality(DOMAIN tree) < MaxPoints
  /\ tree' = [n \in DOMAIN tree \cup {Place(p)} |->
                IF n \in DOMAIN tree THEN tree[n] ELSE p]
  /\ count' = count + 1
  /\ points' = points (+) SetToBag({p})
  /\ UNCHANGED <<pts, parts, request, stack, found, hole, pc>>

(* The new tree takes the place of the old one, whatever that held. *)
BuildBalanced(list) ==
  /\ pc = "idle"
  /\ pts' = list /\ parts' = PartOf(<<>>, 1, Len(list))
  /\ tree' = <<>> /\ count' = 0
  /\ points' = ToBag(list)
  /\ pc' = "build"
  /\ UNCHANGED <<request, stack, found, hole>>

(* One call of buildBalanced: the middle of the sorted slice becomes a     *)
(* node, what is before and after it the subtrees on its left and right.   *)
BuildNode ==
  /\ pc = "build" /\ parts # <<>>
  /\ LET part == Head(parts)
         n == part.node
         middle == part.from + (part.to - part.from + 1) \div 2
     IN  /\ pts' \in SortedSlice(part)
         /\ tree' = [m \in DOMAIN tree \cup {n} |->
                       IF m \in DOMAIN tree THEN tree[m] ELSE pts'[middle]]
         /\ parts' = PartOf(Append(n, "left"), part.from, middle - 1)
                      \o PartOf(Append(n, "right"), middle + 1, part.to)
                      \o Tail(parts)
  /\ UNCHANGED <<count, points, request, stack, found, hole, pc>>

BuildEnds ==
  /\ pc = "build" /\ parts = <<>>
  /\ count' = Len(pts)
  /\ pts' = <<>>
  /\ pc' = "idle"
  /\ UNCHANGED <<tree, points, parts, request, stack, found, hole>>

FindNearby(place, radius) ==
  /\ pc = "idle"
  /\ call' = "nearby" /\ query' = place /\ bound' = radius
  /\ stack' = CallTo(<<>>, Always)
  /\ pc' = "search"
  /\ UNCHANGED <<contents, found, hole>>

FindKNearest(place, k) ==
  /\ pc = "idle"
  /\ call' = "nearest" /\ query' = place /\ bound' = k
  /\ \/ k <= 0 /\ pc' = "done" /\ stack' = <<>>
     \/ k > 0 /\ pc' = "search" /\ stack' = CallTo(<<>>, Always)
  /\ UNCHANGED <<contents, found, hole>>

CutOff ==
  /\ pc = "search" /\ stack # <<>> /\ ~IsMade(Head(stack))
  /\ stack' = Tail(stack)
  /\ UNCHANGED <<contents, request, found, hole, pc>>

Visits(n) ==
  /\ pc = "search" /\ stack # <<>> /\ IsMade(Head(stack))
  /\ n = Head(stack).node
  /\ stack' = CallsBelow(n) \o Tail(stack)
  /\ UNCHANGED <<contents, request>>

VisitInRange(n) ==
  /\ call = "nearby" /\ Visits(n)
  /\ found' = IF Distance(n) <= bound THEN Append(found, n) ELSE found
  /\ UNCHANGED <<hole, pc>>

PushLast(n) ==
  /\ call = "nearest" /\ Visits(n)
  /\ Len(found) < bound
  /\ found' = Append(found, n)
  /\ hole' = Len(found) + 1
  /\ pc' = "up"

PushOverRoot(n) ==
  /\ call = "nearest" /\ Visits(n)
  /\ Len(found) >= bound /\ Distance(n) < Distance(found[1])
  /\ found' = [found EXCEPT ![1] = n]
  /\ hole' = 1
  /\ pc' = "down"

PushNothing(n) ==
  /\ call = "nearest" /\ Visits(n)
  /\ Len(found) >= bound /\ Distance(n) >= Distance(found[1])
  /\ UNCHANGED <<found, hole, pc>>

SwapTo(i) ==
  /\ found' = [found EXCEPT ![hole] = found[i], ![i] = found[hole]]
  /\ hole' = i
  /\ UNCHANGED <<contents, request, stack, pc>>

Settle ==
  /\ hole' = 0
  /\ pc' = "search"
  /\ UNCHANGED <<contents, request, stack, found>>

(* The indexes of the heap count from 1. *)
Parent == hole \div 2

Rises == hole > 1 /\ Distance(found[hole]) > Distance(found[Parent])

HeapifyUp ==
  /\ pc = "up"
  /\ \/ Rises /\ SwapTo(Parent)
     \/ ~Rises /\ Settle

(* The first to be farthest of the item, its left and its right child. *)
Largest ==
  LET here == {i \in {hole, 2 * hole, 2 * hole + 1} : i <= Len(found)}
      farthest == {i \in here : \A j \in here :
                                  Distance(found[i]) >= Distance(found[j])}
  IN  CHOOSE i \in farthest : \A j \in farthest : i <= j

HeapifyDown ==
  /\ pc = "down"
  /\ \/ Largest # hole /\ SwapTo(Largest)
     \/ Largest = hole /\ Settle

(* The items that come before the one at i: nearer ones, and of equally    *)
(* far ones, whose order the code leaves open, those before it in found.   *)
Before(i) ==
  {j \in 1..Len(found) :
     \/ Distance(found[j]) < Distance(found[i])
     \/ Distance(found[j]) = Distance(found[i]) /\ j < i}

Sorted ==
  [m \in 1..Len(found) |->
     found[CHOOSE i \in 1..Len(found) : Cardinality(Before(i)) = m - 1]]

Answer ==
  /\ pc = "search" /\ stack = <<>>
  /\ found' = Sorted
  /\ pc' = "done"
  /\ UNCHANGED <<contents, request, stack, hole>>

Return ==
  /\ pc = "done"
  /\ call' = "none" /\ query' = <<>> /\ bound' = 0
  /\ stack' = <<>> /\ found' = <<>> /\ hole' = 0
  /\ pc' = "idle"
  /\ UNCHANGED contents

Next ==
  \/ \E p \in Grid : Insert(p)
  \/ \E list \in PointLists : BuildBalanced(list)
  \/ BuildNode \/ BuildEnds
  \/ \E place \in Queries, radius \in Radii : FindNearby(place, radius)
  \/ \E place \in Queries, k \in Ks : FindKNearest(place, k)
  \/ CutOff
  \/ \E n \in DOMAIN tree :
       VisitInRange(n) \/ PushLast(n) \/ PushOverRoot(n) \/ PushNothing(n)
  \/ HeapifyUp \/ HeapifyDown
  \/ Answer \/ Return

Spec == Init /\ [][Next]_vars

-----------------------------------------------------------------------------
(* The scan of brute.FindNearby. *)
ScanNearby ==
  [p \in {q \in DOMAIN points : Metres(query, q) <= bound} |-> points[p]]

(* The number of points that brute.FindKNearest keeps of all it has. *)
ScanLength ==
  IF bound <= 0 THEN 0 ELSE IF bound < count THEN bound ELSE count

FoundPoints == ToBag([i \in 1..Len(found) |-> tree[found[i]]])

(* A point is at least so far away in the code's own reckoning, which      *)
(* knows no date line and takes a degree for a little more than the        *)
(* great-circle distance does.                                             *)
Reckoned(p, distance) == AlongLat(p) >= distance \/ AlongLng(p) >= distance
ReckonedBeyond(p, distance) == AlongLat(p) > distance \/ AlongLng(p) > distance

(* In t, what is on the left of a node is not above it in the coordinate   *)
(* that the node divides by, and what is on the right is not below it.     *)
IsSplit(t) ==
  \A n, m \in DOMAIN t :
    IsStrictPrefix(n, m) =>
      LET d == Len(n)
          at == Coordinate(t[n], d)
          below == Coordinate(t[m], d)
      IN  IF m[d + 1] = "left" THEN below <= at ELSE below >= at

(* Whatever mixture of BuildBalanced and Insert has made it, each node     *)
(* still divides what is under it: both searches rest on that.  It holds   *)
(* of the part that a running build has made, too.                         *)
SplitByPlanes == IsSplit(tree)

(* FindNearby answers with what the scan finds, each point as often as it  *)
(* was inserted, except those beyond the radius in the code's reckoning.   *)
NearbyIsScan ==
  pc = "done" /\ call = "nearby" =>
    /\ FoundPoints \sqsubseteq ScanNearby
    /\ \A p \in DOMAIN (ScanNearby (-) FoundPoints) : ReckonedBeyond(p, bound)

(* FindKNearest answers with as many points as the scan, and a point left  *)
(* out is as far as the last of them, at least in the code's reckoning.    *)
NearestIsScan ==
  pc = "done" /\ call = "nearest" =>
    /\ FoundPoints \sqsubseteq points
    /\ Len(found) = ScanLength
    /\ \A p \in DOMAIN (points (-) FoundPoints) :
         found # <<>> =>
           LET worst == Distance(Last(found))
           IN  Metres(query, p) >= worst \/ Reckoned(p, worst)
=============================================================================
