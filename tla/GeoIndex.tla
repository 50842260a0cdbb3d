------------------------------ MODULE GeoIndex ------------------------------
(***************************************************************************)
(* The geohash index of lab-2-geo: internal/geoindex/geoindex.go, and what *)
(* it uses of internal/geo/geohash.go.                                     *)
(*                                                                         *)
(* Coordinates are whole numbers of units, Degree of them to a degree, so  *)
(* that the cells' borders and centres are whole too.  A cell is what its  *)
(* geohash stands for: the numbers of a row and a column, whose bits the   *)
(* letters interleave.  A point in the index is named by its entry, the    *)
(* cell and the place in that cell's slice, since points can be equal.     *)
(*                                                                         *)
(* Distances are whole metres.  Metres is the great-circle distance, a     *)
(* parameter because it needs the sine.                                    *)
(***************************************************************************)
EXTENDS Integers, FiniteSets, SequencesExt

CONSTANTS
  Precision,         \* the letters of a geohash
  Degree,            \* units in a degree
  Located,           \* the points, records of lat and lng
  Centers,           \* the places asked about, of the same form
  GeoRadii,          \* the radii asked for, in metres
  GeoKs,             \* the numbers of neighbours asked for
  MaxLocated,        \* bound: the points in the index
  GeoMetres(_, _),   \* geo.DistanceKm
  CellDiag(_)        \* cellDiag at a place asked about

(* Five bits to a letter, the first of them for the longitude. *)
LngBits == (5 * Precision + 1) \div 2
LatBits == (5 * Precision) \div 2

Rows == 2 ^ LatBits
Columns == 2 ^ LngBits

(* Half the height and half the width of a cell. *)
LatErr == (90 * Degree) \div Rows
LngErr == (180 * Degree) \div Columns

ASSUME UnitsAssumption ==
  /\ Precision \in Nat \ {0} /\ Degree \in Nat \ {0}
  /\ LatErr * Rows = 90 * Degree /\ LngErr * Columns = 180 * Degree

(* Said of powers in general, which the provers do not know. *)
ASSUME PowersAssumption ==
  2 ^ 0 = 1 /\ \A n \in 0..LngBits : 2 ^ n \in Nat \ {0} /\ 2 ^ (n + 1) = 2 * 2 ^ n

ASSUME GeoAssumption ==
  /\ Located \cup Centers \subseteq [lat : Int, lng : Int]
  /\ \A q \in Centers, p \in Located : GeoMetres(q, p) \in Int
  /\ GeoKs \subseteq Int

VARIABLES
  cells, inserted,   \* the fields of Index: cells, count
  search, center,    \* the running search, "nearby" or "nearest", its place
  limit,             \* and its radius or its k
  queue,             \* candidateCells: the cells to look at, in order
  candidates,        \* and those it returns, in order
  ring,              \* FindKNearest: frontier, the cells of a round
  gathered,          \* and all: the entries of past rounds, a sequence
  visited,           \* the cells seen, in either search
  located,           \* the answer, a sequence of entries
  geoPc              \* "idle", "search" or "done"

indexed == <<cells, inserted>>
wanted == <<search, center, limit>>
progress == <<queue, candidates, ring, gathered, visited, located, geoPc>>
geoVars == <<indexed, wanted, progress>>

-----------------------------------------------------------------------------
(* The interval that is left of one, in which mid belongs to the upper     *)
(* half, and its number among all of its size.                             *)
Halve(v, was) ==
  LET mid == (was.low + was.high) \div 2
  IN  IF v >= mid
      THEN [number |-> 2 * was.number + 1, low |-> mid, high |-> was.high]
      ELSE [number |-> 2 * was.number, low |-> was.low, high |-> mid]

(* The number that some halvings of -half..half lead to. *)
Bisected(v, half, bits) ==
  LET after[n \in 0..bits] ==
        IF n = 0 THEN [number |-> 0, low |-> -half, high |-> half]
        ELSE Halve(v, after[n - 1])
  IN  after[bits].number

Encode(p) == [row |-> Bisected(p.lat, 90 * Degree, LatBits),
              col |-> Bisected(p.lng, 180 * Degree, LngBits)]

(* The centre of a cell. *)
Decode(c) == [lat |-> LatErr * (2 * c.row + 1) - 90 * Degree,
              lng |-> LngErr * (2 * c.col + 1) - 180 * Degree]

clampLat(lat) ==
  IF lat > 90 * Degree THEN 90 * Degree
  ELSE IF lat < -90 * Degree THEN -90 * Degree ELSE lat

clampLng(lng) ==                             \* mutant: the world ends at the date line
  IF lng > 180 * Degree THEN 180 * Degree
  ELSE IF lng < -180 * Degree THEN -180 * Degree ELSE lng

wrapLng(lng) ==
  IF lng > 180 * Degree THEN lng - 360 * Degree
  ELSE IF lng < -180 * Degree THEN lng + 360 * Degree ELSE lng

Directions == <<<<1, 0>>, <<1, 1>>, <<0, 1>>, <<-1, 1>>,
                <<-1, 0>>, <<-1, -1>>, <<0, -1>>, <<1, -1>>>>

(* In the top and the bottom row a cell is its own neighbour. *)
Neighbor(c, d) ==
  Encode([lat |-> clampLat(Decode(c).lat + 2 * LatErr * d[1]),
          lng |-> wrapLng(Decode(c).lng + 2 * LngErr * d[2])])

Adjacent(c) == [n \in 1..8 |-> Neighbor(c, Directions[n])]

(* The elements of a sequence, each where it comes first. *)
Once(s) == FoldLeft(LAMBDA t, e : IF e \in ToSet(t) THEN t ELSE Append(t, e), <<>>, s)

Neighbors(c) == Once(Adjacent(c))

-----------------------------------------------------------------------------
Entries == UNION {{<<c, n>> : n \in 1..Len(cells[c])} : c \in DOMAIN cells}

EntriesIn(cs) == {e \in Entries : e[1] \in cs}

PointAt(e) == cells[e[1]][e[2]]

Away(e) == GeoMetres(center, PointAt(e))

(* sort.Slice leaves the order of equally far entries open. *)
Sortings(es) ==
  {s \in {[n \in DOMAIN es |-> es[place[n]]] : place \in Bijection(DOMAIN es, DOMAIN es)} :
     \A m, n \in DOMAIN es : m < n => Away(s[m]) <= Away(s[n])}

-----------------------------------------------------------------------------
GeoInit ==
  /\ cells = [c \in {} |-> <<>>] /\ inserted = 0
  /\ search = "none" /\ center = <<>> /\ limit = 0
  /\ queue = <<>> /\ candidates = <<>> /\ ring = {} /\ gathered = <<>>
  /\ visited = {} /\ located = <<>>
  /\ geoPc = "idle"

In(c) == IF c \in DOMAIN cells THEN cells[c] ELSE <<>>

InsertPoint(p) ==
  /\ geoPc = "idle" /\ inserted < MaxLocated
  /\ LET h == Encode(p)
     IN  cells' = [c \in DOMAIN cells \cup {h} |->
                     IF c = h THEN Append(In(h), p) ELSE cells[c]]
  /\ inserted' = inserted + 1
  /\ UNCHANGED <<wanted, progress>>

Ask(kind, place, bound) ==
  /\ geoPc = "idle"
  /\ search' = kind /\ center' = place /\ limit' = bound
  /\ UNCHANGED <<indexed, candidates, gathered, located>>

SearchNearby(place, radius) ==
  /\ Ask("nearby", place, radius)
  /\ queue' = <<Encode(place)>> /\ visited' = {Encode(place)}
  /\ geoPc' = "search"
  /\ UNCHANGED ring

SearchNearest(place, k) ==
  /\ Ask("nearest", place, k)
  /\ ring' = {Encode(place)}
  /\ geoPc' = IF k <= 0 \/ inserted = 0 THEN "done" ELSE "search"
  /\ UNCHANGED <<queue, visited>>

CutoffAtRadius == limit                      \* mutant: the centre has to be in the circle

Cutoff == limit + CellDiag(center)

(* candidateCells: a cell within reach brings its neighbours. *)
ExpandCell ==
  /\ geoPc = "search" /\ search = "nearby" /\ queue # <<>>
  /\ LET cur == Head(queue)
         new == SelectSeq(Neighbors(cur), LAMBDA c : c \notin visited)
         far == GeoMetres(center, Decode(cur)) > Cutoff
     IN  \/ /\ far
            /\ queue' = Tail(queue)
            /\ UNCHANGED <<visited, candidates>>
         \/ /\ ~far
            /\ candidates' = Append(candidates, cur)
            /\ visited' = visited \cup ToSet(new)
            /\ queue' = Tail(queue) \o new
  /\ UNCHANGED <<indexed, wanted, ring, gathered, located, geoPc>>

AnswerNearby ==
  /\ geoPc = "search" /\ search = "nearby" /\ queue = <<>>
  /\ LET of(c) == [n \in 1..Len(In(c)) |-> <<c, n>>]
         found == FlattenSeq([m \in DOMAIN candidates |-> of(candidates[m])])
     IN  located' \in Sortings(SelectSeq(found, LAMBDA e : Away(e) <= limit))
  /\ geoPc' = "done"
  /\ UNCHANGED <<indexed, wanted, queue, candidates, ring, gathered, visited>>

(* One round of FindKNearest.  A map collects the cells of the next round  *)
(* and gives them out in any order, which sorting makes irrelevant.  Cells *)
(* of this round that are put into the next one again, by a neighbour that *)
(* comes before them, are skipped there, and left out here.                *)
NextRing ==
  /\ geoPc = "search" /\ search = "nearest"
  /\ ring # {} /\ Len(gathered) < limit
  /\ visited' = visited \cup ring
  /\ gathered' = gathered \o SetToSeq(EntriesIn(ring))
  /\ ring' = (UNION {ToSet(Adjacent(c)) : c \in ring}) \ visited'
  /\ UNCHANGED <<indexed, wanted, queue, candidates, located, geoPc>>

AnswerNearest ==
  /\ geoPc = "search" /\ search = "nearest"
  /\ ring = {} \/ Len(gathered) >= limit
  /\ \E all \in Sortings(gathered) :
       located' = IF Len(all) > limit THEN SubSeq(all, 1, limit) ELSE all
  /\ geoPc' = "done"
  /\ UNCHANGED <<indexed, wanted, queue, candidates, ring, gathered, visited>>

ReturnLocated ==
  /\ geoPc = "done"
  /\ search' = "none" /\ center' = <<>> /\ limit' = 0
  /\ queue' = <<>> /\ candidates' = <<>> /\ ring' = {} /\ gathered' = <<>>
  /\ visited' = {} /\ located' = <<>>
  /\ geoPc' = "idle"
  /\ UNCHANGED indexed

GeoNext ==
  \/ \E p \in Located : InsertPoint(p)
  \/ \E place \in Centers, radius \in GeoRadii : SearchNearby(place, radius)
  \/ \E place \in Centers, k \in GeoKs : SearchNearest(place, k)
  \/ ExpandCell \/ AnswerNearby \/ NextRing \/ AnswerNearest \/ ReturnLocated

GeoSpec == GeoInit /\ [][GeoNext]_geoVars

-----------------------------------------------------------------------------
(* REPORT.md promises that the breadth-first search covers the whole       *)
(* circle, also across the date line and around the poles, although it     *)
(* goes on only from cells with their centre within reach: FindNearby      *)
(* answers with all the points that a scan finds, each as often as it was  *)
(* inserted.                                                               *)
NearbyCellsCover ==
  geoPc = "done" /\ search = "nearby" =>
    IsInjective(located) /\ ToSet(located) = {e \in Entries : Away(e) <= limit}

(* The rows or columns between two cells, whichever are more; the columns  *)
(* go around the world.                                                    *)
Gap(m, n) == IF m <= n THEN n - m ELSE m - n

RowsApart(c, d) == Gap(c.row, d.row)

ColumnsApart(c, d) ==
  LET gap == Gap(c.col, d.col) IN IF gap <= Columns - gap THEN gap ELSE Columns - gap

Apart(c, d) ==
  IF RowsApart(c, d) >= ColumnsApart(c, d) THEN RowsApart(c, d) ELSE ColumnsApart(c, d)

Ring(p, q) == Apart(Encode(p), Encode(q))

(* FindKNearest finds as many points as there are, up to k.  It stops with *)
(* the ring of cells that completes k, so the points need not be the       *)
(* nearest ones: but one that is nearer than a point of the answer and not *)
(* in it lies in a ring farther out than all of those.                     *)
NearestByRings ==
  geoPc = "done" /\ search = "nearest" =>
    /\ IsInjective(located) /\ ToSet(located) \subseteq Entries
    /\ Len(located) = IF limit <= 0 THEN 0 ELSE IF limit < inserted THEN limit ELSE inserted
    /\ \A e \in Entries \ ToSet(located), f \in ToSet(located) :
         Away(e) < Away(f) =>
           \A g \in ToSet(located) : Ring(center, PointAt(e)) > Ring(center, PointAt(g))
=============================================================================
