# Verification of the SIAOD labs

TLA+ models of the data structures in this repository, TLC runs that check them
on small instances, and TLAPS proofs of what holds for every instance. Paths
below are relative to `src/`.

## 1. The system and its parts

The repository is five separate programs of a course on data structures. They
share no code and exchange no data; components interact only inside a lab.

| Part | State | Operations | What makes it hard | What makes it correct |
|---|---|---|---|---|
| `lab-4-concmap` **Map** (`map.go`) | atomic pointer to a table of buckets, each with an RWMutex and a chain; atomic counter; `resizeMu` | Put, Get, Merge, Clear, Size, Range; resize inside Put and Merge | any number of goroutines; a table pointer read before a lock and used after it; resize and Clear that lock everything; counter read without a lock | linearizable calls, weakly consistent Range, exact size, no lost node, no deadlock, load factor kept |
| `lab-4-concmap` **Plain** (`plain.go`) | built-in map, one RWMutex | the same | callbacks between the read and the write of Merge, and in the middle of Range | linearizable calls; Range is a snapshot |
| `lab-4-concmap` **Unsafe** (`unsafe.go`) | built-in map | the same | none, it is the tests' oracle | it is the sequential meaning the other two are compared with |
| `lab-4-concmap` hashers (`hasher.go`) | none | hash of a key | none | the hash of a key does not change |
| `lab-1-3hashAlgos` **hashfs** | a file: header and bucket heads (mapped), records (`WriteAt`/`ReadAt`) | Open, Put, Get, Delete, Reset, Close | several stores per call, each visible in the file if the process ends there; failed and cut writes; space reused after Reset | Put and Delete are atomic and durable, chains stay intact, reads end |
| `lab-1-3hashAlgos` **perfecthash** | map from key to index | Build, Lookup, Serialize, Deserialize | truncated data, lengths that come from the data | round trip; refusal of cut data |
| `lab-1-3hashAlgos` **lsh3d** | tables from key to points | Add, Query, FullScanDuplicates | a pair that shares buckets in several tables; buckets in any order | each pair that shares a bucket once, and no pair beyond the distance |
| `lab-2-geo` **geo** | none | geohash Encode, Decode, Neighbors; haversine | floating point; poles and date line | a point is in the cell of its hash, neighbours go around the world |
| `lab-2-geo` **geoindex** | map from cell to points | Insert, FindNearby, FindKNearest | when the breadth-first searches stop | by radius the answer of `brute`; by number the nearest of the rings of cells visited |
| `lab-2-geo` **kdtree** | binary tree | Insert, BuildBalanced, FindNearby, FindKNearest | the test that cuts subtrees off, equal coordinates, the heap, a reckoning of degrees that differs from the distance | the answer of `brute`, up to the code's own reckoning of degrees (3, 7) |
| `lab-3-vecSearch` | none of its own | Python scripts that measure third-party libraries | none | none stated |
| `lab-5-irindex` **index** | documents, posting lists, a scratch table, a buffer of document numbers | Add, AddLean, Postings, AllDocIDs | the scratch table and the buffer outlive the call that filled them | posting lists and the buffer are exact |
| `lab-5-irindex` **queries** (`parse.go`, `eval*.go`, `scan.go`) | error field of the parser; buffers of `EvalCtx` | Parse, Eval, SlowEval | an error that only some callers look at; slices that share a buffer; merges with leaps; windows | the parser accepts the grammar; Eval = SlowEval, answers stay what they were |
| `lab-5-irindex` **codecs** (`bitpack.go`, `p4delta.go`, `encode_stream.go`, `varint_legacy.go`) | none | encode, decode | widths and exceptions at the limits of a block | round trip; refusal of cut data |
| `lab-5-irindex` **storage** (`storage.go`) | index file, mapping | SaveCompressed, OpenMMapIndex, Postings, Close | saves that fail or stop; files rewritten under a reader | a prefix is refused, a whole file gives back the index |
| generators, statistics, display, command lines | none | I/O | none | none worth a model |

Parts in bold have a model. `PROJECT.json` lists the parts with what is modelled of each, and under
`hazards` every place in the code where something can go wrong that a test
hardly reaches, with the property that watches it.

## 2. Plan

The order follows the risk: first what runs concurrently or must survive a
crash, then the sequential algorithms.

1. **Done.** `MapAPI`, `AtomicMap`, `ConcMap`, `PlainMap`: the concurrent maps.
2. **Done.** `DurableStore`, `HashFS`: the file-backed table.
3. **Done.** `ConcMap_proofs`: types, mutual exclusion, stability of a checked
   table, placement of the nodes, growth.
4. **Done.** `SortedMerge`, `PositionScan`, `TermWindow` (the loops of query
   evaluation, together in `QueryLoops`), `InvIndex`, `QueryEval` (Eval with its shared arrays, `SlowEval`
   as the reference).
5. **Done.** `Bytes`, `Codecs`, `PerfectHash`, put together with a transport
   that cuts data in `RoundTrip`; `IndexFile`: the file between a writer and a
   reader; together in `StoredBytes`. `QueryParse`: the parser against its grammar,
   in `QueryLoops`.
6. **Done.** `KDTree` over whole degrees, compared with the scan of `brute`;
   `GeoIndex` compared with the same scan; `LSH3D`; together in `PointSearches`.
7. **Done.** `PlainMap_proofs`, and the last part of `ConcMap_proofs`: both maps
   implement `AtomicMap`.
8. **Done.** `HashFS_proofs`: `HashFS` implements `DurableStore`.
9. **Done.** `NumberSets_proofs`, `QueryLoops_proofs` and `QueryEval_proofs`: the
   loops, the index and the evaluation. `PointSearches_proofs`: the tree and the
   hashed cloud.
10. **Done.** `IndexFile_proofs`: a save that is not finished leaves a file that
    is refused, and lookups in a whole one are exact.
11. **Done.** The last part of `PointSearches_proofs`: the rings of `FindKNearest`
    in `GeoIndex`.

Abstract specifications: `AtomicMap` (a map whose calls take effect at one
instant) is implemented by `ConcMap` and `PlainMap`; `DurableStore` (a
dictionary that survives its process) by `HashFS`. The sequential parts are
compared with reference definitions instead. Everything that is proved about
is written without RECURSIVE; the syntax trees are numbered nodes, so that a
function over the numbers, in which a node comes after its children, does the
recursion. Operators declared RECURSIVE are left to the parser and the decoders,
which only TLC checks.

## 3. Modules

### Concurrent maps

`MapAPI` holds the interface `stringIntMap` of the tests: the requests and, in
`After` and `Answer`, what each does to a map nobody else touches. This is
`Unsafe`. `AtomicMap` is the promise: invoke, take effect, return, per
goroutine; Range reports pairs that are in the map at that moment, and one that
ends by itself has reported every key that was there all along.

`ConcMap` is `map.go`. Correspondence of state:

| Model | Code |
|---|---|
| `tab`, `size`, `resizeMu` | `m.tab`, `m.size`, `m.resizeMu`; a table is named by its number of buckets |
| `chain[<<n, i>>]` | the chain of bucket `i` of the table with `n` buckets, as a set of nodes |
| `writer`, `readers` | the RWMutex of a bucket: `writer` is set when `Lock` begins (new readers wait), the writer enters when `readers` is empty |
| `pc`, `req`, `ret`, `tbl`, `idx`, `got` | a goroutine: where it is, its call, its answer, `t`/`old`, the loop index, the value Merge has read |
| `gone`, `seen`, `steady` | history for the refinement, read by no guard |

A step is one shared access: a load or store of an atomic, one half of a lock
operation, or the part of a critical section that touches only nodes. The nodes
are protected by the bucket lock, so a walk along a chain and the change at its
end are one step; the counter and the table pointer are read by others without
the lock, so `Count`, `Publish` and `StoreZero` are steps of their own. Both
calls of callbacks are visible: `CallMerger`/`StoreMerged` are two steps.
The relinking of nodes by `resize` (lines 194-202) is one step: every lock of
the old table is held and the new table is not reachable by anyone.

| Action | Code |
|---|---|
| `Load` | `t := m.table()` in Put, Get, Merge, Range; the load in `m.needsResize(m.table())` |
| `LockWrite`, `AwaitReaders` | `b.mu.Lock()` (213-216, 268-270), the locking loops (184-186, 300-302) |
| `LockRead` | `b.mu.RLock()` (243, 338) |
| `Retry` | table replaced: `continue`, `goto restart` |
| `ReadValue`, `Overwrite`, `CallMerger`, `StoreMerged`, `Insert` | the searches and what follows |
| `Count`, `UnlockBucket`, `CheckGrowth` | `m.size.Add(1)`, `Unlock`, `needsResize` |
| `LockMutex`, `Begin`, `AwaitNext`, `RecheckResize`, `Publish` | `resize` |
| `LockMutex`, `Begin`, `AwaitNext`, `RecheckClear`, `StoreZero` | `Clear` |
| `UnlockNext`, `LeaveLoop` | the unlocking loops and the deferred unlock |
| `ReadSize`, `VisitBucket`, `StopRange` | Size and Range |

The hash function, the load factor (a fraction), the initial and maximal number
of buckets and the merger are constants.

`PlainMap` is `plain.go`, with the same lock model, one lock for the map.

### hashfs

`DurableStore` promises one client that Put and Delete are atomic, that a call
which reports an error changed nothing, that a read returns what was written
last, and that this survives the process. Reset may stop half way.

`HashFS` is the code. A file is a header, heads and cells; a record is as many
cells as `Size` says, each holding the record and its part number, so that a
record cut short or overwritten in part is told from a whole one. Each store to
the file is a step: `Append` (WriteAt), `AdvanceTail`, `LinkRecord`, each
iteration of Reset (`WipeHead`), `Rewind`, each field of the header in `Format`.
`AppendFails` leaves any proper prefix of the record. `Stop` ends the process
at any program counter in `StopPCs`; the file stays as it is, since the page
cache and a shared mapping outlive a process. `OpenExisting` takes the bucket
count of the file, whatever the options say. `linked` is a history variable:
the offsets a head has held since it was last 0.

### Index and queries

`SortedMerge`, `PositionScan` and `TermWindow` are the loops of `eval.go`. A
behaviour is one call; its arguments are chosen in `Init`, a step is one
iteration of a loop, and the actions are the branches of its body. `QueryArgs`
has what they work on. `QueryLoops` puts them together: a goroutine calls
one of them and executes it while the others rest, which is what the run
`query_loops` checks. The theorems are about each of the three apart.
`NumberSets` has what a set of numbers is as an ascending slice (`InOrder`): the
answers, the documents of a posting list, the positions of a term.

`QueryParse` is `parse.go`. A text is the sequence of its tokens, and a parse
function is an operator from the token in front and the error field to a node,
the next token and the error field; what it does with an error of the function
it has called is what the code does. The reference is the grammar, as the set of
trees a sequence of tokens is derived from (`OrTrees`): the parser has to
return the one tree there is, or refuse if there is none.

| Module | Code | Actions |
|---|---|---|
| `SortedMerge` | `intersectSortedSkipInto`, `unionSortedInto`, `subtractSortedInto` | `Match`, `TakeA`, `TakeB`, `DropB` for the comparison of the two numbers in front; `SkipA`, `SkipB` for a step or the first leap, `LeapA`, `LeapB` for the inner loops (51-54, 62-65); `ReturnEarly`, `LeaveLoop` |
| `PositionScan` | `positionsNear`, `positionsAdj` | `FindPair`, `PassNear`, `PassAdj`, `GiveUp` |
| `TermWindow` | `msmInDoc` | `AddOccurrence` (349-350), `FindWindow`, `DropFirst`, `KeepWindow` for the loop that shrinks |

`InvIndex` is `index.go`: `AddDoc` is a whole `add` with its clearing of the
scratch table, `AllDocIDs` the buffer that is made again only when its length
differs. `texts` is history: the tokens each document was added with, which
`AddLean` does not keep.

`QueryEval` extends it with `EvalCtx`. A slice is the number of an array in
`heap` and a length, so two slices can share an array as they do in Go: `tmp`
is `c.tmp`, and the result of a term is `tmp` itself. The other two buffers of
`EvalCtx`, `work` and `out`, are never assigned and stay nil, so what is
appended to `work[:0]` or `out[:0]` gets an array of its own (`Fresh`). `stack`
holds the calls of `eval` under way, since the evaluation of a child can change
what `tmp` holds; `Descend` calls for the first child, `ResumeNot`,
`ResumeFirst`, `ResumeOr` and `ResumeAnd` go on with the child's result. Go
leaves open whether `c.tmp` in `append(c.tmp[:0], c.eval(x)...)` is read before
the call or after it: `Targets` has both. The leaves are operators
(`EvalNear`, `EvalEdgeStart`, ...), with the loops of the three modules above
replaced by what these show them to compute (`NearIn`, `AdjIn`, `WindowIn`, set
operations). A width of MSM below zero, which a number that overflows can give,
is 0 for `EvalMSM` and stays what it is for `SlowEval`. `SaveAndMap` is the way from `SaveCompressed` to `OpenMMapIndex`:
the texts are lost, MSM has nothing to look at, and `Invoke` with `warn` is the
entry point that turns such queries away. `Holds` (with `LeafHolds` for the leaves)
and `SlowEval` are `scan.go`. `Nodes` has the nodes of all syntax trees, each after
what hangs on it; a tree is named by the number of its root, and trees can share
branches, since no code changes one.

### Codecs and files

`Codecs` has the encoders and decoders of posting lists as operators from
numbers to bytes and back, on bytes of `ByteBits` bits and words of four bytes:
`encodeP4Block` with its choice of a width and exceptions, the bit-packed and
the variable-length stream, the choice between these two, and
`encodePostings`/`decodePostings`, which put three streams into one. A decoder
gives a value or an error; every test of a length in the code is one there.
`PerfectHash` is `perfecthash.go` in the same way; since `Serialize` ranges over
a map, `Serialized` is the set of what it can return.

`RoundTrip` encodes one value (`Store`), may lose bytes at the end (`Lose`) and
decodes the rest (`Load`).

`IndexFile` is `storage.go` between `irindex`, which writes the file, and
`irquery`, which maps it. Nothing in the code orders the two.

| Action | Code |
|---|---|
| `SaveCompressed` | `saveIndexFile` up to and including the truncation by `os.WriteFile`; a term that is too long is refused before that |
| `Write` | a byte more in the file: `os.WriteFile` hands the system portions of any length |
| `StopSaving` | `os.WriteFile` returns, with or without an error, or the process ends |
| `Stat` | `OpenMMapIndex` up to the mapping |
| `Parse` | `parseHeader`; on an error the mapping is closed |
| `LookupPostings` | `Postings` and `postingDocIDs` |
| `Close` | `Close` |
| `Fault` | the reader touches a page that the file no longer has, which ends its process |

`Mapped` is what the reader sees: the bytes of the file as it is now, zeros
after its end. `asked` and `touched` are history: which index the last save has
begun to write, and whether a save has changed the file since `Stat`.

The encoder and the decoder of posting lists are parameters of `IndexFile`; the
run gives it those of `Codecs`. The loops of `parseHeader` are functions of the number
of entries read, each the one before and one more entry (`ReadTitle`, `ReadTerm`).
`ByteSize`, `HalfSize` and `WordSize` of `Bytes` are the numbers of values of a byte,
of two bytes and of four.

`StoredBytes` has `RoundTrip` and `IndexFile` beside each other; a behaviour is one
of one of them.

### Points

`KDTree` is `kdtree.go`, with the scan of `brute.go` beside it. A node is named
by the path to it, so the tree is a function from paths to points. `Place` is
the descent of `insertNode`. A balanced build takes one step per call of
`buildBalanced` (`BuildNode`): one of the orders in which `sort.Slice` can leave
the call's slice (`SortedSlice`; equal coordinates in any order) comes into the array
`pts`, the middle becomes the node, and what is before and after it waits in
`parts`, the stack of the slices that are still to be built. The tree grows in
place and can be asked only when the build is over; the points of the list are with
the scanner from the start. The recursion of the searches is a stack of the calls still to be made (`CallTo`):
the call for the far side of a node waits there with the distance to the
dividing line, and `IsMade` tests it after the near side has been searched, with
the heap as it is by then. `PushLast`, `PushOverRoot`, `HeapifyUp` and
`HeapifyDown` are the heap of the `k` nearest, one iteration per step. `Sorted` is the
sort of the answers by distance; the code leaves the order of equally far ones
open (`sort.Slice`), `Before` keeps the one they had, which no property asks for.

Distances are whole metres. `PlaneDist` is computed as in the code, 111.32 km
to a degree and no regard to the date line; the great-circle distance needs the
sine and is the parameter `Metres`, which the run gives as a table of what
`haversine.go` returns. The two do not agree, and the properties say what that
leaves: `NearbyIsScan` and `NearestIsScan` let a search miss only points that
the code's own reckoning puts beyond the answer.

`GeoIndex` is `geoindex.go` with what it uses of `geohash.go`. Coordinates are
whole fractions of a degree, chosen so that the borders and centres of the cells
are whole numbers, too. A geohash stands for a row and a column, whose numbers
are the bits of its letters. `Encode` finds them by bisection, `Decode` gives the
centre of the cell, and `Neighbor` encodes a point one cell away, clamped at
the poles and taken around the world at the date line. An entry is a cell and a
place in its slice: points can be equal, and an answer that had one twice would
show. `ExpandCell` is one iteration of the loop of `candidateCells`, `NextRing`
one round of `FindKNearest`; `AnswerNearby` and `AnswerNearest` filter, sort and
cut.

`LSH3D` is `lsh3d.go`: `Add`, `Query` and `FullScanDuplicates`. The two searches
share the loop over the tables (`NextTable`) and over the buckets
(`VisitBucket`), which come in any order; a step after that is one comparison,
`CompareWithPoint` or `ComparePair`. Each table has an arbitrary function from
points to keys, in place of the projections.

`PointSearches` has the three indexes beside each other.

## 4. Runs

| Run | Instance | What it shows |
|---|---|---|
| `concmap_calls` | 2 goroutines, 2 keys, 2 values, tables of 2 and 4 buckets; all calls | `Linearizable`, `SizeIsExact`, `WellPlaced`, `RechecksSucceed` while keys are inserted, merged, moved by a resize and cleared; Range is weakly consistent: restarts after a resize, stops by its callback |
| `concmap_crowd` | 3 goroutines, Put, Get, Clear, 2 keys, tables of 2, 4 and 8, load factor 1/4 | `Exclusion`, `CheckedTableIsCurrent`, `OnlyCurrentTableLinked`, `LoadIsPaidFor`, `GrowsUnderAllLocks` when two doublings, wanted by several goroutines at once, meet a Clear and an operation on one bucket |
| `concmap_live` | 2 goroutines, 2 keys, 1 value, tables of 2 and 4 buckets, load factor 1/4; all calls, strong fairness | `EveryCallReturns`, `OverloadEnds`; types, and with them that no table grows beyond the maximal size |
| `concmap_doc` | 2 goroutines, Put and Get | the comment at `map.go:2` is refuted, see 7 |
| `plain_calls` | 2 goroutines, all calls | `Linearizable`, `RangeIsSnapshot` |
| `hashfs_store` | 2 keys, values of 1 and 2 cells and one too large, 5 cells, opened with 1 and 2 buckets, stops anywhere after the format | `Durable`, `ChainsWhole`, `ChainsDescend`, `LinkedRecordsKept`, `CallsReturn` |
| `hashfs_open` | a small instance | a sentence of REPORT.md is refuted, see 7 |
| `query_loops` | merges of every pair of ascending lists of the numbers 0 to 5, and some of seven; scans of the same lists as positions, with distances 0, 1, 3; windows in every document of up to 5 tokens for every query of up to 3 terms, widths -1, 0, 1, 3; texts to parse | `Correct`, `FrontsApart`, `ScanCorrect`, `NothingMissed`, `WindowCorrect`, `ParsesTheGrammar`, `Returns` |
| `query_eval` | up to 2 documents, 2 evaluations, 8 queries with every operator at the root and below another | `EvalIsScan`, `WarnedAnswersExact`, `AnswersStay`, `IndexIsExact` |
| `stored_bytes` | values: streams of up to 7 numbers, 14 posting lists, lists of up to 3 keys, cut anywhere. File: 2 saves of 4 indexes, one of which is refused, and a reader | `ComesBack`, `CutRefused`; `OpenedIsWhole`, `LookupsExact` |
| `point_searches` | tree: up to 5 points out of 5 places around the date line and the first degree of latitude, inserted in any order, or built from 3 lists and then inserted into; 3 places, 4 radii, k of -1, 1, 2, 4. Geohash: up to 3 points out of 6 in 32 cells, 4 places, 3 radii, the same k. Cloud: 4 points, 3 tables, 2 distances | `SplitByPlanes`, `NearbyIsScan`, `NearestIsScan`; `NearbyCellsCover`, `NearestByRings`; `EachPairOnce` |
| `query_doc` | one document, one evaluation, NEAR of a term and itself, MSM of a negative width | the comment at `scan.go:3` is refuted, see 7 |

Why the bounds are enough. In a map with two buckets at first and load factor
1/2, the second key makes the table grow, so one resize happens in every
behaviour that inserts two keys. The keys share a bucket before it and part in
it (hashes 0 and 2), or part at once (0 and 3), which are the two cases a
doubling has. Two goroutines meet in every pair of program counters; the races
that need three (one resizes, one waits at the mutex, one is inside a bucket)
are what `concmap_crowd` has the third for; its load factor of 1/4 makes two
keys enough for two doublings. In `concmap_live` the same factor makes two keys
too many for the four buckets of the maximal table, in which calls have to return all
the same, without a resize.
In `hashfs_store` five cells hold a header area, two long records or three
short ones, so that records written after a Reset overlap the old ones in part,
and the disk fills up. The runs were repeated once with three goroutines in
`plain_calls` and six cells in `hashfs_store`, with the same results. Goroutines
are symmetric and no run with a liveness property uses that.

With lists of up to seven numbers the stride of a leap is 1, 2 or 3, and two
leaps in a row, a leap that ends at the last element and one that would pass it
all occur. The same numbers as positions hold three occurrences of each term
with gaps of two. Five tokens let a window of three occurrences shrink twice.
Two documents let the scratch table and the buffer of document numbers serve a
second time, for a document with the terms of the first, without them or
without any; two evaluations are what it takes to overwrite an answer, and a query with three
children under AND is what it takes to overwrite a branch twice. The trees are
as the parser makes them: at least two children under AND, at least one term
in MSM.

The texts to parse are all of up to five of the tokens that nest (a word,
parentheses, AND, OR, NOT), so that every pair of operators meets in both
orders and within parentheses; all of up to three tokens of any kind; and what
one missing, wrong or surplus token makes of correct texts with each kind of
leaf. An int has 4 bits (`IntBits`), so that the number 12 overflows.

Bytes have 5 bits (`ByteBits`), a word 20, a block of P4Delta three numbers with
at most one exception (`BlockSize`, `MaxExceptions`): streams of seven numbers
take three blocks, the last one not full; numbers lie on both sides of the
limit where the variable-length form grows, and at both ends of a word. Names
have at most two bytes (`MaxName`), so that one title is cut and one term
refused. Two saves (`MaxSaves`) let a file be rewritten by a shorter one and by
a longer one while it is mapped, and be left unfinished before or after.

Five points give a tree in which each kind of line lies below one of the other
kind, also with equal points on both sides of a line, and a heap of four items
in which a pushed item climbs or sinks two levels. Radius 0 puts the line
exactly at the bound; 111.25 km is a degree of latitude on the great circle but
not in the code's reckoning; the points on both sides of the date line are two
degrees apart and 358 in the reckoning.

A geohash of one letter (`Precision`) makes 4 rows of 8 cells, where the rows at
the poles and the columns at the date line are a large part of the world; the
three radii stay in a cell, reach over several and around the world. Three
points (`MaxLocated`) let a search by number stop a ring too early for a nearer
point. In the cloud two points share buckets in two tables, and two in none.

`CHECK_DEADLOCK` is on everywhere. `Tables` and `Capacity` are bounds
in guards that the program has as well: the first stands for `maxBucketBits`, which the code has, the second
for a full disk, which `WriteAt` reports. `QueryEval`
bounds the documents (`MaxDocs`) and the evaluations (`MaxCalls`), `KDTree` the
points of a tree (`MaxPoints`), `GeoIndex` those in the cells (`MaxLocated`),
`IndexFile` the saves (`MaxSaves`).
No other counter is cut off.

### Fairness

`ConcMap` assumes strong fairness of each goroutine's step (`FairSpec`). A
goroutine waiting for a lock can be passed by others only for a while:
`sync.Mutex` hands over to its longest waiter after a millisecond (starvation
mode), and a `sync.RWMutex` turns new readers away once a writer waits and lets
the readers that wait in before the next writer. Weak fairness would not say
that. `Invoke` is not fair: nobody has to call. A retry of Put or Get needs a
resize in between, and a table grows only so often; that the calls return
although Clear runs for ever is what the run shows. `HashFS` has one process and weak
fairness of its steps, while neither stop nor invocation are fair. The loops
of `QueryLoops` are sequential functions, which are executed until they return:
weak fairness of their steps (`LoopStep`; `Parse` is one step, and nothing is
claimed about it that would need fairness).

## 5. What is proved

For any sets of goroutines, keys and values, any hash function, any load factor
and any doubling family of tables (the named assumptions of `MapAPI` and
`ConcMap`):

| Theorem | States |
|---|---|
| `TypeCorrect` | `Spec => []TypeOK` |
| `ExclusionHolds` | `Spec => []Exclusion` |
| `CheckedTableStaysCurrent` | `Spec => []CheckedTableIsCurrent` |
| `RechecksAlwaysSucceed` | `Spec => []RechecksSucceed` |
| `NodesWellPlaced` | `Spec => []WellPlaced` |
| `NothingInReplacedTables` | `Spec => []OnlyCurrentTableLinked` |
| `SizeStaysExact` | `Spec => []SizeIsExact` |
| `MapIsLinearizable` | `Spec => Linearizable`: `ConcMap` implements `AtomicMap` |
| `LoadStaysPaidFor` | `Spec => []LoadIsPaidFor`, if `DoublingMakesRoom` |
| `GrowthHoldsAllLocks` | `Spec => GrowsUnderAllLocks` |

The argument is a tower of inductive invariants, each relying on the ones below:

1. `TypeInv` = `TypeOK` and `ControlOK`: which operation can be at which program
   counter, and that a loop index is inside its table. The types alone are not
   inductive: `chain[KeySlot(p)]` exists only if the request at that counter has
   a key.
2. `LockInv`: who is in a critical section holds its lock, with no reader
   inside; who is between the beginning and the end of resize or Clear holds
   `resizeMu`. `Exclusion` follows.
3. `TableInv` = `CheckedTableIsCurrent` and `SweepOK`: a checked table is current, and a
   resize that has begun to lock buckets is still needed. Only `Publish` changes
   the table, and its goroutine holds all bucket locks (`SweeperIsAlone`), so
   nobody else is past a check; only `StoreZero` shrinks the counter, and its
   goroutine holds `resizeMu`, so nobody resizes.
4. `PlaceInv` = `WellPlaced` and `OnlyCurrentTableLinked`: all nodes are in the current
   table (`Home`: the new one between the move and the store of the pointer),
   each in the bucket of its key, one per key. `StoreEffect`, `RehashEffect`,
   `UnlinkEffect` and `RestEffect` say what the steps do to the chains.
5. `LinInv` ties the buckets to the dictionary of `AtomicMap`. What callers see
   is the dictionary of the visible nodes (`VisibleIsMap`): a new node becomes
   visible when it is counted, and the nodes a Clear has unlinked stay visible
   until it stores size 0. So only `Count`, `Overwrite`, `StoreMerged`
   (`PutEffect`) and `StoreZero` (`ZeroEffect`) change the dictionary, and all
   else keeps it (`DictStays`), the move of the nodes in a resize
   (`RehashSame`) included. `AtBucket` says that who is in the bucket of a
   key finds there what the dictionary holds. `SizeIsExact` follows step by
   step; for the refinement, `AnswerInv` and `RangeInv` say what a call has
   answered or reported so far, and each step is `Invoke`, `TakeEffect`,
   `Report`, `Return` or a stutter.
6. `LoadInv`: only a `Count` adds to the load, and it adds its goroutine to
   those that have still to look at it (`Growing`). Who leaves them has found the
   size not above the threshold of a table no larger than the current one
   (`CheckedOlder`), or has doubled the table. `DoublingMakesRoom` is a
   hypothesis of the theorem: each doubling raises the threshold. It holds once
   every table has a threshold of at least one key (`OneKeyMakesRoom`), which is
   so with the default load factor.

For `PlainMap`, from the assumptions of `MapAPI` alone:

| Theorem | States |
|---|---|
| `RangeReportsSnapshot` | `Spec => []RangeIsSnapshot` |
| `PlainIsLinearizable` | `Spec => Linearizable`: `PlainMap` implements `AtomicMap` |

Neither is inductive alone. `PlainInv` adds to the types which call can be where
(`Control`), that a writer inside is alone and a reader inside is registered
(`Locked`), and with these that the value a Merge has read, and the pairs a Range
has reported, are still in the map (`Fresh`). In the refinement the steps that
lock and the one that calls the merger are stutters, `Write` and `Read` are
`TakeEffect`, `Visit` and `EndRange` are `Report`; a Range that ends by itself
has reported all of the map, hence every key that was there all along.

For `HashFS`, for any keys, values, record sizes, hash function, bucket counts
and capacity (`SizesAssumption`), with one hypothesis, `FormatEnds`: the
process does not end while it makes a new file. `hashfs_open` shows that this
one is needed. At every other step it may end.

| Theorem | States |
|---|---|
| `ChainsStayWhole` | `Spec => []ChainsWhole` |
| `ChainsStayOrdered` | `Spec => []ChainsDescend` |
| `RecordsAreKept` | `Spec => LinkedRecordsKept` |
| `FileIsDurable` | `Spec => Durable`: `HashFS` implements `DurableStore` |

`FileInv` is inductive. It adds to the two properties of the chains that the
header of a made file is complete (`Formatted`), that a record written and not
yet linked lies beyond all linked ones (`InFlight`), that Reset rewinds the
tail only when all chains are empty (`Wiping`), and that a walk has passed
only records of other keys (`Walking`). `Descending` says of an offset that it
is the largest (`Top`), where `ChainsDescend` chooses the largest. Writes go to the
tail and linked records end before it, so none is touched (`WriteSpares`);
`ChainsLink` and `ChainsWipe` are the two ways a chain changes. The dictionary
of `DurableStore` has for each key the value of its newest linked record. Only
`LinkRecord` (`LinkWrites`) and `WipeHead` (`WipeForgets`) change it, which are
`Write` and `Wipe` of `DurableStore`; `Found` and `NotFound` answer from it
(`WalkReads`), since what a walk finds first is the newest.

For the loops of query evaluation, for any set of ascending lists of numbers
(`ListsAssumption` of `SortedMerge`), so for lists of every length, for any position
lists and distances, and for any documents, lists of terms and widths
(`WindowsAssumption`):

| Theorem | States |
|---|---|
| `MergeTypeCorrect` | the indexes stay in their lists, leaps included |
| `FrontsStayApart` | `Spec => []FrontsApart` |
| `MergesAreCorrect` | `Spec => []Correct`: a merge returns its set operation, ascending |
| `ScanTypeCorrect` | `ScanSpec => []ScanTypeOK` |
| `NothingIsMissed` | `ScanSpec => []NothingMissed` |
| `ScansAreCorrect` | `ScanSpec => []ScanCorrect`: the answer is yes exactly if there is a pair |
| `WindowsAreCorrect` | `WindowSpec => []WindowCorrect`: the answer is yes exactly if some window will do |

Again each invariant relies on the ones below.

1. `ControlInv`: types, and what the program counter says of the indexes: a
   leap has landed inside its list, on a number not above that of the other
   list. `StrideExists` shows that the CHOOSE of a stride chooses something.
2. `FrontsApart` is inductive with it. A leap from `i` to `next` passes only
   numbers smaller than `a[next]`, hence than all that is left in `b`
   (`LeapKeepsApart`).
3. `Content`: the result so far is the set operation on what was passed, in
   ascending order and below all that is left. What is passed without being
   taken has no partner, by `FrontsApart` (`LeapAddsNothing`); what is appended
   at the end is above everything in front (`ConcatAscends`). `Correct` follows
   when a list is used up. All of it is about ranges and indexes and needs no
   induction over the lists.
4. `NothingMissed` is inductive because the lists ascend: if the smaller of two
   numbers is too far from the other one, it is too far from all after it
   (`NoPartnerAhead`). With the fact that a positive answer has a pair,
   `ScanCorrect` follows.

5. `WindowInv`: the counters are the numbers of occurrences between the two
   indexes (`HaveCounts`); what has left the window is too far from its end
   (`LeftIsFar`), and stays so since positions ascend (`FartherOff`); no window
   that ends where the loop has been will do (`TriedFail`). The loop looks at the
   longest window for each end alone: a shorter one has no more occurrences
   (`MoreOccurrences`, `NoOtherWindow`). The loop knows only the occurrences of the
   query's terms; `WindowIsOccurrences` says that windows of the document and windows
   of occurrences come to the same, for a negative width too, where none fits.

For the index and the evaluation of queries, for any terms, texts and syntax
trees (`NodesAssumption`: what the parser guarantees of the number of
children), any number of documents and of calls, in memory or mapped:

| Theorem | States |
|---|---|
| `IndexExact` | `Spec => []IndexIsExact` |
| `AnswersAreKept` | `Spec => []AnswersStay` |
| `EvaluationIsScan` | `Spec => []EvalIsScan` |
| `WarnedAreExact` | `Spec => []WarnedAnswersExact` |

None is inductive alone; the conjunction `MainInv` is.

1. `IndexInv` adds to `IndexIsExact` that the scratch table is empty but for the keys
   of the last document, and that the buffer counts up from 0, whatever its length:
   `AddDocKeepsIndex` follows a document through the table
   (`SortedStays`: the positions are sorted already, `PostingsGrow`).
2. `StackInv`: the calls of `eval` under way are a path of the tree. `HeapInv`:
   slices lie within their arrays. `AliasInv` is the reason why sharing arrays does
   no harm: only `tmp` and the destinations of the calls under way can be
   written to (`Overwritable`), and no accumulator, and no result but that of a
   single term, is in one of those arrays (`Kept`). `GivenInv` says the same of the
   answers handed out, from which `AnswersStay` follows step by step.
3. `ContentInv`: the accumulator of each call is the set of documents that
   its branches evaluated so far leave (`SoFar`), and what is returned is the set of
   those that satisfy the tree (`Sat`). `LeafExact` compares the leaves, which look
   at posting lists, with `LeafHolds`, which looks at the text; `NotStep`, `OrStep`,
   `FirstStep` and `AndStep` the set operations with `HoldsUnfolds`. `TermStep` is the
   delicate one: the result is `tmp`, which the caller uses up before the next call.
   Where Go leaves the order of evaluation open (`Targets`), both orders
   are in the proof.
4. `WarnInv`: a query the entry point let through has no MSM, hence needs no
   texts (`WarnedNeedNoTexts`).

The theorem about `EvalIsScan` says as much as the property: the trees with NEAR of a
term and itself or with MSM of negative width are left out (`Disputed`, see 7), and so
is MSM where the texts are missing.

For the tree of points, for any points and queries with whole coordinates, any
distances that are natural numbers and any metres per degree, negative ones
included (`PlacesAssumption`), and any lists handed to BuildBalanced
(`ListsAssumption` of `KDTree`):

| Theorem | States |
|---|---|
| `TreeIsSplit` | `Spec => []SplitByPlanes` |
| `NearbyAnswers` | `Spec => []NearbyIsScan` |
| `NearestAnswers` | `Spec => []NearestIsScan` |

1. `TreeInv`: with a node, all those on the path to it are there; every node divides what is
   under it; the scanner has the same points, each as often. The
   descent of an insertion ends at one place (`DescentEnds`, by the length of paths, which
   `count` bounds). While a balanced build is under way, `BuildInv` takes its place.
   The nodes made so far are a tree with the same property, and each slice
   still to be built lies, all of it, on the side where its subtree will be (`Awaits`), so that
   sorting it disturbs nothing (`BuildNodeKeeps`). The slices are apart (`Unlike`), and the
   indexes outside them are those of the nodes, one to one (`Placed`), so that at
   the end the tree has the points of the list (`BuildIsTree`).
2. `SearchInv`: the calls on the stack are for subtrees apart from each other and
   from what was found (`Separate`, `FoundInv`), and a call that can be cut off is for the far
   side of a node, at that node's line (`Planned`). Each node is found,
   under a call still to be made, or excused (`LeftInv`). `Excused` is
   said of every point found and not of the one at the root of the heap, so that it
   does not depend on the order in the heap: what is pushed over the root
   is nearer than what goes, so an excuse remains one. `BeyondLine` is
   the step from a line to the points behind it: they are at least as far
   in the code's reckoning.
3. `HeapInv`: the heap is in order but for the hole that the loop has come to, and what
   is under the hole fits under what is over it (`Bridged`). So the root is the
   farthest (`RootIsFarthest`) whenever a search compares with it.
4. At the end the stack is empty, and each node left out is excused. `FoundCount` and
   `LeftOut` turn nodes into the bags of points the properties are about.

For the hashed cloud, for any points with different IDs, any number of tables with any
key functions and any distances (`CloudAssumption`):

| Theorem | States |
|---|---|
| `CloudAnswers` | `LshSpec => []EachPairOnce` |

`TablesInv` says that each bucket lists exactly the points with its key, each once
(`Lists`, `ListsMore`). `QueryInv` and `PairsInv` say that what the loops have passed
was met, and what was met shares a table, and that the result lists what was met
and is near. A pair is passed (`Behind`) with a table or a bucket the loops
have left, or within the bucket with the two places (`Passed`); that a pair is in one bucket of a
table, in either order, is what makes leaving a bucket safe (`BucketPair`,
`PairsDone`).

For the geohash index, for any precision, any unit that makes the borders and the
centres of the cells whole, any points and places, and any distances that are
whole numbers (`UnitsAssumption`, `GeoAssumption`):

| Theorem | States |
|---|---|
| `RingsAnswerNearest` | `GeoSpec => []NearestByRings` |

1. `BisectionFinds`: after each halving the interval that is left is the one whose number
   has been built, and holds the coordinate unless that lies beyond an end of the axis
   (`HalvedTo`). So `Encode` gives the one row and the one column that hold a point,
   and the last ones for what is beyond (`RowFound`, `ColFound`).
2. `NeighborBeside`: what `Neighbor` finds by moving the centre by a cell, clamping, wrapping
   and encoding again is the cell beside: the same row again at a pole, the first
   column after the last.
3. `RingsTouch` and `InwardCell`: a neighbour is at most one ring farther out, and each
   cell of a ring has a neighbour in the ring before, also the short way around the world.
   Hence a ring without cells has none beyond it (`RingExists`).
4. `RingInv`: after r rounds the cells seen are those less than r rows or columns away, the
   next ones are those at r, and what was gathered lists the entries of the cells seen, each
   once (`NextRingSeen`). With `EntryInv` (a point is in the slice of its cell,
   and the index counts its points), sorting and cutting give the
   property (`RingsAnswer`): what was gathered and cut off is not nearer, and what was not
   gathered lies farther out than all that was.

`PowersAssumption` says of the powers of two up to the bits of a geohash what they
are in general, as `ByteSizeAssumption` below.

For the index file, for any indexes whose lengths and counts fit the fields they are
written to (`IndexAssumption`), any limit of a name, and any codec that decodes what
it has encoded (`CodecAssumption`):

| Theorem | States |
|---|---|
| `CutFileRefused` | `parseHeader` refuses every beginning of a saved file but the whole, which it reads back |
| `OpenedAlwaysWhole` | `FileSpec => []OpenedIsWhole` |
| `LookupsAlwaysExact` | `FileSpec => []LookupsExact` |

1. `ImageLayout` says where everything is in the bytes of an index: each title and
   each term follows the one before, and the file ends with the last posting list. The
   order in which `Sorted` has the terms does not matter, but it has each once
   (`TermRankGrows`: the rank of a term is the number of those before it).
2. `ReadTitlesGives` and `ReadTermsGives` say what the two loops of `parseHeader`
   return for a string that holds the entries as far as it reaches: all of
   them, if it reaches to the end of the last one, and else the refusal. A step of a
   loop is `TitleStep` or `TermStep`. The same for the counts in front
   is `HeaderCases`, and `CutFileRefused` puts the three together.
3. `FileInv`: what is in the file and what is still to be written make up the image
   of the index saved last (`asked`); with no save since `Stat`, the reader has the size
   and the header of that file; and the last answer is the one that was saved. Both
   properties follow. A save under way is not excluded: the reader may open the file
   while it grows, which is then not the whole and refused.

`CodecAssumption` is what `stored_bytes` checks of the codecs (`ComesBack`), and
TLC evaluates it for the lists of its indexes. `ByteSizeAssumption` says that
the number of values of a byte, a power of two, is a positive number, since the
provers do not know powers.

The proofs assume nothing but the constants' assumptions and the two
hypotheses `DoublingMakesRoom` and `FormatEnds` of the theorems that state them.

## 6. What is only model-checked

The parser (`ParsesTheGrammar`), the codecs (`ComesBack`, `CutRefused`), the
search by radius in geohash cells (`NearbyCellsCover`), and all liveness. The prover cannot reason about ENABLED and
fairness, nor cite the induction theorems of its library (the recursive functions in
`IndexFile` and `GeoIndex` are followed to a least counterexample instead), nor reason
about RECURSIVE operators, which the parser and the decoders are made of. `NearbyCellsCover` rests on numbers that only a
table can give (the diagonal of a cell compared with great-circle
distances), so there is nothing to prove of it for all values. `KDTree` is
checked and proved with distances as parameters; that the great-circle
distance is one of those is not shown.

`OverloadEnds`, like `LoadIsPaidFor`, needs that doubling a table raises its
threshold (`DoublingMakesRoom`). With a load factor so small that the threshold
is still 0 after a doubling (`map.go:157` truncates it), one insert doubles the
table only once, and the table stays overloaded until the next insert. The runs
use 1/2 and 1/4. With 1/4 the first threshold is 0 and the second 1, and with up to
8 buckets the third is 2.

## 7. Where documents and code differ

* `map.go:2-3` and `lab-4-concmap/REPORT.md:45` say that a reader waits only
  for a writer of its own bucket. While the table grows, all buckets are locked
  (`concmap_doc`).
* `lab-1-3hashAlgos/REPORT.md:46` says that the file is always consistent. It
  is not while Open makes it, and it stays unusable if the process ends there
  (`hashfs_open`). Once it is made, `hashfs_store` confirms the sentence.
* `lab-1-3hashAlgos/REPORT.md:44` says that Put marks the old record of the
  key. No run is kept for that: `LinkedRecordsKept` says that Put leaves it as it
  is; reads are right because the new record comes first in the chain.
* `lab-5-irindex/internal/ir/scan.go:3` calls SlowEval the reference for
  verification, and `REPORT.md:268` counts on it for NEAR. For NEAR of a term
  and itself the index finds every document with the term and the scan finds
  none, because its `switch` gives every position to the first list
  (`query_doc`). MSM with a negative width, which a number that overflows while
  it is read can give (`parse.go:73`), is the other difference: the index takes
  it for 0, the scan does not, and finds nothing. For all other queries of the
  model they agree (`EvalIsScan`).

`kdtree.go:39` says that FindNearby returns all points within the radius. It
does up to the reckoning of section 3: with 111.25 km as the radius it can miss a
point one degree of latitude away (111.19 km), and with any radius a point
across the date line. No run is kept for this sentence; the last conjunct of
`NearbyIsScan` is the exact extent of it.

`geoindex.go:120` says that FindKNearest returns the k nearest points. It stops
as soon as the rings of cells it has visited hold k points, and a nearer point
can lie in the next ring. No run is kept for this sentence either;
`NearestByRings` is its exact extent. The sentence of `lab-2-geo/REPORT.md:132`
that the search by radius covers the circle, across the date line and at the
poles, is confirmed by `NearbyCellsCover` at one letter.

`collect.go` says that terms below a NOT are left out of the ranking; it changes
the sign at each NOT, so below two of them they count again. It affects scores
only, which are not modelled.

The comment at `map.go:320` is too modest: Size is exact during a Clear as well
(`SizeIsExact`).

## 8. What is not modelled

* Callbacks of Map and Plain that call the map again or panic. Map unlocks
  without `defer`, so a panic would leave a bucket locked.
* Power failures and several users of one file in hashfs: the code neither
  flushes nor locks.
* The hash functions; floating point: great-circle distances are tables of
  values, the projections of `lsh3d` arbitrary functions, ranking scores are left
  out. The letters of a geohash, and strings with others.
* Tokenising and reading of corpora, output, generators and the benchmarks, with
  the encoders of `compression_legacy.go` that are only measured and have no
  decoder.
* In `InvIndex`, the arena that positions lie in. `append` moves the arena when
  it is full, a posting keeps its slice of the old one, and nobody writes to an
  arena's used part.
* A reader whose file a save rewrites is in `IndexFile`, but nothing is promised
  to it: what it finds can be anything, and it can fault. Power failures there
  are left out as in hashfs.
* Evaluation (`QueryEval`) reads posting lists that decode. That those of a
  whole file do is `LookupsExact`; `eval_ctx.go:83` would take an error for a
  term that is in no document.
