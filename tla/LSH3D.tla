-------------------------------- MODULE LSH3D --------------------------------
(***************************************************************************)
(* The index of lab-1-3hashAlgos (internal/lsh3d/lsh3d.go) that looks for  *)
(* points close to each other: each point is in one bucket of every table, *)
(* and only points that share a bucket are compared.                       *)
(*                                                                         *)
(* The keys are floating-point projections onto random directions; here    *)
(* each table has an arbitrary key function.  Points have different IDs.   *)
(***************************************************************************)
EXTENDS Integers, FiniteSets, SequencesExt

CONSTANTS
  Cloud,          \* the points, by their IDs
  KeyOf,          \* for each table the key of each point
  Dist,           \* the distance of two points, dist3D
  MaxDists        \* the arguments of FullScanDuplicates

ASSUME CloudAssumption == Cloud \subseteq Nat /\ Len(KeyOf) \in Nat

VARIABLES
  tables,         \* for each table its buckets, by key
  all,            \* the points added, in that order
  scanned,        \* "none", "query" or "pairs": the call that is running
  argument,       \* its point or its distance
  table,          \* the number of the table that the call has come to
  buckets,        \* the keys of this table's buckets still to be visited
  bucket,         \* the bucket that is visited
  first, second,  \* the places in it that the loops have come to
  seen,           \* the IDs, or pairs of them, that were met
  hits            \* the result so far

lshIndex == <<tables, all>>
loops == <<table, buckets, bucket, first, second>>
lshVars == <<lshIndex, scanned, argument, loops, seen, hits>>

TableNumbers == 1..Len(KeyOf)

Bucket(t, key) == IF key \in DOMAIN tables[t] THEN tables[t][key] ELSE <<>>

AtFirst(s) == bucket' = s /\ first' = 1 /\ second' = 2

LshInit ==
  /\ tables = [t \in TableNumbers |-> [key \in {} |-> <<>>]] /\ all = <<>>
  /\ scanned = "none" /\ argument = 0
  /\ table = 0 /\ buckets = {} /\ bucket = <<>> /\ first = 1 /\ second = 2
  /\ seen = {} /\ hits = <<>>

Add(p) ==
  /\ scanned = "none" /\ p \notin ToSet(all)
  /\ tables' = [t \in TableNumbers |->
                  [key \in DOMAIN tables[t] \cup {KeyOf[t][p]} |->
                     IF key = KeyOf[t][p] THEN Append(Bucket(t, key), p)
                     ELSE tables[t][key]]]
  /\ all' = Append(all, p)
  /\ UNCHANGED <<scanned, argument, loops, seen, hits>>

Call(kind, arg) ==
  /\ scanned = "none"
  /\ scanned' = kind /\ argument' = arg
  /\ UNCHANGED <<lshIndex, loops, seen, hits>>

BucketDone == IF scanned = "query" THEN first > Len(bucket) ELSE first >= Len(bucket)

(* The next table: Query looks at the bucket of its point, the other call  *)
(* at all buckets.  The places start anew with every bucket.               *)
NextTable ==
  /\ scanned # "none" /\ BucketDone /\ buckets = {} /\ table < Len(KeyOf)
  /\ table' = table + 1
  /\ buckets' = IF scanned = "query" THEN {KeyOf[table'][argument]} ELSE DOMAIN tables[table']
  /\ AtFirst(<<>>)
  /\ UNCHANGED <<lshIndex, scanned, argument, seen, hits>>

(* The buckets of a table come in any order. *)
VisitBucket ==
  /\ scanned # "none" /\ BucketDone
  /\ \E key \in buckets : AtFirst(Bucket(table, key)) /\ buckets' = buckets \ {key}
  /\ UNCHANGED <<lshIndex, scanned, argument, table, seen, hits>>

AnyIsNew(x) == TRUE                          \* mutant: what was met before is taken again

IsNew(x) == x \notin seen

(* Query: a point of the bucket. *)
CompareWithPoint ==
  /\ scanned = "query" /\ first <= Len(bucket)
  /\ LET c == bucket[first]
     IN  IF c # argument /\ IsNew(c)
         THEN seen' = seen \cup {c} /\ hits' = Append(hits, <<c, Dist[{argument, c}]>>)
         ELSE UNCHANGED <<seen, hits>>
  /\ first' = first + 1
  /\ UNCHANGED <<lshIndex, scanned, argument, table, buckets, bucket, second>>

(* The pairs of IDs have the smaller one first. *)
Ordered(p, q) == IF p > q THEN <<q, p>> ELSE <<p, q>>

(* FullScanDuplicates: the pair that the two loops have come to ...        *)
ComparePair ==
  /\ scanned = "pairs" /\ second <= Len(bucket)
  /\ LET pair == Ordered(bucket[first], bucket[second])
     IN  /\ seen' = seen \cup {pair}
         /\ hits' = IF IsNew(pair) /\ Dist[ToSet(pair)] <= argument
                    THEN Append(hits, pair) ELSE hits
  /\ second' = second + 1
  /\ UNCHANGED <<lshIndex, scanned, argument, table, buckets, bucket, first>>

(* ... and the next round of the outer one. *)
NextFirst ==
  /\ scanned = "pairs" /\ second > Len(bucket) /\ first < Len(bucket)
  /\ first' = first + 1 /\ second' = first + 2
  /\ UNCHANGED <<lshIndex, scanned, argument, table, buckets, bucket, seen, hits>>

AllVisited == scanned # "none" /\ table = Len(KeyOf) /\ buckets = {} /\ BucketDone

HandOver ==
  /\ AllVisited
  /\ scanned' = "none" /\ argument' = 0
  /\ table' = 0 /\ AtFirst(<<>>) /\ seen' = {} /\ hits' = <<>>
  /\ UNCHANGED <<lshIndex, buckets>>

LshNext ==
  \/ \E p \in Cloud : Add(p) \/ Call("query", p)
  \/ \E d \in MaxDists : Call("pairs", d)
  \/ NextTable \/ VisitBucket
  \/ CompareWithPoint \/ ComparePair \/ NextFirst
  \/ HandOver

LshSpec == LshInit /\ [][LshNext]_lshVars

-----------------------------------------------------------------------------
ShareBucket(p, q) == \E t \in TableNumbers : KeyOf[t][p] = KeyOf[t][q]

(* The two searches agree: a point is a candidate of another one, or a     *)
(* pair is a duplicate, exactly if some table puts the two into one        *)
(* bucket, and for a duplicate they are close.  What several tables show   *)
(* is reported once, in whatever order the buckets come.                   *)
EachPairOnce ==
  AllVisited =>
    /\ IsInjective(hits)
    /\ scanned = "query" =>
         ToSet(hits) = {<<q, Dist[{argument, q}]>> :
                          q \in {q \in ToSet(all) \ {argument} : ShareBucket(argument, q)}}
    /\ scanned = "pairs" =>
         ToSet(hits) = {pair \in ToSet(all) \X ToSet(all) :
                          /\ pair[1] < pair[2] /\ ShareBucket(pair[1], pair[2])
                          /\ Dist[ToSet(pair)] <= argument}
=============================================================================
