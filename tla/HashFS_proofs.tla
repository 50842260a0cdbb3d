---------------------------- MODULE HashFS_proofs ----------------------------
(***************************************************************************)
(* The chains of the file-backed table stay whole and in order, and the    *)
(* table implements DurableStore, wherever a process ends and however its  *)
(* writes fail, once the file has been made.                               *)
(***************************************************************************)
EXTENDS HashFS, WellFoundedInduction, TLAPS

\* A process that makes a new file does not end before it is made.  What one
\* that does leaves behind is the matter of FileAlwaysConsistent.
FormatEnds == StopPCs \cap FormatPCs = {}

Types ==
  /\ created \in BOOLEAN
  /\ hdr \in [magic : BOOLEAN, buckets : Nat, start : Nat, tail : Nat]
  /\ heads \in [Buckets -> 0..Capacity]
  /\ data \in [Cells -> Parts]
  /\ pc \in {"closed", "ready"} \cup FormatPCs \cup CallPCs
  /\ req \in Requests \cup {NoRequest}
  /\ count \in Nat /\ idx \in Nat /\ off \in Nat
  /\ linked \in [Buckets -> SUBSET Nat]

\* Which call can be where.
Control ==
  /\ pc = "check" => req.op = "Put"
  /\ pc \in {"append", "advance", "link"} => req.op \in {"Put", "Delete"}
  /\ pc \in {"seek", "walk"} => req.op = "Get"
  /\ pc \in {"wipe", "rewind"} => req.op = "Reset"
  /\ pc \notin CallPCs => req = NoRequest /\ ret = NoVal
  /\ pc \notin {"wipe", "rewind", "done"} => idx = 0

\* The header of a file is complete unless a process is making it.
Formatted ==
  /\ ~created => pc = "closed"
  /\ pc \in FormatPCs \/ ~created => \A b \in Buckets : heads[b] = 0 /\ linked[b] = {}
  /\ pc \in FormatPCs => count \in OpenCounts
  /\ pc \in {"start", "tail"} => hdr.buckets = count
  /\ pc = "tail" => hdr.start = DataStart(count)
  /\ created /\ pc \notin FormatPCs =>
       hdr.buckets \in OpenCounts /\ 0 < hdr.start /\ hdr.start <= hdr.tail
  /\ pc \in {"ready"} \cup CallPCs => count = hdr.buckets

\* m is the largest element of S, or 0 if there is none.
Top(m, S) == m \in S \cup {0} /\ \A u \in S : u <= m

\* The inductive form of ChainsDescend: it names the largest offset instead of
\* choosing it.
Descending ==
  \A b \in Buckets :
    /\ Top(heads[b], linked[b])
    /\ \A o \in linked[b] : Top(RecordAt(o).next, {u \in linked[b] : u < o})

\* A record that is written and not yet linked lies beyond all linked ones.
InFlight ==
  pc \in {"advance", "link"} =>
    /\ hdr.start <= off /\ Whole(off) /\ RecordAt(off) = NewRecord
    /\ hdr.tail = IF pc = "advance" THEN off ELSE NewTail
    /\ \A b \in Buckets : \A o \in linked[b] : o + Size[RecordAt(o).val] <= off

\* Reset has emptied the buckets it has passed.
Wiping ==
  /\ pc = "wipe" => idx < count /\ \A b \in Buckets : b < idx => linked[b] = {}
  /\ pc = "rewind" => \A b \in Buckets : linked[b] = {}

\* A walk has passed only records of other keys.
Walking ==
  pc = "walk" =>
    /\ off \in linked[BucketOf(req.key)] \cup {0}
    /\ \A u \in linked[BucketOf(req.key)] : off < u => RecordAt(u).key # req.key

FileInv ==
  /\ Types /\ Control /\ Formatted /\ ChainsWhole /\ Descending
  /\ InFlight /\ Wiping /\ Walking

-----------------------------------------------------------------------------
(* Constants, requests and records.                                         *)

LEMMA BucketCounts ==
  \A n \in OpenCounts : n \in Nat \ {0} /\ n <= MaxBuckets /\ MaxBuckets \in Nat
<1>1. PICK m \in OpenCounts : \A n \in OpenCounts : n <= m
  BY SizesAssumption
<1>2. MaxBuckets \in OpenCounts /\ \A n \in OpenCounts : n <= MaxBuckets
  BY <1>1 DEF MaxBuckets
<1>. QED BY <1>2, SizesAssumption

\* The area of the records begins after the header.
LEMMA DataStartIsPositive == \A n \in Nat : DataStart(n) \in Nat \ {0}
<1>. SUFFICES ASSUME NEW n \in Nat PROVE DataStart(n) \in Nat \ {0}
  OBVIOUS
<1>1. HeaderSize + n \in Nat \ {0} /\ PageSize \in Nat
  BY SizesAssumption
<1>2. CASE PageSize = 0
  BY <1>1, <1>2 DEF DataStart, AlignUp
<1>3. CASE PageSize # 0
  <2>1. (HeaderSize + n) % PageSize \in 0..(PageSize - 1)
    BY <1>1, <1>3
  <2>. QED BY <1>1, <1>3, <2>1 DEF DataStart, AlignUp
<1>. QED BY <1>2, <1>3

\* A request with a key has one, and its record a size.
LEMMA KeyedRequest ==
  ASSUME Types, req.op \in {"Put", "Get", "Delete"}
  PROVE  /\ req \in Requests /\ req.key \in Keys /\ req.val \in Vals \cup {NoVal}
         /\ Size[req.val] \in Nat \ {0} /\ Hash[req.key] \in Nat
<1>1. req \in Requests
  BY DEF Types, NoRequest
<1>2. req.key \in Keys /\ req.val \in Vals \cup {NoVal}
  BY <1>1 DEF Requests
<1>. QED BY <1>1, <1>2, SizesAssumption

\* Its bucket is one of the table.
LEMMA BucketInTable ==
  ASSUME Types, Formatted, pc \in CallPCs, req.op \in {"Put", "Get", "Delete"}
  PROVE  BucketOf(req.key) \in Buckets /\ BucketOf(req.key) < count
<1>1. count \in Nat \ {0} /\ count <= MaxBuckets /\ MaxBuckets \in Nat
  BY BucketCounts DEF Formatted, FormatPCs, CallPCs
<1>2. Hash[req.key] \in Nat
  BY KeyedRequest
<1>3. BucketOf(req.key) \in 0..(count - 1)
  BY <1>1, <1>2 DEF BucketOf
<1>. QED BY <1>1, <1>3 DEF Buckets

\* A whole record is a record, of at least one cell.
LEMMA WholeRecord ==
  ASSUME Types, NEW o, Whole(o)
  PROVE  /\ o \in Cells /\ RecordAt(o) \in Records
         /\ Size[RecordAt(o).val] \in Nat \ {0}
         /\ o \in Nat /\ o + Size[RecordAt(o).val] <= Capacity
<1>1. o \in Cells /\ o \in Nat
  BY SizesAssumption DEF Whole, Cells
<1>2. data[o] # Hole
  BY DEF Whole, Hole
<1>3. RecordAt(o) \in Records
  BY <1>1, <1>2 DEF Types, Parts, RecordAt
<1>4. RecordAt(o).val \in Vals \cup {NoVal}
  BY <1>3 DEF Records
<1>. QED BY <1>1, <1>3, <1>4, SizesAssumption DEF Whole

\* Whether a record is whole depends on its own cells.
LEMMA WholeStays ==
  ASSUME Types, NEW o, Whole(o),
         \A i \in 0..(Size[RecordAt(o).val] - 1) : data'[o + i] = data[o + i]
  PROVE  RecordAt(o)' = RecordAt(o) /\ Whole(o)'
<1>1. Size[RecordAt(o).val] \in Nat \ {0} /\ o \in Nat
  BY WholeRecord
<1>2. data'[o] = data[o]
  <2>1. 0 \in 0..(Size[RecordAt(o).val] - 1) /\ o + 0 = o
    BY <1>1
  <2>. QED BY <2>1
<1>3. RecordAt(o)' = RecordAt(o)
  BY <1>2 DEF RecordAt
<1>. QED BY <1>2, <1>3 DEF Whole

\* What is written at the tail leaves the records before it alone.
LEMMA WriteSpares ==
  ASSUME Types, ChainsWhole, NEW n \in Nat, WriteAt(n), NEW b \in Buckets, NEW o \in linked[b]
  PROVE  RecordAt(o)' = RecordAt(o) /\ Whole(o)'
<1>1. Whole(o) /\ o + Size[RecordAt(o).val] <= hdr.tail
  BY DEF ChainsWhole
<1>2. /\ o \in Nat /\ o + Size[RecordAt(o).val] <= Capacity
      /\ Size[RecordAt(o).val] \in Nat \ {0}
  BY <1>1, WholeRecord
<1>3. ASSUME NEW i \in 0..(Size[RecordAt(o).val] - 1) PROVE data'[o + i] = data[o + i]
  <2>0. hdr.tail \in Nat /\ Capacity \in Nat
    BY SizesAssumption DEF Types
  <2>. DEFINE In(a) == a - hdr.tail \in 0..(n - 1)
              Part(a) == [rec |-> NewRecord, part |-> a - hdr.tail]
  <2>1. o + i \in Cells /\ ~ In(o + i)
    BY <1>1, <1>2, <2>0 DEF Cells
  <2>2. data' = [a \in Cells |-> IF In(a) THEN Part(a) ELSE data[a]]
    BY DEF WriteAt
  <2>. HIDE DEF In, Part
  <2>. QED BY <2>1, <2>2
<1>. QED BY <1>1, <1>3, WholeStays

\* A set of numbers with an upper bound has a largest element.
LEMMA LargestExists ==
  ASSUME NEW c \in Nat, NEW S \in SUBSET (0..c), S # {}
  PROVE  \E m \in S : \A u \in S : u <= m
<1>. DEFINE T == {x \in 0..c : c - x \in S}
<1>1. T \subseteq Nat
  OBVIOUS
<1>2. T # {}
  <2>1. PICK u \in S : TRUE
    OBVIOUS
  <2>2. c - u \in T
    BY <2>1
  <2>. QED BY <2>2
<1>3. \E x \in T : \A y \in T : ~ (<<y, x>> \in OpToRel(<, Nat))
  <2>. HIDE DEF T
  <2>. QED BY <1>1, <1>2, NatLessThanWellFounded, WFMin
<1>4. PICK x \in T : \A y \in T : ~ (<<y, x>> \in OpToRel(<, Nat))
  BY <1>3
<1>5. ASSUME NEW u \in S PROVE u <= c - x
  <2>0. c - u \in 0..c /\ c - (c - u) = u /\ u \in Nat /\ x \in 0..c
    OBVIOUS
  <2>1. c - u \in T /\ c - u \in Nat /\ x \in Nat
    BY <2>0
  <2>2. ~ (c - u < x)
    BY <2>1, <1>4 DEF OpToRel
  <2>. QED BY <2>1, <2>2
<1>. QED BY <1>4, <1>5

\* Two largest elements are one.
LEMMA LargestIsMax ==
  ASSUME NEW S \in SUBSET Nat, NEW m \in S, \A u \in S : u <= m
  PROVE  Max(S) = m
<1>1. \A u \in S : m >= u
  OBVIOUS
<1>2. ASSUME NEW x \in S, \A u \in S : x >= u PROVE x = m
  BY <1>2
<1>. QED BY <1>1, <1>2 DEF Max

LEMMA TopIsMax ==
  ASSUME NEW S \in SUBSET Nat, NEW m, Top(m, S)
  PROVE  m = Max(S \cup {0})
<1>1. S \cup {0} \in SUBSET Nat /\ m \in S \cup {0} /\ \A u \in S \cup {0} : u <= m
  BY DEF Top
<1>. QED BY <1>1, LargestIsMax

-----------------------------------------------------------------------------
(* The chains: what the stores to the file do to them.                      *)

Chained == ChainsWhole /\ Descending

\* Steps that store nothing a chain goes by.
LEMMA ChainsIdle ==
  ASSUME Chained, Types, UNCHANGED <<heads, data, linked, hdr.buckets, hdr.start>>,
         hdr'.tail \in Nat, hdr.tail <= hdr'.tail
  PROVE  Chained'
<1>1. ASSUME NEW o PROVE RecordAt(o)' = RecordAt(o) /\ (Whole(o) => Whole(o)')
  BY DEF RecordAt, Whole
<1>2. ChainsWhole'
  <2>. SUFFICES ASSUME NEW b \in Buckets, NEW o \in linked[b]
                PROVE  /\ Whole(o)'
                       /\ hdr.start <= o /\ o + Size[RecordAt(o).val] <= hdr'.tail
                       /\ Hash[RecordAt(o).key] % hdr.buckets = b
    BY <1>1 DEF ChainsWhole
  <2>1. /\ Whole(o) /\ hdr.start <= o /\ o + Size[RecordAt(o).val] <= hdr.tail
        /\ Hash[RecordAt(o).key] % hdr.buckets = b
    BY DEF Chained, ChainsWhole
  <2>2. o + Size[RecordAt(o).val] \in Nat /\ hdr.tail \in Nat
    BY <2>1, WholeRecord DEF Types
  <2>. QED BY <1>1, <2>1, <2>2
<1>3. Descending'
  BY <1>1 DEF Chained, Descending, Top
<1>. QED BY <1>2, <1>3 DEF Chained

\* A write at the tail, whole or torn.
LEMMA ChainsWrite ==
  ASSUME Chained, Types, NEW n \in Nat, WriteAt(n), UNCHANGED linked
  PROVE  Chained'
<1>1. UNCHANGED <<heads, hdr.buckets, hdr.start, hdr.tail>>
  BY DEF WriteAt, Types
<1>2. ASSUME NEW b \in Buckets, NEW o \in linked[b]
      PROVE  RecordAt(o)' = RecordAt(o) /\ Whole(o)'
  BY WriteSpares DEF Chained
<1>3. ChainsWhole'
  BY <1>1, <1>2 DEF Chained, ChainsWhole
<1>4. Descending'
  BY <1>1, <1>2 DEF Chained, Descending, Top
<1>. QED BY <1>3, <1>4 DEF Chained

\* A record linked at the head of the chain of its key.
LEMMA ChainsLink ==
  ASSUME FileInv, LinkRecord
  PROVE  /\ off # 0 /\ BucketOf(req.key) \in Buckets
         /\ linked' = [linked EXCEPT ![BucketOf(req.key)] = @ \cup {off}]
         /\ RecordAt(off) = NewRecord
         /\ \A b \in Buckets : \A o \in linked[b] : o < off
         /\ Chained'
<1>. DEFINE B == BucketOf(req.key)
<1>t. Types /\ ChainsWhole /\ Descending /\ pc = "link" /\ pc \in CallPCs
  BY DEF FileInv, LinkRecord, Goto, CallPCs
<1>k. req.op \in {"Put", "Delete"} /\ created /\ pc \notin FormatPCs /\ Formatted
  BY <1>t DEF FileInv, Control, Formatted, FormatPCs, CallPCs
<1>1. B \in Buckets
  BY <1>t, <1>k, BucketInTable
<1>2. /\ hdr.start \in Nat /\ 0 < hdr.start /\ off \in Nat /\ hdr.start <= off
      /\ Whole(off) /\ RecordAt(off) = NewRecord
      /\ hdr.tail = off + Size[req.val] /\ count = hdr.buckets
  BY <1>t, <1>k DEF FileInv, InFlight, NewTail, Types, Formatted
<1>3. off # 0 /\ linked' = [linked EXCEPT ![B] = @ \cup {off}]
  <2>1. off # 0
    BY <1>2
  <2>. QED BY <2>1 DEF LinkRecord
<1>4. ASSUME NEW b \in Buckets, NEW o \in linked[b] PROVE o < off /\ o \in Nat
  <2>1. Whole(o) /\ o + Size[RecordAt(o).val] <= off
    BY <1>t DEF FileInv, ChainsWhole, InFlight
  <2>. QED BY <1>2, <2>1, WholeRecord, <1>t
<1>5. /\ heads' = [heads EXCEPT ![B] = off] /\ UNCHANGED <<data, hdr>>
      /\ heads \in [Buckets -> 0..Capacity] /\ linked \in [Buckets -> SUBSET Nat]
  BY <1>t DEF LinkRecord, Types
<1>6. ASSUME NEW o PROVE RecordAt(o)' = RecordAt(o) /\ (Whole(o) => Whole(o)')
  BY <1>5 DEF RecordAt, Whole
<1>7. /\ RecordAt(off).key = req.key /\ RecordAt(off).val = req.val
      /\ RecordAt(off).next = heads[B]
  BY <1>2 DEF NewRecord
<1>8. ChainsWhole'
  <2>. SUFFICES ASSUME NEW b \in Buckets, NEW o \in linked'[b]
                PROVE  /\ Whole(o)
                       /\ hdr.start <= o /\ o + Size[RecordAt(o).val] <= hdr.tail
                       /\ Hash[RecordAt(o).key] % hdr.buckets = b
    BY <1>5, <1>6 DEF ChainsWhole
  <2>1. CASE o \in linked[b]
    BY <1>t, <2>1 DEF ChainsWhole
  <2>2. CASE o \notin linked[b]
    <3>1. b = B /\ o = off
      BY <1>1, <1>3, <1>5, <2>2
    <3>2. off + Size[req.val] <= hdr.tail
      BY <1>2, <1>k, <1>t, KeyedRequest
    <3>. QED BY <1>2, <1>7, <3>1, <3>2 DEF BucketOf
  <2>. QED BY <2>1, <2>2
<1>9. Descending'
  <2>. SUFFICES ASSUME NEW b \in Buckets
                PROVE  /\ Top(heads'[b], linked'[b])
                       /\ \A o \in linked'[b] :
                            Top(RecordAt(o).next, {u \in linked'[b] : u < o})
    BY <1>6 DEF Descending, Top
  <2>1. /\ Top(heads[b], linked[b])
        /\ \A o \in linked[b] : Top(RecordAt(o).next, {u \in linked[b] : u < o})
    BY <1>t DEF Descending
  <2>2. CASE b # B
    BY <1>1, <1>3, <1>5, <2>1, <2>2
  <2>3. CASE b = B
    <3>1. heads'[b] = off /\ linked'[b] = linked[b] \cup {off}
      BY <1>1, <1>3, <1>5, <2>3
    <3>2. Top(heads'[b], linked'[b])
      BY <1>2, <1>4, <3>1 DEF Top
    <3>3. {u \in linked'[b] : u < off} = linked[b]
      BY <1>2, <1>4, <3>1
    <3>4. ASSUME NEW o \in linked[b]
          PROVE  {u \in linked'[b] : u < o} = {u \in linked[b] : u < o}
      BY <1>2, <1>4, <3>1
    <3>5. ASSUME NEW o \in linked'[b]
          PROVE  Top(RecordAt(o).next, {u \in linked'[b] : u < o})
      <4>1. CASE o \in linked[b]
        BY <2>1, <3>4, <4>1
      <4>2. CASE o = off
        BY <1>7, <2>1, <2>3, <3>3, <4>2
      <4>. QED BY <3>1, <4>1, <4>2
    <3>. QED BY <3>2, <3>5
  <2>. QED BY <2>2, <2>3
<1>. QED BY <1>1, <1>2, <1>3, <1>4, <1>8, <1>9 DEF Chained

\* A bucket emptied by Reset.
LEMMA ChainsWipe ==
  ASSUME FileInv, WipeHead
  PROVE  /\ idx \in Buckets /\ linked' = [linked EXCEPT ![idx] = {}] /\ Chained'
         /\ UNCHANGED <<data, hdr>>
<1>t. Types /\ ChainsWhole /\ Descending /\ pc = "wipe" /\ pc \in CallPCs
  BY DEF FileInv, WipeHead, Goto, CallPCs
<1>1. idx \in Buckets
  <2>1. idx < count /\ idx \in Nat
    BY <1>t DEF FileInv, Wiping, Types
  <2>2. count \in Nat /\ count <= MaxBuckets /\ MaxBuckets \in Nat
    BY <1>t, BucketCounts DEF FileInv, Formatted, FormatPCs, CallPCs
  <2>. QED BY <2>1, <2>2 DEF Buckets
<1>2. /\ heads' = [heads EXCEPT ![idx] = 0] /\ linked' = [linked EXCEPT ![idx] = {}]
      /\ UNCHANGED <<data, hdr>>
      /\ heads \in [Buckets -> 0..Capacity] /\ linked \in [Buckets -> SUBSET Nat]
  BY <1>t DEF WipeHead, Types
<1>3. ASSUME NEW o PROVE RecordAt(o)' = RecordAt(o) /\ (Whole(o) => Whole(o)')
  BY <1>2 DEF RecordAt, Whole
<1>4. ASSUME NEW b \in Buckets
      PROVE  \/ linked'[b] = linked[b] /\ heads'[b] = heads[b]
             \/ linked'[b] = {} /\ heads'[b] = 0
  BY <1>1, <1>2
<1>5. ChainsWhole'
  BY <1>t, <1>2, <1>3, <1>4 DEF ChainsWhole
<1>6. Descending'
  BY <1>t, <1>3, <1>4 DEF Descending, Top
<1>. QED BY <1>1, <1>2, <1>5, <1>6 DEF Chained

-----------------------------------------------------------------------------
(* The invariant, action by action.                                         *)

LEMMA FileInit == Init => FileInv
<1>. SUFFICES ASSUME Init PROVE FileInv
  OBVIOUS
<1>1. Types
  <2>1. \A a \in Cells : Hole \in Parts
    BY DEF Parts
  <2>2. heads \in [Buckets -> 0..Capacity] /\ linked \in [Buckets -> SUBSET Nat]
    BY SizesAssumption DEF Init
  <2>3. data \in [Cells -> Parts]
    BY <2>1 DEF Init
  <2>4. hdr \in [magic : BOOLEAN, buckets : Nat, start : Nat, tail : Nat]
    BY DEF Init
  <2>. QED BY <2>2, <2>3, <2>4 DEF Init, Types
<1>2. Control /\ Formatted
  BY DEF Init, Control, Formatted, FormatPCs, CallPCs
<1>3. ChainsWhole /\ Descending
  BY DEF Init, ChainsWhole, Descending, Top
<1>4. InFlight /\ Wiping /\ Walking
  BY DEF Init, InFlight, Wiping, Walking
<1>. QED BY <1>1, <1>2, <1>3, <1>4 DEF FileInv

\* A new file gets its header.
LEMMA FormatNext ==
  ASSUME FileInv, Format \/ \E n \in OpenCounts : OpenNew(n)
  PROVE  FileInv'
<1>t. Types /\ Control /\ Formatted /\ Chained
  BY DEF FileInv, Chained
<1>1. \A b \in Buckets : heads[b] = 0 /\ linked[b] = {}
  BY <1>t DEF Format, OpenNew, Goto, Formatted, FormatPCs
<1>2. UNCHANGED <<heads, data, linked, call, idx, off>>
  BY DEF Format, OpenNew
<1>3. ChainsWhole' /\ Descending'
  BY <1>1, <1>2 DEF ChainsWhole, Descending, Top
<1>4. CASE \E n \in OpenCounts : OpenNew(n)
  <2>0. PICK n \in OpenCounts : OpenNew(n)
    BY <1>4
  <2>1. n \in Nat /\ pc = "closed" /\ pc' = "magic" /\ count' = n /\ created' /\ UNCHANGED hdr
    BY <2>0, BucketCounts DEF OpenNew, Goto
  <2>2. Types'
    BY <2>1, <1>2, <1>t DEF Types, FormatPCs, CallPCs, call
  <2>3. Control' /\ Formatted'
    BY <2>0, <2>1, <1>1, <1>2, <1>t DEF Control, Formatted, FormatPCs, CallPCs, call
  <2>4. InFlight' /\ Wiping' /\ Walking'
    BY <2>1 DEF InFlight, Wiping, Walking
  <2>. QED BY <2>2, <2>3, <2>4, <1>3 DEF FileInv
<1>5. CASE Format
  <2>1. /\ pc \in FormatPCs /\ pc' \in {"buckets", "start", "tail", "ready"}
        /\ created /\ UNCHANGED <<created, count>> /\ count \in OpenCounts
    BY <1>5, <1>t DEF Format, Goto, FormatPCs, Formatted
  <2>2. count \in Nat /\ DataStart(count) \in Nat \ {0}
    BY <2>1, BucketCounts, DataStartIsPositive
  <2>3. Types'
    BY <1>5, <2>1, <2>2, <1>2, <1>t DEF Format, Types, FormatPCs, CallPCs, call
  <2>4. Control'
    BY <2>1, <1>2, <1>t DEF Control, FormatPCs, CallPCs, call
  <2>5. Formatted'
    BY <1>5, <2>1, <2>2, <1>1, <1>2, <1>t DEF Format, Goto, Formatted, FormatPCs, CallPCs, Types
  <2>6. InFlight' /\ Wiping' /\ Walking'
    BY <2>1 DEF InFlight, Wiping, Walking
  <2>. QED BY <2>3, <2>4, <2>5, <2>6, <1>3 DEF FileInv
<1>. QED BY <1>4, <1>5

\* Steps of a made file that store nothing in it and begin or end a call.
LEMMA BetweenCallsNext ==
  ASSUME FileInv, FormatEnds,
         Stop \/ Invoke \/ Return \/ \E n \in OpenCounts : OpenExisting(n)
  PROVE  FileInv'
<1>t. Types /\ Control /\ Formatted /\ Chained
  BY DEF FileInv, Chained
<1>1. UNCHANGED <<created, hdr, heads, data, linked>>
  BY DEF Stop, Invoke, Return, OpenExisting, file
<1>2. ChainsWhole' /\ Descending'
  <2>1. hdr.tail \in Nat
    BY <1>t DEF Types
  <2>. QED BY <2>1, <1>1, <1>t, ChainsIdle DEF Chained
<1>3. CASE Stop
  <2>1. pc \notin FormatPCs /\ pc' = "closed"
    BY <1>3 DEF Stop, FormatEnds
  <2>2. /\ req' = NoRequest /\ ret' = NoVal
        /\ count' = 0 /\ idx' = 0 /\ off' = 0
    BY <1>3 DEF Stop
  <2>3. Types' /\ Control' /\ Formatted'
    BY <2>1, <2>2, <1>1, <1>t DEF Types, Control, Formatted, FormatPCs, CallPCs
  <2>4. InFlight' /\ Wiping' /\ Walking'
    BY <2>1 DEF InFlight, Wiping, Walking
  <2>. QED BY <2>3, <2>4, <1>2 DEF FileInv
<1>4. CASE Return
  <2>1. /\ pc = "done" /\ pc' = "ready" /\ req' = NoRequest /\ ret' = NoVal
        /\ idx' = 0 /\ off' = 0 /\ count' = count
    BY <1>4 DEF Return, Goto
  <2>2. Types' /\ Control' /\ Formatted'
    BY <2>1, <1>1, <1>t DEF Types, Control, Formatted, FormatPCs, CallPCs
  <2>3. InFlight' /\ Wiping' /\ Walking'
    BY <2>1 DEF InFlight, Wiping, Walking
  <2>. QED BY <2>2, <2>3, <1>2 DEF FileInv
<1>5. CASE \E n \in OpenCounts : OpenExisting(n)
  <2>1. /\ pc = "closed" /\ pc' = "ready" /\ created /\ count' = hdr.buckets
        /\ UNCHANGED <<req, ret, idx, off>>
    BY <1>5 DEF OpenExisting, Goto, FileCount, call
  <2>2. Types' /\ Control' /\ Formatted'
    BY <2>1, <1>1, <1>t DEF Types, Control, Formatted, FormatPCs, CallPCs
  <2>3. InFlight' /\ Wiping' /\ Walking'
    BY <2>1 DEF InFlight, Wiping, Walking
  <2>. QED BY <2>2, <2>3, <1>2 DEF FileInv
<1>6. CASE Invoke
  <2>1. /\ pc = "ready" /\ req' \in Requests
        /\ UNCHANGED <<ret, count, idx, off>> /\ idx = 0 /\ created
    BY <1>6, <1>t DEF Invoke, Goto, Control, Formatted
  <2>2. \/ req'.op = "Put" /\ pc' = "check"
        \/ req'.op = "Delete" /\ pc' = "append"
        \/ req'.op = "Get" /\ pc' = "seek"
        \/ req'.op = "Reset" /\ pc' = "wipe"
    <3>1. req'.op \in {"Put", "Get", "Delete", "Reset"}
      BY <2>1 DEF Requests
    <3>. QED BY <3>1, <1>6 DEF Invoke, Goto, Entry
  <2>3. Types' /\ Control' /\ Formatted'
    BY <2>1, <2>2, <1>1, <1>t DEF Types, Control, Formatted, FormatPCs, CallPCs
  <2>4. count \in Nat \ {0}
    BY <2>1, <1>t, BucketCounts DEF Formatted, FormatPCs
  <2>5. Wiping'
    BY <2>1, <2>2, <2>4, BucketCounts DEF Wiping, Buckets
  <2>6. InFlight' /\ Walking'
    BY <2>2 DEF InFlight, Walking
  <2>. QED BY <2>3, <2>5, <2>6, <1>2 DEF FileInv
<1>. QED BY <1>3, <1>4, <1>5, <1>6

\* Searches, and a Put that is refused or let through.
LEMMA SearchNext ==
  ASSUME FileInv, CheckSize \/ Seek \/ WalkOn \/ Found \/ NotFound
  PROVE  FileInv'
<1>t. Types /\ Control /\ Formatted /\ ChainsWhole /\ Descending /\ Walking
  BY DEF FileInv
<1>1. /\ UNCHANGED <<created, hdr, heads, data, linked, req, count, idx>>
      /\ pc \in CallPCs /\ pc' \in {"append", "walk", "done"}
  BY DEF CheckSize, Seek, WalkOn, Found, NotFound, Goto, file, call, CallPCs
<1>2. ChainsWhole' /\ Descending'
  <2>1. hdr.tail \in Nat
    BY <1>t DEF Types
  <2>. QED BY <2>1, <1>1, <1>t, ChainsIdle DEF Chained
<1>3. InFlight' /\ Wiping'
  BY <1>1 DEF InFlight, Wiping
<1>4. ASSUME NEW o PROVE RecordAt(o)' = RecordAt(o)
  BY <1>1 DEF RecordAt
<1>5. BucketOf(req.key)' = BucketOf(req.key)
  BY <1>1 DEF BucketOf
<1>6. CASE CheckSize \/ Found \/ NotFound
  <2>1. /\ (pc' = "append" /\ pc = "check") \/ pc' = "done"
        /\ off' = off
    BY <1>6 DEF CheckSize, Found, NotFound, Goto
  <2>2. Types' /\ Control' /\ Formatted'
    BY <2>1, <1>1, <1>t DEF Types, Control, Formatted, FormatPCs, CallPCs
  <2>3. Walking'
    BY <2>1 DEF Walking
  <2>. QED BY <2>2, <2>3, <1>2, <1>3 DEF FileInv
<1>7. CASE Seek \/ WalkOn
  <2>. DEFINE b == BucketOf(req.key)
  <2>1. pc \in {"seek", "walk"} /\ pc' = "walk" /\ req.op = "Get"
    BY <1>7, <1>t DEF Seek, WalkOn, Goto, Control
  <2>2. b \in Buckets /\ linked[b] \subseteq Nat
    BY <2>1, <1>t, <1>1, BucketInTable DEF Types
  <2>3. /\ off' \in linked[b] \cup {0}
        /\ \A u \in linked[b] : off' < u => RecordAt(u).key # req.key
    <3>1. CASE Seek
      <4>1. off' = heads[b] /\ Top(heads[b], linked[b])
        BY <3>1, <2>2, <1>t DEF Seek, Descending
      <4>2. \A u \in linked[b] : u <= off' /\ off' \in Nat
        BY <4>1, <2>2 DEF Top
      <4>. QED BY <4>1, <4>2, <2>2 DEF Top
    <3>2. CASE WalkOn
      <4>1. off # 0 /\ RecordAt(off).key # req.key /\ off' = RecordAt(off).next /\ pc = "walk"
        BY <3>2 DEF WalkOn, Following
      <4>2. off \in linked[b] /\ \A u \in linked[b] : off < u => RecordAt(u).key # req.key
        BY <4>1, <1>t DEF Walking
      <4>3. Top(off', {u \in linked[b] : u < off})
        BY <4>1, <4>2, <2>2, <1>t DEF Descending
      <4>4. off' \in linked[b] \cup {0} /\ off' \in Nat
        BY <4>3, <2>2 DEF Top
      <4>5. ASSUME NEW u \in linked[b], off' < u PROVE RecordAt(u).key # req.key
        <5>1. ~ (u < off)
          BY <4>3, <4>4, <4>5, <2>2 DEF Top
        <5>. QED BY <4>1, <4>2, <5>1, <2>2
      <4>. QED BY <4>4, <4>5
    <3>. QED BY <1>7, <3>1, <3>2
  <2>4. Walking'
    BY <2>3, <1>1, <1>4, <1>5 DEF Walking
  <2>5. off' \in Nat
    BY <2>2, <2>3
  <2>6. Types' /\ Control' /\ Formatted'
    BY <2>1, <2>5, <1>1, <1>t DEF Types, Control, Formatted, FormatPCs, CallPCs
  <2>. QED BY <2>4, <2>6, <1>2, <1>3 DEF FileInv
<1>. QED BY <1>6, <1>7

\* A record is written, in whole or in part.
LEMMA AppendNext == ASSUME FileInv, Append \/ AppendFails PROVE FileInv'
<1>t. Types /\ Control /\ Formatted /\ Chained /\ ChainsWhole
  BY DEF FileInv, Chained
<1>1. pc = "append" /\ pc \in CallPCs /\ req.op \in {"Put", "Delete"}
  BY <1>t DEF Append, AppendFails, Goto, Control, CallPCs
<1>2. /\ Size[req.val] \in Nat \ {0} /\ req.key \in Keys /\ req.val \in Vals \cup {NoVal}
      /\ BucketOf(req.key) \in Buckets
  BY <1>1, <1>t, KeyedRequest, BucketInTable
<1>3. PICK n \in Nat : WriteAt(n) /\ (Append => n = Size[req.val])
  <2>1. CASE Append
    BY <2>1, <1>2 DEF Append
  <2>2. CASE AppendFails
    BY <2>2, <1>1, <1>2 DEF AppendFails, Append, Goto
  <2>. QED BY <2>1, <2>2
<1>4. /\ UNCHANGED <<heads, linked, created>> /\ hdr.tail + n <= Capacity
      /\ hdr.tail \in Nat /\ 0 < hdr.start /\ hdr.start <= hdr.tail /\ hdr' = hdr
  BY <1>1, <1>3, <1>t DEF Append, AppendFails, WriteAt, Types, Formatted, FormatPCs, CallPCs
<1>5. Chained'
  BY <1>3, <1>4, <1>t, ChainsWrite
<1>6. NewRecord \in Records
  BY <1>2, <1>t DEF NewRecord, Records, Types
<1>7. data' \in [Cells -> Parts]
  <2>1. ASSUME NEW a \in Cells, a - hdr.tail \in 0..(n - 1)
        PROVE  [rec |-> NewRecord, part |-> a - hdr.tail] \in Parts
    BY <2>1, <1>6 DEF Parts
  <2>. QED BY <2>1, <1>3, <1>t DEF WriteAt, Types
<1>8. CASE AppendFails
  <2>1. /\ UNCHANGED <<idx, off>>
        /\ \/ pc' = "done" /\ UNCHANGED <<req, count>>
           \/ pc' = "closed" /\ req' = NoRequest /\ ret' = NoVal /\ count' = 0
    BY <1>8 DEF AppendFails, Goto
  <2>2. Types'
    BY <2>1, <1>4, <1>7, <1>t DEF Types, CallPCs
  <2>3. Control' /\ Formatted'
    BY <2>1, <1>1, <1>4, <1>t DEF Control, Formatted, FormatPCs, CallPCs
  <2>4. InFlight' /\ Wiping' /\ Walking'
    BY <2>1 DEF InFlight, Wiping, Walking
  <2>. QED BY <2>2, <2>3, <2>4, <1>5 DEF FileInv, Chained
<1>9. CASE Append
  <2>1. /\ pc' = "advance" /\ off' = hdr.tail /\ UNCHANGED <<req, ret, count, idx>>
        /\ n = Size[req.val]
    BY <1>9, <1>3 DEF Append, Goto, call
  <2>2. Types'
    BY <2>1, <1>4, <1>7, <1>t DEF Types, CallPCs
  <2>3. Control' /\ Formatted'
    BY <2>1, <1>1, <1>4, <1>t DEF Control, Formatted, FormatPCs, CallPCs
  <2>4. Wiping' /\ Walking'
    BY <2>1 DEF Wiping, Walking
  <2>5. NewRecord' = NewRecord /\ NewRecord.val = req.val
    BY <2>1, <1>4 DEF NewRecord, BucketOf
  <2>6. ASSUME NEW i \in 0..(n - 1)
        PROVE  data'[off' + i] = [rec |-> NewRecord, part |-> i]
    <3>1. off' + i \in Cells /\ (off' + i) - hdr.tail = i
      BY <2>1, <1>2, <1>4, SizesAssumption DEF Cells
    <3>. QED BY <3>1, <1>3 DEF WriteAt
  <2>7. data'[off'] = [rec |-> NewRecord, part |-> 0] /\ off' \in Cells /\ n \in Nat \ {0}
    <3>1. 0 \in 0..(n - 1) /\ off' + 0 = off' /\ off' \in 0..(Capacity - 1)
      BY <2>1, <1>2, <1>4, SizesAssumption
    <3>. QED BY <3>1, <2>1, <2>6, <1>2 DEF Cells
  <2>8. RecordAt(off)' = NewRecord /\ Whole(off)'
    <3>1. RecordAt(off)' = NewRecord
      BY <2>7 DEF RecordAt
    <3>. QED BY <3>1, <2>1, <2>5, <2>6, <2>7, <1>4 DEF Whole
  <2>9. ASSUME NEW b \in Buckets, NEW o \in linked[b]
        PROVE  o + Size[RecordAt(o).val] <= hdr.tail /\ RecordAt(o)' = RecordAt(o)
    BY <1>3, <1>t, WriteSpares DEF ChainsWhole
  <2>10. InFlight'
    BY <2>1, <2>5, <2>8, <2>9, <1>4 DEF InFlight
  <2>. QED BY <2>2, <2>3, <2>4, <2>10, <1>5 DEF FileInv, Chained
<1>. QED BY <1>8, <1>9

\* The record becomes part of the file and of its chain.
LEMMA LinkNext == ASSUME FileInv, AdvanceTail \/ LinkRecord PROVE FileInv'
<1>t. /\ Types /\ Control /\ Formatted /\ Chained /\ InFlight
      /\ pc \in {"advance", "link"} /\ req.op \in {"Put", "Delete"} /\ pc \in CallPCs
  BY DEF FileInv, Chained, AdvanceTail, LinkRecord, Goto, Control, CallPCs
<1>1. /\ Size[req.val] \in Nat \ {0} /\ off \in Nat /\ Whole(off) /\ RecordAt(off) = NewRecord
      /\ 0 < hdr.start /\ hdr.start <= off /\ hdr.start \in Nat /\ NewRecord.val = req.val
  BY <1>t, KeyedRequest DEF InFlight, Types, Formatted, FormatPCs, CallPCs, NewRecord
<1>2. UNCHANGED <<created, data, req, count, idx, off>>
  BY DEF AdvanceTail, LinkRecord, call
<1>3. CASE AdvanceTail
  <2>1. /\ pc = "advance" /\ pc' = "link" /\ UNCHANGED <<heads, linked, ret>>
        /\ hdr' = [hdr EXCEPT !.tail = NewTail] /\ hdr.tail = off
    BY <1>3, <1>t DEF AdvanceTail, Goto, InFlight, call
  <2>2. /\ hdr'.tail = off + Size[req.val] /\ hdr'.tail \in Nat /\ hdr.tail <= hdr'.tail
        /\ UNCHANGED <<hdr.buckets, hdr.start>>
        /\ hdr' \in [magic : BOOLEAN, buckets : Nat, start : Nat, tail : Nat]
    BY <2>1, <1>1, <1>t DEF Types, NewTail
  <2>3. Chained'
    BY <2>1, <2>2, <1>2, <1>t, ChainsIdle
  <2>4. Types' /\ Control' /\ Formatted'
    BY <2>1, <2>2, <1>2, <1>t DEF Types, Control, Formatted, FormatPCs, CallPCs
  <2>5. NewRecord' = NewRecord /\ \A o : RecordAt(o)' = RecordAt(o) /\ (Whole(o) => Whole(o)')
    BY <2>1, <1>2 DEF NewRecord, BucketOf, RecordAt, Whole
  <2>6. InFlight'
    BY <2>1, <2>2, <2>5, <1>2, <1>t DEF InFlight, NewTail
  <2>7. Wiping' /\ Walking'
    BY <2>1 DEF Wiping, Walking
  <2>. QED BY <2>3, <2>4, <2>6, <2>7 DEF FileInv, Chained
<1>4. CASE LinkRecord
  <2>1. /\ pc' = "done" /\ UNCHANGED hdr /\ heads' = [heads EXCEPT ![BucketOf(req.key)] = off]
    BY <1>4 DEF LinkRecord, Goto
  <2>2. /\ linked' = [linked EXCEPT ![BucketOf(req.key)] = @ \cup {off}] /\ Chained'
        /\ BucketOf(req.key) \in Buckets
    BY <1>4, ChainsLink
  <2>3. off \in 0..Capacity
    BY <1>1, <1>t, WholeRecord, SizesAssumption
  <2>4. heads' \in [Buckets -> 0..Capacity] /\ linked' \in [Buckets -> SUBSET Nat]
    BY <2>1, <2>2, <2>3, <1>1, <1>t DEF Types
  <2>5. Types' /\ Control' /\ Formatted'
    BY <2>1, <2>4, <1>2, <1>t DEF Types, Control, Formatted, FormatPCs, CallPCs
  <2>6. InFlight' /\ Wiping' /\ Walking'
    BY <2>1 DEF InFlight, Wiping, Walking
  <2>. QED BY <2>2, <2>5, <2>6 DEF FileInv, Chained
<1>. QED BY <1>3, <1>4

\* Reset empties the buckets and then rewinds the tail.
LEMMA ResetNext == ASSUME FileInv, WipeHead \/ Rewind PROVE FileInv'
<1>t. /\ Types /\ Control /\ Formatted /\ Chained /\ ChainsWhole /\ Wiping
      /\ pc \in {"wipe", "rewind"} /\ req.op = "Reset" /\ pc \in CallPCs
      /\ count = hdr.buckets /\ created /\ pc \notin FormatPCs
  BY DEF FileInv, Chained, WipeHead, Rewind, Goto, Control, CallPCs, FormatPCs, Formatted
<1>1. UNCHANGED <<created, data, req, count, off>>
  BY DEF WipeHead, Rewind, call
<1>2. CASE WipeHead
  <2>1. /\ pc = "wipe" /\ pc' = (IF More THEN "wipe" ELSE "rewind") /\ idx' = idx + 1
        /\ heads' = [heads EXCEPT ![idx] = 0] /\ ret' = ret /\ idx \in Nat /\ count \in Nat
    BY <1>2, <1>t DEF WipeHead, Goto, call, Types
  <2>2. idx \in Buckets /\ linked' = [linked EXCEPT ![idx] = {}] /\ Chained' /\ UNCHANGED hdr
    BY <1>2, ChainsWipe
  <2>3. Types'
    BY <2>1, <2>2, <1>1, <1>t, SizesAssumption DEF Types, CallPCs
  <2>4. Control' /\ Formatted'
    BY <2>1, <2>2, <1>1, <1>t DEF Control, Formatted, FormatPCs, CallPCs
  <2>5. ASSUME NEW b \in Buckets, b < idx' PROVE linked'[b] = {}
    <3>1. b \in Int
      BY BucketCounts, SizesAssumption DEF Buckets
    <3>2. b = idx \/ b < idx
      BY <2>1, <2>5, <3>1
    <3>. QED BY <2>1, <2>2, <3>2, <1>t DEF Wiping, Types
  <2>6. ASSUME ~More, NEW b \in Buckets PROVE linked'[b] = {}
    <3>1. b \in Int
      BY DEF Buckets
    <3>2. CASE b < idx'
      BY <2>5, <3>2
    <3>3. CASE ~ (b < idx')
      <4>1. count <= b /\ count \in Nat \ {0}
        BY <2>1, <2>6, <3>1, <3>3, <1>t, BucketCounts DEF More, Wiping, Formatted
      <4>2. ASSUME NEW o \in linked[b] PROVE FALSE
        <5>1. Whole(o) /\ Hash[RecordAt(o).key] % count = b
          BY <1>t DEF ChainsWhole
        <5>2. Hash[RecordAt(o).key] \in Nat
          BY <5>1, <1>t, WholeRecord, SizesAssumption DEF Records
        <5>. QED BY <4>1, <5>1, <5>2, <3>1
      <4>. QED BY <4>2, <2>2, <1>t DEF Types
    <3>. QED BY <3>2, <3>3
  <2>7. Wiping'
    BY <2>1, <2>5, <2>6, <1>1, <1>t DEF Wiping, More
  <2>8. InFlight' /\ Walking'
    BY <2>1 DEF InFlight, Walking
  <2>. QED BY <2>2, <2>3, <2>4, <2>7, <2>8 DEF FileInv, Chained
<1>3. CASE Rewind
  <2>1. /\ pc = "rewind" /\ pc' = "done" /\ UNCHANGED <<heads, linked, idx>>
        /\ hdr' = [hdr EXCEPT !.tail = hdr.start]
    BY <1>3 DEF Rewind, Goto
  <2>2. \A b \in Buckets : linked'[b] = {}
    BY <2>1, <1>t DEF Wiping
  <2>3. ChainsWhole' /\ Descending'
    BY <2>1, <2>2, <1>t DEF ChainsWhole, Chained, Descending, Top
  <2>4. hdr' \in [magic : BOOLEAN, buckets : Nat, start : Nat, tail : Nat]
        /\ hdr'.tail = hdr.start /\ UNCHANGED <<hdr.buckets, hdr.start>>
    BY <2>1, <1>t DEF Types
  <2>5. Types' /\ Control' /\ Formatted'
    BY <2>1, <2>4, <1>1, <1>t DEF Types, Control, Formatted, FormatPCs, CallPCs
  <2>6. InFlight' /\ Wiping' /\ Walking'
    BY <2>1 DEF InFlight, Wiping, Walking
  <2>. QED BY <2>3, <2>5, <2>6 DEF FileInv
<1>. QED BY <1>2, <1>3

LEMMA FileNext == ASSUME FileInv, FormatEnds, [Next]_vars PROVE FileInv'
<1>1. CASE UNCHANGED vars
  BY <1>1 DEF vars, file, call, FileInv, Types, Control, Formatted, ChainsWhole, Descending,
              InFlight, Wiping, Walking, Whole, RecordAt, NewRecord, NewTail, BucketOf, Top
<1>2. CASE Next
  BY <1>2, FormatNext, BetweenCallsNext, SearchNext, AppendNext, LinkNext, ResetNext
  DEF Next, Step
<1>. QED BY <1>1, <1>2

LEMMA FileHolds == ASSUME FormatEnds PROVE Spec => []FileInv
  BY FileInit, FileNext, PTL DEF Spec

\* Only appending stores anything where records are.
LEMMA StepKeepsRecords ==
  ASSUME FileInv, [Next]_vars, NEW b \in Buckets, NEW o \in linked[b]
  PROVE  RecordAt(o)' = RecordAt(o)
<1>1. CASE Append \/ AppendFails
  <2>1. req.op \in {"Put", "Delete"} /\ Types /\ ChainsWhole
    BY <1>1 DEF FileInv, Control, Append, AppendFails, Goto
  <2>2. Size[req.val] \in Nat \ {0}
    BY <2>1, KeyedRequest
  <2>3. \E n \in Nat : WriteAt(n)
    BY <1>1, <2>2 DEF Append, AppendFails
  <2>. QED BY <2>1, <2>3, WriteSpares
<1>2. CASE UNCHANGED data
  BY <1>2 DEF RecordAt
<1>3. Append \/ AppendFails \/ UNCHANGED data
  BY DEF Next, Step, OpenNew, OpenExisting, Invoke, Stop, Format, CheckSize, AdvanceTail,
         LinkRecord, Seek, WalkOn, Found, NotFound, WipeHead, Rewind, Return, vars, file
<1>. QED BY <1>1, <1>2, <1>3

-----------------------------------------------------------------------------
\* Torn writes, stops and Resets leave every chain with complete records of its
\* own keys, between the header and the tail.
THEOREM ChainsStayWhole ==
  ASSUME FormatEnds
  PROVE  Spec => []ChainsWhole
<1>1. FileInv => ChainsWhole
  BY DEF FileInv
<1>. QED BY <1>1, FileHolds, PTL

\* A chain leads from its head through all its records in falling order: a walk
\* meets the newest record of a key first and ends.
THEOREM ChainsStayOrdered ==
  ASSUME FormatEnds
  PROVE  Spec => []ChainsDescend
<1>1. FileInv => ChainsDescend
  <2>. SUFFICES ASSUME FileInv, NEW b \in Buckets
                PROVE  /\ heads[b] = Max(linked[b] \cup {0})
                       /\ \A o \in linked[b] :
                            RecordAt(o).next = Max({u \in linked[b] : u < o} \cup {0})
    BY DEF ChainsDescend
  <2>1. linked[b] \in SUBSET Nat /\ \A o \in linked[b] : {u \in linked[b] : u < o} \in SUBSET Nat
    BY DEF FileInv, Types
  <2>. QED BY <2>1, TopIsMax DEF FileInv, Descending
<1>. QED BY <1>1, FileHolds, PTL

\* What a chain leads to is not written to, whatever is.
THEOREM RecordsAreKept ==
  ASSUME FormatEnds
  PROVE  Spec => LinkedRecordsKept
<1>1. ASSUME FileInv, [Next]_vars, NEW b \in Buckets, NEW o \in linked[b]
      PROVE  RecordAt(o)' = RecordAt(o)
  BY <1>1, StepKeepsRecords
<1>2. FileInv /\ [Next]_vars
        => [\A b \in Buckets : \A o \in linked[b] \cap linked'[b] : RecordAt(o)' = RecordAt(o)]_vars
  BY <1>1
<1>. QED BY <1>2, FileHolds, PTL DEF Spec, LinkedRecordsKept

-----------------------------------------------------------------------------
(* The dictionary in the file.                                              *)

\* The offsets the chains have for a key, and the value they stand for.
OffsetsOf(k) == {o \in UNION {linked[b] : b \in Buckets} : RecordAt(o).key = k}
NewestIn(d, S) == IF S = {} THEN NoVal ELSE d[Max(S)].rec.val

LEMMA DictIsNewest ==
  /\ Dict = [k \in Keys |-> NewestIn(data, OffsetsOf(k))]
  /\ Dict' = [k \in Keys |-> NewestIn(data', OffsetsOf(k)')]
  BY DEF Dict, OffsetsOf, NewestIn, RecordAt

LEMMA OffsetsBounded ==
  ASSUME FileInv, NEW k
  PROVE  Capacity \in Nat /\ OffsetsOf(k) \in SUBSET (0..Capacity)
<1>1. ASSUME NEW b \in Buckets, NEW o \in linked[b] PROVE o \in 0..Capacity
  <2>1. Whole(o) /\ Types
    BY DEF FileInv, ChainsWhole
  <2>2. o \in Nat /\ o + Size[RecordAt(o).val] <= Capacity /\ Size[RecordAt(o).val] \in Nat
    BY <2>1, WholeRecord
  <2>. QED BY <2>2, SizesAssumption
<1>. QED BY <1>1, SizesAssumption DEF OffsetsOf

\* All of them are in the chain the key hashes to.
LEMMA OffsetsInChain ==
  ASSUME FileInv, pc \in CallPCs, NEW k \in Keys
  PROVE  /\ Hash[k] % count \in Buckets
         /\ OffsetsOf(k) = {o \in linked[Hash[k] % count] : RecordAt(o).key = k}
         /\ \A b \in Buckets : \A o \in linked[b] : Hash[RecordAt(o).key] % count = b
<1>1. count = hdr.buckets /\ count \in Nat \ {0} /\ count <= MaxBuckets /\ MaxBuckets \in Nat
  BY BucketCounts DEF FileInv, Formatted, FormatPCs, CallPCs
<1>2. Hash[k] % count \in Buckets
  <2>1. Hash[k] \in Nat
    BY SizesAssumption
  <2>2. Hash[k] % count \in 0..(count - 1)
    BY <1>1, <2>1
  <2>. QED BY <1>1, <2>2 DEF Buckets
<1>3. \A b \in Buckets : \A o \in linked[b] : Hash[RecordAt(o).key] % count = b
  BY <1>1 DEF FileInv, ChainsWhole
<1>. QED BY <1>2, <1>3 DEF OffsetsOf

\* Where the newest record of a key is, if any.
LEMMA NewestExists ==
  ASSUME FileInv, NEW k, OffsetsOf(k) # {}
  PROVE  Max(OffsetsOf(k)) \in OffsetsOf(k)
<1>1. Capacity \in Nat /\ OffsetsOf(k) \in SUBSET (0..Capacity)
  BY OffsetsBounded
<1>2. PICK m \in OffsetsOf(k) : \A u \in OffsetsOf(k) : u <= m
  BY <1>1, LargestExists
<1>3. OffsetsOf(k) \in SUBSET Nat
  BY <1>1
<1>. QED BY <1>2, <1>3, LargestIsMax

\* Steps that change no chain keep the dictionary.
LEMMA DictStays == ASSUME FileInv, [Next]_vars, UNCHANGED linked PROVE Dict' = Dict
<1>. SUFFICES ASSUME NEW k \in Keys
              PROVE  NewestIn(data', OffsetsOf(k)') = NewestIn(data, OffsetsOf(k))
  BY DictIsNewest
<1>1. ASSUME NEW b \in Buckets, NEW o \in linked[b] PROVE RecordAt(o)' = RecordAt(o)
  BY <1>1, StepKeepsRecords
<1>2. OffsetsOf(k)' = OffsetsOf(k)
  BY <1>1 DEF OffsetsOf
<1>3. CASE OffsetsOf(k) = {}
  BY <1>2, <1>3 DEF NewestIn
<1>4. CASE OffsetsOf(k) # {}
  <2>1. Max(OffsetsOf(k)) \in OffsetsOf(k)
    BY <1>4, NewestExists
  <2>2. RecordAt(Max(OffsetsOf(k)))' = RecordAt(Max(OffsetsOf(k)))
    BY <1>1, <2>1 DEF OffsetsOf
  <2>. QED BY <1>2, <1>4, <2>2 DEF NewestIn, RecordAt
<1>. QED BY <1>3, <1>4

\* A record that is linked gives its key its value.
LEMMA LinkWrites ==
  ASSUME FileInv, LinkRecord
  PROVE  req.key \in Keys /\ Dict' = [Dict EXCEPT ![req.key] = req.val]
<1>. DEFINE B == BucketOf(req.key)
<1>1. /\ pc \in CallPCs /\ req.key \in Keys /\ UNCHANGED data
  BY KeyedRequest DEF FileInv, LinkRecord, Goto, CallPCs, Control
<1>2. /\ B \in Buckets /\ linked' = [linked EXCEPT ![B] = @ \cup {off}]
      /\ RecordAt(off) = NewRecord
      /\ \A b \in Buckets : \A o \in linked[b] : o < off
  BY ChainsLink
<1>3. /\ data[off].rec.key = req.key /\ data[off].rec.val = req.val /\ off \in Nat
      /\ linked \in [Buckets -> SUBSET Nat]
  BY <1>2 DEF RecordAt, NewRecord, FileInv, Types
<1>4. ASSUME NEW k \in Keys
      PROVE  NewestIn(data', OffsetsOf(k)')
               = IF k = req.key THEN req.val ELSE NewestIn(data, OffsetsOf(k))
  <2>0. \A b \in Buckets : linked'[b] = IF b = B THEN linked[b] \cup {off} ELSE linked[b]
    BY <1>2, <1>3
  <2>1. ASSUME NEW o
        PROVE  (\E b \in Buckets : o \in linked'[b])
                 <=> (\E b \in Buckets : o \in linked[b]) \/ o = off
    <3>. HIDE DEF B
    <3>. QED BY <1>2, <2>0
  <2>2. OffsetsOf(k)' = IF k = req.key THEN OffsetsOf(k) \cup {off} ELSE OffsetsOf(k)
    <3>1. ASSUME NEW o
          PROVE  o \in OffsetsOf(k)'
                   <=> o \in OffsetsOf(k) \/ (o = off /\ k = req.key)
      BY <1>1, <1>3, <2>1 DEF OffsetsOf, RecordAt
    <3>. QED BY <3>1
  <2>3. CASE k = req.key
    <3>1. OffsetsOf(k) \cup {off} \in SUBSET Nat /\ \A u \in OffsetsOf(k) \cup {off} : u <= off
      BY <1>2, <1>3, OffsetsBounded DEF OffsetsOf
    <3>2. Max(OffsetsOf(k) \cup {off}) = off
      BY <3>1, LargestIsMax
    <3>. QED BY <1>1, <1>3, <2>2, <2>3, <3>2 DEF NewestIn
  <2>4. CASE k # req.key
    BY <1>1, <2>2, <2>4
  <2>. QED BY <2>3, <2>4
<1>. QED BY <1>1, <1>4, DictIsNewest

\* Emptying a bucket forgets the keys of it and no others.
LEMMA WipeForgets ==
  ASSUME FileInv, WipeHead
  PROVE  \E S \in SUBSET Keys : Dict' = [k \in Keys |-> IF k \in S THEN NoVal ELSE Dict[k]]
<1>. DEFINE S == {k \in Keys : Hash[k] % count = idx}
<1>1. idx \in Buckets /\ linked' = [linked EXCEPT ![idx] = {}] /\ UNCHANGED data
  BY ChainsWipe
<1>2. pc \in CallPCs /\ linked \in [Buckets -> SUBSET Nat]
  BY DEF FileInv, WipeHead, Goto, CallPCs, Types
<1>3. ASSUME NEW k \in Keys
      PROVE  NewestIn(data', OffsetsOf(k)')
               = IF k \in S THEN NoVal ELSE NewestIn(data, OffsetsOf(k))
  <2>1. \A b \in Buckets : \A o \in linked[b] : Hash[RecordAt(o).key] % count = b
    BY <1>2, OffsetsInChain
  <2>2. \A o : RecordAt(o)' = RecordAt(o)
    BY <1>1 DEF RecordAt
  <2>3. OffsetsOf(k)' = {o \in OffsetsOf(k) : Hash[k] % count # idx}
    BY <1>1, <1>2, <2>1, <2>2 DEF OffsetsOf
  <2>4. CASE k \in S
    BY <2>3, <2>4 DEF NewestIn
  <2>5. CASE k \notin S
    BY <1>1, <2>3, <2>5
  <2>. QED BY <2>4, <2>5
<1>4. Dict' = [k \in Keys |-> IF k \in S THEN NoVal ELSE Dict[k]]
  BY <1>3, DictIsNewest
<1>. QED BY <1>4

\* What a walk has found is in the dictionary.
LEMMA WalkReads ==
  ASSUME FileInv, pc = "walk", NEW k \in Keys, req.key = k
  PROVE  /\ off # 0 /\ RecordAt(off).key = k => Dict[k] = RecordAt(off).val
         /\ off = 0 => Dict[k] = NoVal
<1>1. pc \in CallPCs /\ linked \in [Buckets -> SUBSET Nat] /\ Formatted /\ ChainsWhole
  BY DEF FileInv, CallPCs, Types
<1>2. /\ Hash[k] % count \in Buckets
      /\ OffsetsOf(k) = {o \in linked[Hash[k] % count] : RecordAt(o).key = k}
  BY <1>1, OffsetsInChain
<1>3. /\ off \in linked[Hash[k] % count] \cup {0}
      /\ \A u \in linked[Hash[k] % count] : off < u => RecordAt(u).key # k
  BY DEF FileInv, Walking, BucketOf
<1>4. OffsetsOf(k) \in SUBSET Nat /\ off \in Nat
  BY <1>1, <1>2, <1>3
<1>5. \A u \in OffsetsOf(k) : u <= off
  BY <1>1, <1>2, <1>3, <1>4
<1>6. CASE off # 0 /\ RecordAt(off).key = k
  <2>1. off \in OffsetsOf(k)
    BY <1>2, <1>3, <1>6
  <2>2. Max(OffsetsOf(k)) = off
    BY <1>4, <1>5, <2>1, LargestIsMax
  <2>. QED BY <1>6, <2>1, <2>2, DictIsNewest DEF NewestIn, RecordAt
<1>7. CASE off = 0
  <2>1. ASSUME NEW u \in OffsetsOf(k) PROVE FALSE
    <3>1. u = 0 /\ \E b \in Buckets : u \in linked[b]
      BY <1>2, <1>4, <1>5, <1>7
    <3>2. hdr.start <= 0 /\ 0 < hdr.start
      BY <3>1, <1>1 DEF ChainsWhole, Formatted, FormatPCs, CallPCs
    <3>3. hdr.start \in Nat
      BY DEF FileInv, Types
    <3>. QED BY <3>2, <3>3
  <2>2. Dict[k] = NewestIn(data, OffsetsOf(k))
    BY DictIsNewest
  <2>. QED BY <1>7, <2>1, <2>2 DEF NewestIn
<1>. QED BY <1>6, <1>7

-----------------------------------------------------------------------------
(* The steps of DurableStore.                                               *)

StatusOf(c) ==
  IF c \in {"closed"} \cup FormatPCs THEN "closed"
  ELSE IF c \in {"ready", "done"} THEN c ELSE "pending"

LEMMA StatusIs == Status = StatusOf(pc) /\ Status' = StatusOf(pc')
  BY DEF Status, StatusOf, FormatPCs

LEMMA InitMaps == Init => Store!Init
<1>. SUFFICES ASSUME Init PROVE Store!Init
  OBVIOUS
<1>1. Dict = [k \in Keys |-> NoVal]
  <2>1. \A k \in Keys : OffsetsOf(k) = {}
    BY DEF Init, OffsetsOf
  <2>. QED BY <2>1, DictIsNewest DEF NewestIn
<1>2. Status = "closed"
  BY StatusIs DEF Init, StatusOf
<1>. QED BY <1>1, <1>2 DEF Init, Store!Init, NoRequest, Store!NoRequest

\* Opening, stopping, invoking and returning.
LEMMA BetweenCallsMaps ==
  ASSUME FileInv, FormatEnds,
         \/ Format \/ Stop \/ Invoke \/ Return
         \/ \E n \in OpenCounts : OpenNew(n) \/ OpenExisting(n)
  PROVE  Store!Next \/ UNCHANGED Store!vars
<1>1. Dict' = Dict
  <2>1. UNCHANGED linked /\ Next
    BY DEF Format, Stop, Invoke, Return, OpenNew, OpenExisting, Next, Step
  <2>. QED BY <2>1, DictStays
<1>2. CASE Format \/ \E n \in OpenCounts : OpenNew(n) \/ OpenExisting(n)
  <2>1. /\ UNCHANGED <<req, ret>> /\ pc \in {"closed"} \cup FormatPCs
        /\ pc' \in {"ready"} \cup FormatPCs
    BY <1>2 DEF Format, OpenNew, OpenExisting, Goto, FormatPCs, call
  <2>2. Status = "closed" /\ Status' \in {"closed", "ready"}
    BY <2>1, StatusIs DEF StatusOf, FormatPCs
  <2>3. Store!Open \/ UNCHANGED Store!vars
    BY <2>1, <2>2, <1>1 DEF Store!Open, Store!Goto, Store!vars
  <2>. QED BY <2>3 DEF Store!Next
<1>3. CASE Stop
  <2>1. /\ pc \notin FormatPCs /\ pc' = "closed" /\ req' = NoRequest /\ ret' = NoVal
        /\ pc = "closed" => req = NoRequest /\ ret = NoVal
    BY <1>3 DEF Stop, FormatEnds, FileInv, Control, CallPCs
  <2>2. Status' = "closed" /\ (Status = "closed" <=> pc = "closed")
    BY <2>1, StatusIs DEF StatusOf
  <2>3. Store!Stop \/ UNCHANGED Store!vars
    BY <2>1, <2>2, <1>1 DEF Store!Stop, Store!vars, NoRequest, Store!NoRequest
  <2>. QED BY <2>3 DEF Store!Next
<1>4. CASE Invoke
  <2>1. /\ pc = "ready" /\ req' \in Requests /\ UNCHANGED ret
        /\ pc' \in {"check", "append", "seek", "wipe"}
    <3>1. req' \in Requests /\ pc = "ready" /\ UNCHANGED ret /\ pc' = Entry(req'.op)
      BY <1>4 DEF Invoke, Goto
    <3>2. req'.op \in {"Put", "Get", "Delete", "Reset"}
      BY <3>1 DEF Requests
    <3>. QED BY <3>1, <3>2 DEF Entry
  <2>2. Status = "ready" /\ Status' = "pending"
    BY <2>1, StatusIs DEF StatusOf, FormatPCs
  <2>3. Store!Invoke
    BY <2>1, <2>2, <1>1 DEF Store!Invoke, Store!Goto, Requests, Store!Requests
  <2>. QED BY <2>3 DEF Store!Next
<1>5. CASE Return
  <2>1. pc = "done" /\ pc' = "ready" /\ req' = NoRequest /\ ret' = NoVal
    BY <1>5 DEF Return, Goto
  <2>2. Status = "done" /\ Status' = "ready"
    BY <2>1, StatusIs DEF StatusOf, FormatPCs
  <2>3. Store!Return
    BY <2>1, <2>2, <1>1 DEF Store!Return, Store!Goto, NoRequest, Store!NoRequest
  <2>. QED BY <2>3 DEF Store!Next
<1>. QED BY <1>2, <1>3, <1>4, <1>5

\* Put and Delete: nothing happens until the record is linked.
LEMMA WriteMaps ==
  ASSUME FileInv, CheckSize \/ Append \/ AppendFails \/ AdvanceTail \/ LinkRecord
  PROVE  Store!Next \/ UNCHANGED Store!vars
<1>1. req.op \in {"Put", "Delete"} /\ pc \in {"check", "append", "advance", "link"}
  BY DEF FileInv, Control, CheckSize, Append, AppendFails, AdvanceTail, LinkRecord, Goto
<1>2. Status = "pending"
  BY <1>1, StatusIs DEF StatusOf, FormatPCs
<1>3. CASE LinkRecord
  <2>1. req.key \in Keys /\ Dict' = [Dict EXCEPT ![req.key] = req.val]
    BY <1>3, LinkWrites
  <2>2. pc' = "done" /\ ret' = Ok /\ UNCHANGED req
    BY <1>3 DEF LinkRecord, Goto, Answer
  <2>3. Status' = "done"
    BY <2>2, StatusIs DEF StatusOf, FormatPCs
  <2>4. Store!Write
    BY <1>1, <1>2, <2>1, <2>2, <2>3 DEF Store!Write, Store!Goto
  <2>. QED BY <2>4 DEF Store!Next
<1>4. CASE CheckSize \/ Append \/ AppendFails \/ AdvanceTail
  <2>1. Dict' = Dict
    <3>1. UNCHANGED linked /\ Next
      BY <1>4 DEF CheckSize, Append, AppendFails, AdvanceTail, Next, Step
    <3>. QED BY <3>1, DictStays
  <2>2. \/ pc' \in {"append", "advance", "link"} /\ UNCHANGED <<req, ret>>
        \/ pc' = "done" /\ ret' = Err /\ UNCHANGED req
        \/ pc' = "closed" /\ req' = NoRequest /\ ret' = NoVal
    BY <1>4 DEF CheckSize, Append, AppendFails, AdvanceTail, Goto, Answer, call
  <2>3. CASE pc' \in {"append", "advance", "link"} /\ UNCHANGED <<req, ret>>
    <3>1. Status' = "pending"
      BY <2>3, StatusIs DEF StatusOf, FormatPCs
    <3>. QED BY <1>2, <2>1, <2>3, <3>1 DEF Store!vars
  <2>4. CASE pc' = "done" /\ ret' = Err /\ UNCHANGED req
    <3>1. Status' = "done"
      BY <2>4, StatusIs DEF StatusOf, FormatPCs
    <3>2. Store!Write
      BY <1>1, <1>2, <2>1, <2>4, <3>1 DEF Store!Write, Store!Goto
    <3>. QED BY <3>2 DEF Store!Next
  <2>5. CASE pc' = "closed" /\ req' = NoRequest /\ ret' = NoVal
    <3>1. Status' = "closed"
      BY <2>5, StatusIs DEF StatusOf
    <3>2. Store!Stop
      BY <1>2, <2>1, <2>5, <3>1 DEF Store!Stop, NoRequest, Store!NoRequest
    <3>. QED BY <3>2 DEF Store!Next
  <2>. QED BY <2>2, <2>3, <2>4, <2>5
<1>. QED BY <1>3, <1>4

\* Get and Reset.
LEMMA ReadMaps ==
  ASSUME FileInv, Seek \/ WalkOn \/ Found \/ NotFound
  PROVE  Store!Next \/ UNCHANGED Store!vars
<1>1. req.op = "Get" /\ pc \in {"seek", "walk"}
  BY DEF FileInv, Control, Seek, WalkOn, Found, NotFound, Goto
<1>2. Status = "pending" /\ req.key \in Keys
  BY <1>1, StatusIs, KeyedRequest DEF StatusOf, FormatPCs, FileInv
<1>3. Dict' = Dict
  <2>1. UNCHANGED linked /\ Next
    BY DEF Seek, WalkOn, Found, NotFound, Next, Step
  <2>. QED BY <2>1, DictStays
<1>4. CASE Seek \/ WalkOn
  <2>1. pc' = "walk" /\ UNCHANGED <<req, ret>>
    BY <1>4 DEF Seek, WalkOn, Goto, call
  <2>2. Status' = "pending"
    BY <2>1, StatusIs DEF StatusOf, FormatPCs
  <2>. QED BY <1>2, <1>3, <2>1, <2>2 DEF Store!vars
<1>5. CASE Found \/ NotFound
  <2>1. pc = "walk" /\ pc' = "done" /\ UNCHANGED req
    BY <1>5 DEF Found, NotFound, Goto
  <2>2. Status' = "done"
    BY <2>1, StatusIs DEF StatusOf, FormatPCs
  <2>3. ret' = IF Dict[req.key] = NoVal THEN Missing ELSE Dict[req.key]
    <3>1. /\ off # 0 /\ RecordAt(off).key = req.key => Dict[req.key] = RecordAt(off).val
          /\ off = 0 => Dict[req.key] = NoVal
      BY <1>2, <2>1, WalkReads
    <3>. QED BY <1>5, <3>1 DEF Found, NotFound, Answer
  <2>4. Store!Read
    BY <1>1, <1>2, <1>3, <2>1, <2>2, <2>3 DEF Store!Read, Store!Goto
  <2>. QED BY <2>4 DEF Store!Next
<1>. QED BY <1>4, <1>5

LEMMA ResetMaps ==
  ASSUME FileInv, WipeHead \/ Rewind
  PROVE  Store!Next \/ UNCHANGED Store!vars
<1>1. req.op = "Reset" /\ pc \in {"wipe", "rewind"}
  BY DEF FileInv, Control, WipeHead, Rewind, Goto
<1>2. Status = "pending"
  BY <1>1, StatusIs DEF StatusOf, FormatPCs
<1>3. CASE WipeHead
  <2>1. pc' \in {"wipe", "rewind"} /\ UNCHANGED <<req, ret>>
    BY <1>3 DEF WipeHead, Goto, call
  <2>2. Status' = "pending"
    BY <2>1, StatusIs DEF StatusOf, FormatPCs
  <2>3. \E S \in SUBSET Keys : Dict' = [k \in Keys |-> IF k \in S THEN NoVal ELSE Dict[k]]
    BY <1>3, WipeForgets
  <2>4. Store!Wipe
    BY <1>1, <1>2, <2>1, <2>2, <2>3 DEF Store!Wipe
  <2>. QED BY <2>4 DEF Store!Next
<1>4. CASE Rewind
  <2>1. pc = "rewind" /\ pc' = "done" /\ ret' = Ok /\ UNCHANGED <<req, linked>>
    BY <1>4 DEF Rewind, Goto, Answer
  <2>2. Status' = "done"
    BY <2>1, StatusIs DEF StatusOf, FormatPCs
  <2>3. Dict' = Dict
    BY <1>4, <2>1, DictStays DEF Next, Step
  <2>4. Dict = [k \in Keys |-> NoVal]
    <3>1. \A k \in Keys : OffsetsOf(k) = {}
      BY <2>1 DEF FileInv, Wiping, OffsetsOf
    <3>. QED BY <3>1, DictIsNewest DEF NewestIn
  <2>5. Store!EndReset
    BY <1>1, <1>2, <2>1, <2>2, <2>3, <2>4 DEF Store!EndReset, Store!Goto
  <2>. QED BY <2>5 DEF Store!Next
<1>. QED BY <1>3, <1>4

LEMMA FileImplements ==
  ASSUME FileInv, FormatEnds, [Next]_vars
  PROVE  [Store!Next]_(Store!vars)
<1>1. CASE UNCHANGED vars
  <2>1. Dict' = Dict
    BY <1>1, DictStays DEF vars
  <2>. QED BY <1>1, <2>1, StatusIs DEF vars, call, Store!vars
<1>2. CASE Next
  BY <1>2, BetweenCallsMaps, WriteMaps, ReadMaps, ResetMaps DEF Next, Step
<1>. QED BY <1>1, <1>2

\* The file implements DurableStore: Put and Delete are atomic and survive the
\* end of the process, Get answers with what was written last, and a call that
\* reports an error has changed nothing.
THEOREM FileIsDurable ==
  ASSUME FormatEnds
  PROVE  Spec => Durable
<1>1. FileInv /\ [Next]_vars => [Store!Next]_(Store!vars)
  BY FileImplements
<1>. QED BY <1>1, InitMaps, FileHolds, PTL DEF Spec, Durable, Store!Spec

=============================================================================
