------------------------------- MODULE HashFS -------------------------------
(***************************************************************************)
(* The file-backed hash table of lab-1-3hashAlgos/internal/hashfs: a       *)
(* header, an array of bucket heads and an area of records, newest first   *)
(* in each chain.  One client calls; the process may end at any step named *)
(* in StopPCs and be started again.  What it had written to the file stays *)
(* (page cache and shared mapping outlive a process, not a power failure). *)
(*                                                                         *)
(* Offsets count cells, the unit the sizes of header, heads and records    *)
(* are given in.  Every store to the file is a step of its own.            *)
(***************************************************************************)
EXTENDS Integers, FiniteSetsExt

CONSTANTS
  Keys, Vals, NoKey, NoVal, Ok, Missing, Err,   \* see DurableStore
  Hash,          \* FNV-1a of a key
  TooLarge,      \* values longer than MaxValueSize
  Size,          \* Size[v]: cells of a record with value v; NoVal: a tombstone
  HeaderSize,    \* cells of the header
  PageSize,
  OpenCounts,    \* the BucketCount options the client opens with
  Capacity,      \* cells the disk has room for
  StopPCs        \* the program counters at which the process may end

VARIABLES
  created,   \* the file is not empty
  hdr,       \* the header
  heads,     \* heads[b]: the bucket heads
  data,      \* data[a]: the record part in cell a
  pc, req, ret,
  count,     \* s.bucketCount
  idx,       \* the bucket index of Reset's loop
  off,       \* the offset of the record appended or read
  linked     \* history: linked[b]: the offsets stored in head b since it was 0

file == <<created, hdr, heads, data>>
call == <<req, ret>>
vars == <<file, pc, call, count, idx, off, linked>>

MaxBuckets == CHOOSE n \in OpenCounts : \A m \in OpenCounts : m <= n
Buckets == 0..(MaxBuckets - 1)
Cells == 0..(Capacity - 1)

ASSUME AnswersAssumption ==
  /\ NoVal \notin Vals /\ {Ok, Missing, Err} \cap (Vals \cup {NoVal}) = {}
  /\ Ok # Missing /\ Ok # Err /\ Missing # Err

ASSUME SizesAssumption ==
  /\ Hash \in [Keys -> Nat]
  /\ TooLarge \subseteq Vals
  /\ Size \in [Vals \cup {NoVal} -> Nat \ {0}]
  /\ HeaderSize \in Nat \ {0} /\ PageSize \in Nat /\ Capacity \in Nat
  /\ OpenCounts \subseteq Nat \ {0}
  /\ \E n \in OpenCounts : \A m \in OpenCounts : m <= n

Requests ==
  [op : {"Put"}, key : Keys, val : Vals]
    \cup [op : {"Get", "Delete"}, key : Keys, val : {NoVal}]
    \cup [op : {"Reset"}, key : {NoKey}, val : {NoVal}]
NoRequest == [op |-> "none", key |-> NoKey, val |-> NoVal]

Records == [key : Keys, val : Vals \cup {NoVal}, next : 0..Capacity]
Hole == [part |-> -1]
Parts == {Hole} \cup [rec : Records, part : Nat]

AlignUp(x, a) == IF a = 0 \/ x % a = 0 THEN x ELSE (x + a) - (x % a)
DataStart(n) == AlignUp(HeaderSize + n, PageSize)

BucketOf(k) == Hash[k] % count

\* The record at offset o, if all of its parts are there.
RecordAt(o) == data[o].rec
Whole(o) ==
  /\ o \in Cells /\ data[o].part = 0
  /\ o + Size[RecordAt(o).val] <= Capacity
  /\ \A i \in 0..(Size[RecordAt(o).val] - 1) :
       data[o + i] = [rec |-> RecordAt(o), part |-> i]

-----------------------------------------------------------------------------
Init ==
  /\ created = FALSE
  /\ hdr = [magic |-> FALSE, buckets |-> 0, start |-> 0, tail |-> 0]
  /\ heads = [b \in Buckets |-> 0]
  /\ data = [a \in Cells |-> Hole]
  /\ pc = "closed"
  /\ req = NoRequest
  /\ ret = NoVal
  /\ count = 0
  /\ idx = 0
  /\ off = 0
  /\ linked = [b \in Buckets |-> {}]

Goto(from, to) == pc = from /\ pc' = to
Answer(v) == ret' = v

\* Open of a file that does not exist: Truncate makes a file of zeros ...
OpenNew(n) ==
  /\ Goto("closed", "magic")
  /\ ~created
  /\ created' = TRUE
  /\ count' = n
  /\ UNCHANGED <<hdr, heads, data, call, idx, off, linked>>

\* ... and the header fields follow one by one (the heads are 0 already).
Format ==
  /\ \/ Goto("magic", "buckets") /\ hdr' = [hdr EXCEPT !.magic = TRUE]
     \/ Goto("buckets", "start") /\ hdr' = [hdr EXCEPT !.buckets = count]
     \/ Goto("start", "tail") /\ hdr' = [hdr EXCEPT !.start = DataStart(count)]
     \/ Goto("tail", "ready") /\ hdr' = [hdr EXCEPT !.tail = DataStart(count)]
  /\ UNCHANGED <<created, heads, data, call, count, idx, off, linked>>

\* The bucket count of the file replaces the one of the options.
MappedCount(n) == n                           \* mutant: the options win
FileCount(n) == hdr.buckets

OpenExisting(n) ==
  /\ Goto("closed", "ready")
  /\ created /\ hdr.magic /\ hdr.buckets # 0
  /\ count' = FileCount(n)
  /\ UNCHANGED <<file, call, idx, off, linked>>

Stop ==
  /\ pc \in StopPCs
  /\ pc' = "closed"
  /\ req' = NoRequest /\ ret' = NoVal
  /\ count' = 0 /\ idx' = 0 /\ off' = 0
  /\ UNCHANGED <<file, linked>>

-----------------------------------------------------------------------------
Entry(o) == CASE o = "Put" -> "check"
              [] o = "Delete" -> "append"
              [] o = "Get" -> "seek"
              [] o = "Reset" -> "wipe"

Invoke ==
  /\ req' \in Requests
  /\ Goto("ready", Entry(req'.op))
  /\ UNCHANGED <<file, ret, count, idx, off, linked>>

Return ==
  /\ Goto("done", "ready")
  /\ req' = NoRequest /\ ret' = NoVal
  /\ idx' = 0 /\ off' = 0
  /\ UNCHANGED <<file, count, linked>>

CheckSize ==
  /\ IF req.val \in TooLarge
       THEN Goto("check", "done") /\ Answer(Err)
       ELSE Goto("check", "append") /\ UNCHANGED ret
  /\ UNCHANGED <<file, req, count, idx, off, linked>>

Unchained == [key |-> req.key, val |-> req.val, next |-> 0]  \* mutant: no next
NewRecord == [key |-> req.key, val |-> req.val, next |-> heads[BucketOf(req.key)]]

\* The first n parts of the record reach the file, at the tail.  In a file
\* whose tail was never set they land on the header.
WriteAt(n) ==
  /\ hdr.tail + n <= Capacity
  /\ data' = [a \in Cells |-> IF a - hdr.tail \in 0..(n-1)
                              THEN [rec |-> NewRecord, part |-> a - hdr.tail]
                              ELSE data[a]]
  /\ hdr' = [hdr EXCEPT !.magic = @ /\ (hdr.tail # 0 \/ n = 0)]
  /\ UNCHANGED <<created, heads>>

Append ==
  /\ Goto("append", "advance")
  /\ WriteAt(Size[req.val])
  /\ off' = hdr.tail
  /\ UNCHANGED <<call, count, idx, linked>>

\* The write fails, a full disk being one reason, or the process ends in it:
\* part of the record may be in the file.
AppendFails ==
  /\ \/ Goto("append", "done") /\ Answer(Err) /\ UNCHANGED <<req, count>>
     \/ /\ Goto("append", "closed")
        /\ pc \in StopPCs
        /\ req' = NoRequest /\ ret' = NoVal /\ count' = 0
  /\ \E n \in 0..(Size[req.val] - 1) : WriteAt(n)
  /\ UNCHANGED <<idx, off, linked>>

ShortTail == off + Size[req.val] - 1          \* mutant: the tail one cell short
NewTail == off + Size[req.val]

AdvanceTail ==
  /\ Goto("advance", "link")
  /\ hdr' = [hdr EXCEPT !.tail = NewTail]
  /\ UNCHANGED <<created, heads, data, call, count, idx, off, linked>>

LinkRecord ==
  /\ Goto("link", "done")
  /\ heads' = [heads EXCEPT ![BucketOf(req.key)] = off]
  /\ linked' = [linked EXCEPT ![BucketOf(req.key)] = IF off = 0 THEN {} ELSE @ \cup {off}]
  /\ Answer(Ok)
  /\ UNCHANGED <<created, hdr, data, req, count, idx, off>>

-----------------------------------------------------------------------------
Seek ==
  /\ Goto("seek", "walk")
  /\ off' = heads[BucketOf(req.key)]
  /\ UNCHANGED <<file, call, count, idx, linked>>

Stays == off                                  \* mutant: off = next is missing
Following == RecordAt(off).next

\* A record of another key: the walk goes on with the next one.
WalkOn ==
  /\ pc = "walk"
  /\ off # 0 /\ Whole(off) /\ RecordAt(off).key # req.key
  /\ off' = Following
  /\ UNCHANGED <<file, pc, call, count, idx, linked>>

Found ==
  /\ Goto("walk", "done")
  /\ off # 0 /\ Whole(off) /\ RecordAt(off).key = req.key
  /\ Answer(IF RecordAt(off).val = NoVal THEN Missing ELSE RecordAt(off).val)
  /\ UNCHANGED <<file, req, count, idx, off, linked>>

NotFound ==
  /\ Goto("walk", "done")
  /\ off = 0
  /\ Answer(Missing)
  /\ UNCHANGED <<file, req, count, idx, off, linked>>

-----------------------------------------------------------------------------
\* Reset: heads first, the tail last.
BeforeLast == idx + 2 < count                 \* mutant: the last head survives
More == idx + 1 < count

WipeHead ==
  /\ Goto("wipe", IF More THEN "wipe" ELSE "rewind")
  /\ heads' = [heads EXCEPT ![idx] = 0]
  /\ linked' = [linked EXCEPT ![idx] = {}]
  /\ idx' = idx + 1
  /\ UNCHANGED <<created, hdr, data, call, count, off>>

Rewind ==
  /\ Goto("rewind", "done")
  /\ hdr' = [hdr EXCEPT !.tail = hdr.start]
  /\ Answer(Ok)
  /\ UNCHANGED <<created, heads, data, req, count, idx, off, linked>>

-----------------------------------------------------------------------------
Step ==
  \/ Format \/ CheckSize \/ Append \/ AppendFails \/ AdvanceTail \/ LinkRecord
  \/ Seek \/ WalkOn \/ Found \/ NotFound \/ WipeHead \/ Rewind \/ Return

Next ==
  \/ \E n \in OpenCounts : OpenNew(n) \/ OpenExisting(n)
  \/ Invoke \/ Stop \/ Step

Spec == Init /\ [][Next]_vars

\* A call that can go on does.
FairSpec == Spec /\ WF_vars(Step)

-----------------------------------------------------------------------------
(* Properties.                                                              *)

FormatPCs == {"magic", "buckets", "start", "tail"}
CallPCs == {"check", "append", "advance", "link", "seek", "walk", "wipe", "rewind", "done"}

\* Whatever was torn, abandoned or rewound: a record a chain leads to is
\* complete, lies between the header and the tail, and hashes to that chain.
ChainsWhole ==
  \A b \in Buckets : \A o \in linked[b] :
    /\ Whole(o)
    /\ hdr.start <= o /\ o + Size[RecordAt(o).val] <= hdr.tail
    /\ Hash[RecordAt(o).key] % hdr.buckets = b

\* A chain leads from its head through all its records in falling order, so
\* that a Get sees the newest record of a key first and comes to an end.
ChainsDescend ==
  \A b \in Buckets :
    /\ heads[b] = Max(linked[b] \cup {0})
    /\ \A o \in linked[b] : RecordAt(o).next = Max({u \in linked[b] : u < o} \cup {0})

\* A record is never overwritten while a chain leads to it, by a Put after a
\* failed Put, after a stop or after a Reset.
LinkedRecordsKept ==
  [][\A b \in Buckets : \A o \in linked[b] \cap linked'[b] : RecordAt(o)' = RecordAt(o)]_vars

\* The dictionary in the file: the newest record of each key.
Dict ==
  [k \in Keys |->
     LET S == {o \in UNION {linked[b] : b \in Buckets} : RecordAt(o).key = k}
     IN  IF S = {} THEN NoVal ELSE RecordAt(Max(S)).val]

Status ==
  CASE pc \in {"closed"} \cup FormatPCs -> "closed"
    [] pc \in {"ready", "done"} -> pc
    [] OTHER -> "pending"

Store == INSTANCE DurableStore WITH dict <- Dict, status <- Status

\* Put and Delete are atomic whether the process lives or ends; Get answers
\* with the last value; nothing is lost when the file is opened again, with
\* whatever bucket count.
Durable == Store!Spec

\* No walk goes round in a chain.
CallsReturn == pc \in CallPCs ~> pc \in {"ready", "closed"}

\* What REPORT.md:46 says: no flush is needed, the file is consistent always.
FileAlwaysConsistent ==
  pc = "closed" /\ created =>
    /\ hdr.magic /\ hdr.buckets # 0
    /\ hdr.start >= HeaderSize + hdr.buckets /\ hdr.tail >= hdr.start
=============================================================================
