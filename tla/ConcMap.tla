------------------------------- MODULE ConcMap -------------------------------
(***************************************************************************)
(* The striped hash map of lab-4-concmap/internal/concmap/map.go.          *)
(*                                                                         *)
(* A segmentTable is named by its number of buckets: a resize always       *)
(* doubles it, so no two tables of a run have the same name.  Replaced     *)
(* tables stay in the state because a goroutine may still hold a pointer   *)
(* to one.  A bucket is a slot <<n, i>>; its chain is a set of nodes, for  *)
(* the order of a chain decides nothing.                                   *)
(*                                                                         *)
(* Every step is one shared access of the code: an atomic load or store, a *)
(* half of a lock operation, or a critical section up to its unlock.  The  *)
(* nodes a critical section reads and writes are protected by the bucket   *)
(* lock; size and tab are atomics others read without it, so the steps     *)
(* that touch those are separate.                                          *)
(***************************************************************************)
EXTENDS MapAPI

CONSTANTS
  Tables,       \* the bucket counts tables can have
  InitBuckets,  \* 1 << bucketBits of New
  MaxBuckets,   \* 1 << maxBucketBits
  Hash,         \* the hash function, m.hash
  LoadNum,      \* loadFactor = LoadNum / LoadDen
  LoadDen,
  NoProc        \* nobody holds the lock

ASSUME TablesAssumption ==
  /\ Tables \subseteq Nat \ {0}
  /\ InitBuckets \in Tables
  /\ MaxBuckets \in Nat
  /\ \A n \in Tables : n < MaxBuckets => 2 * n \in Tables

ASSUME HashAssumption == Hash \in [Keys -> Nat]

ASSUME LoadAssumption == LoadNum \in Nat \ {0} /\ LoadDen \in Nat \ {0}

ASSUME NoProcAssumption == NoProc \notin Procs

VARIABLES
  tab,        \* m.tab: the current table
  chain,      \* chain[s]: the nodes linked from head of slot s
  size,       \* m.size
  resizeMu,   \* holder of m.resizeMu
  writer,     \* writer[s]: the goroutine in Lock or holding the write lock
  readers,    \* readers[s]: the holders of read locks
  pc, req, ret,
  tbl,        \* tbl[p]: p's local table pointer (t, old)
  idx,        \* idx[p]: the bucket index of p's loop
  got,        \* got[p]: the value a Merge read before it called merger
  \* The rest is history, read by no guard:
  gone,       \* nodes a Clear has unlinked before it stored size 0
  seen,       \* seen[p]: the pairs p's Range has passed to its callback
  steady      \* steady[p]: keys in the map ever since p's Range was called

table == <<tab, chain, size, gone>>
locks == <<resizeMu, writer, readers>>
call == <<req, ret>>
locals == <<tbl, idx, got>>
history == <<seen, steady>>
vars == <<table, locks, pc, call, locals, history>>

-----------------------------------------------------------------------------
SlotsOf(n) == {n} \X (0..(n-1))
Slots == UNION {SlotsOf(n) : n \in Tables}
Nodes == [key : Keys, val : Vals]
BucketOf(n, k) == <<n, Hash[k] % n>>

ResizeThreshold(n) == (n * LoadNum) \div LoadDen
AtAnySize(n) == size > ResizeThreshold(n)    \* mutant: no regard to the maximal size
NeedsResize(n) == size > ResizeThreshold(n) /\ n < MaxBuckets

TwoBits(n) == 4 * n                          \* mutant: newBits is bits + 2
Doubled(n) == 2 * n
OldMask(n, k) == <<Doubled(n), Hash[k] % n>>  \* mutant: the old table's mask
NewHome(n, k) == BucketOf(Doubled(n), k)

\* The bucket of p's key in p's table, its node there, and the bucket p's loop
\* over the table has reached.
KeySlot(p) == BucketOf(tbl[p], req[p].key)
Found(p) == {x \in chain[KeySlot(p)] : x.key = req[p].key}
LoopSlot(p) == <<tbl[p], idx[p]>>
BeforeLast(p) == idx[p] + 2 < tbl[p]          \* mutant: the last bucket is left out
More(p) == idx[p] + 1 < tbl[p]

Unchecked(p) == TRUE                          \* mutant: no second look at m.tab
StillCurrent(p) == tab = tbl[p]

\* The dictionary the callers see: the linked nodes that are counted, and
\* those a Clear has unlinked but not yet uncounted.
Linked == UNION {chain[s] : s \in Slots}
Uncounted == {k \in Keys : \E p \in Procs : pc[p] = "count" /\ req[p].key = k}
Visible == {x \in Linked : x.key \notin Uncounted} \cup gone
Dict == [k \in Keys |->
           IF \E x \in Visible : x.key = k
             THEN (CHOOSE x \in Visible : x.key = k).val
             ELSE NoVal]

-----------------------------------------------------------------------------
Init ==
  /\ tab = InitBuckets
  /\ chain = [s \in Slots |-> {}]
  /\ size = 0
  /\ resizeMu = NoProc
  /\ writer = [s \in Slots |-> NoProc]
  /\ readers = [s \in Slots |-> {}]
  /\ pc = [p \in Procs |-> "idle"]
  /\ req = [p \in Procs |-> NoRequest]
  /\ ret = [p \in Procs |-> NoVal]
  /\ tbl = [p \in Procs |-> InitBuckets]
  /\ idx = [p \in Procs |-> 0]
  /\ got = [p \in Procs |-> NoVal]
  /\ gone = {}
  /\ seen = [p \in Procs |-> {}]
  /\ steady = [p \in Procs |-> {}]

Goto(p, from, to) == pc[p] = from /\ pc' = [pc EXCEPT ![p] = to]
ReturnWith(p, v) == ret' = [ret EXCEPT ![p] = v]

Entry(o) == CASE o \in {"Put", "Get", "Merge"} -> "load"
              [] o = "Clear" -> "mutex"
              [] o = "Size"  -> "size"
              [] o = "Range" -> "range"

Invoke(p) ==
  /\ \E r \in Requests :
       /\ Goto(p, "idle", Entry(r.op))
       /\ req' = [req EXCEPT ![p] = r]
       /\ steady' = [steady EXCEPT
                       ![p] = IF r.op = "Range" THEN Present(Dict) ELSE {}]
  /\ UNCHANGED <<table, locks, ret, locals, seen>>

Return(p) ==
  /\ Goto(p, "done", "idle")
  /\ req' = [req EXCEPT ![p] = NoRequest]
  /\ ReturnWith(p, NoVal)
  /\ tbl' = [tbl EXCEPT ![p] = InitBuckets]
  /\ idx' = [idx EXCEPT ![p] = 0]
  /\ got' = [got EXCEPT ![p] = NoVal]
  /\ seen' = [seen EXCEPT ![p] = {}]
  /\ steady' = [steady EXCEPT ![p] = {}]
  /\ UNCHANGED <<table, locks>>

-----------------------------------------------------------------------------
(* sync.RWMutex.  Lock first excludes the other writers and turns new       *)
(* readers away, then waits for the readers inside to leave.                *)

Announce(p, s) == writer[s] = NoProc /\ writer' = [writer EXCEPT ![s] = p]
Drained(s) == readers[s] = {}
Unlock(s) == writer' = [writer EXCEPT ![s] = NoProc]
RLock(p, s) == writer[s] = NoProc /\ readers' = [readers EXCEPT ![s] = @ \cup {p}]
RUnlock(p, s) == readers' = [readers EXCEPT ![s] = @ \ {p}]

-----------------------------------------------------------------------------
(* Steps Put, Get, Merge and Range share: load m.tab, lock a bucket, look   *)
(* at m.tab again.                                                          *)

\* The table for the search of a key, for the load check after an insert
\* (m.needsResize(m.table()) loads the table before the size), for Range.
Load(p) ==
  /\ \/ Goto(p, "load", IF req[p].op = "Get" THEN "rlock" ELSE "wlock")
     \/ Goto(p, "grow", "check")
     \/ Goto(p, "range", "rnext")
  /\ tbl' = [tbl EXCEPT ![p] = tab]
  /\ idx' = [idx EXCEPT ![p] = 0]
  /\ UNCHANGED <<table, locks, call, got, history>>

\* Lock by an operation on one key, and by the loops of resize and Clear.
LockWrite(p) ==
  /\ \/ Goto(p, "wlock", "wwait") /\ Announce(p, KeySlot(p))
     \/ Goto(p, "lockall", "waitall") /\ Announce(p, LoopSlot(p))
  /\ UNCHANGED <<table, resizeMu, readers, call, locals, history>>

AwaitReaders(p) ==
  /\ Goto(p, "wwait", "locked")
  /\ Drained(KeySlot(p))
  /\ UNCHANGED <<table, locks, call, locals, history>>

\* RLock by Get, and by the loop of Range.
LockRead(p) ==
  /\ \/ Goto(p, "rlock", "reading") /\ RLock(p, KeySlot(p))
     \/ Goto(p, "rnext", "visit") /\ RLock(p, LoopSlot(p))
  /\ UNCHANGED <<table, resizeMu, writer, call, locals, history>>

\* Mutants: the table is not loaded again; Range ends instead of restarting.
ToLock(o) == CASE o = "Range" -> "range" [] o = "Get" -> "rlock" [] OTHER -> "wlock"
ToEnd(o) == IF o = "Range" THEN "done" ELSE "load"
RetryFrom(o) == IF o = "Range" THEN "range" ELSE "load"

\* The table was replaced while p waited for the lock: continue, goto restart.
Retry(p) ==
  /\ \/ Goto(p, "locked", RetryFrom(req[p].op)) /\ Unlock(KeySlot(p)) /\ UNCHANGED readers
     \/ Goto(p, "reading", RetryFrom(req[p].op)) /\ RUnlock(p, KeySlot(p)) /\ UNCHANGED writer
     \/ Goto(p, "visit", RetryFrom(req[p].op)) /\ RUnlock(p, LoopSlot(p)) /\ UNCHANGED writer
  /\ ~StillCurrent(p)
  /\ UNCHANGED <<table, resizeMu, call, locals, history>>

-----------------------------------------------------------------------------
(* Get, Put and Merge in the bucket they have locked.                       *)

ReadValue(p) ==
  /\ Goto(p, "reading", "done")
  /\ StillCurrent(p)
  /\ \/ Found(p) = {} /\ ReturnWith(p, NoVal)
     \/ \E x \in Found(p) : ReturnWith(p, x.val)
  /\ RUnlock(p, KeySlot(p))
  /\ UNCHANGED <<table, resizeMu, writer, req, locals, history>>

\* cur.val = v and Unlock.
StoreAndUnlock(p, v) ==
  /\ chain' = [chain EXCEPT ![KeySlot(p)] =
                 (@ \ Found(p)) \cup {[key |-> req[p].key, val |-> v]}]
  /\ Unlock(KeySlot(p))

Overwrite(p) ==
  /\ Goto(p, "locked", "done")
  /\ StillCurrent(p)
  /\ req[p].op = "Put"
  /\ Found(p) # {}
  /\ StoreAndUnlock(p, req[p].val)
  /\ UNCHANGED <<tab, size, gone, resizeMu, readers, call, locals, history>>

\* Merge reads the old value and calls merger with it ...
CallMerger(p) ==
  /\ Goto(p, "locked", "merging")
  /\ StillCurrent(p)
  /\ req[p].op = "Merge"
  /\ \E x \in Found(p) : got' = [got EXCEPT ![p] = x.val]
  /\ UNCHANGED <<table, locks, call, tbl, idx, history>>

\* ... and stores and returns what merger computed.
StoreMerged(p) ==
  /\ Goto(p, "merging", "done")
  /\ LET v == Merged[<<got[p], req[p].val>>]
     IN  StoreAndUnlock(p, v) /\ ReturnWith(p, v)
  /\ UNCHANGED <<tab, size, gone, resizeMu, readers, req, locals, history>>

Insert(p) ==
  /\ Goto(p, "locked", "count")
  /\ StillCurrent(p)
  /\ Found(p) = {}
  /\ chain' = [chain EXCEPT ![KeySlot(p)] =
                 @ \cup {[key |-> req[p].key, val |-> req[p].val]}]
  /\ UNCHANGED <<tab, size, gone, locks, call, locals, history>>

\* Mutant: a Merge that inserts does not count.
CountPuts(p) ==
  /\ Goto(p, "count", "unlock")
  /\ size' = IF req[p].op = "Put" THEN size + 1 ELSE size
  /\ ReturnWith(p, IF req[p].op = "Merge" THEN req[p].val ELSE NoVal)
  /\ UNCHANGED <<tab, chain, gone, locks, req, locals, history>>

Count(p) ==
  /\ Goto(p, "count", "unlock")
  /\ size' = size + 1
  /\ ReturnWith(p, IF req[p].op = "Merge" THEN req[p].val ELSE NoVal)
  /\ UNCHANGED <<tab, chain, gone, locks, req, locals, history>>

UnlockBucket(p) ==
  /\ Goto(p, "unlock", "grow")
  /\ Unlock(KeySlot(p))
  /\ UNCHANGED <<table, resizeMu, readers, call, locals, history>>

\* Mutant: TryLock, on the grounds that whoever holds resizeMu is resizing.
GrowsUncontended(p) == NeedsResize(tbl[p]) /\ resizeMu = NoProc
Grows(p) == NeedsResize(tbl[p])

CheckGrowth(p) ==
  /\ Goto(p, "check", IF Grows(p) THEN "mutex" ELSE "done")
  /\ UNCHANGED <<table, locks, call, locals, history>>

-----------------------------------------------------------------------------
(* resize and Clear: both take resizeMu, then every bucket lock of the      *)
(* current table in order, do their work, and release in the same order.    *)

Barge == TRUE                                 \* mutant: resizeMu is not waited for
MutexFree == resizeMu = NoProc

LockMutex(p) ==
  /\ Goto(p, "mutex", "begin")
  /\ MutexFree
  /\ resizeMu' = p
  /\ UNCHANGED <<table, writer, readers, call, locals, history>>

\* Mutant: resize keeps the table its caller had loaded for the check.
CheckedTable(p) == IF req[p].op = "Clear" THEN tab ELSE tbl[p]
SweptTable(p) == tab

\* The table is loaded under resizeMu; a resize that another goroutine has
\* made superfluous ends here.
Begin(p) ==
  /\ tbl' = [tbl EXCEPT ![p] = SweptTable(p)]
  /\ idx' = [idx EXCEPT ![p] = 0]
  /\ IF req[p].op = "Clear" \/ NeedsResize(SweptTable(p))
       THEN Goto(p, "begin", "lockall") /\ UNCHANGED resizeMu
       ELSE Goto(p, "begin", "done") /\ resizeMu' = NoProc
  /\ UNCHANGED <<table, writer, readers, call, got, history>>

AwaitNext(p) ==
  /\ Goto(p, "waitall", IF More(p) THEN "lockall" ELSE "recheck")
  /\ Drained(LoopSlot(p))
  /\ idx' = [idx EXCEPT ![p] = @ + 1]
  /\ UNCHANGED <<table, locks, call, tbl, got, history>>

Kept(p) == chain                              \* mutant: the heads keep their chains
Emptied(p) == [s \in Slots |-> IF s[1] = tbl[p] THEN {} ELSE chain[s]]

Abandon(p, to) ==
  /\ Goto(p, "recheck", to)
  /\ idx' = [idx EXCEPT ![p] = 0]
  /\ UNCHANGED <<table, locks, call, tbl, got, history>>

\* Every node moves to a table twice as large, which nobody else can reach
\* yet: the bucket locks insertInto takes there are never contended.
Rehash(p) ==
  /\ Goto(p, "recheck", "publish")
  /\ LET moved == UNION {chain[s] : s \in SlotsOf(tbl[p])}
     IN  chain' = [s \in Slots |->
                     Emptied(p)[s] \cup {x \in moved : NewHome(tbl[p], x.key) = s}]
  /\ UNCHANGED <<tab, size, gone, locks, call, locals, history>>

RecheckResize(p) ==
  /\ req[p].op # "Clear"
  /\ IF NeedsResize(tbl[p]) THEN Rehash(p) ELSE Abandon(p, "unlockall")

Publish(p) ==
  /\ Goto(p, "publish", "unlockall")
  /\ tab' = Doubled(tbl[p])
  /\ idx' = [idx EXCEPT ![p] = 0]
  /\ UNCHANGED <<chain, size, gone, locks, call, tbl, got, history>>

\* The heads of the table become nil.
Unlink(p) ==
  /\ Goto(p, "recheck", "zero")
  /\ chain' = Emptied(p)
  /\ gone' = UNION {chain[s] : s \in SlotsOf(tbl[p])}
  /\ UNCHANGED <<tab, size, locks, call, locals, history>>

\* A Clear that found the table replaced would release all and start over.
RecheckClear(p) ==
  /\ req[p].op = "Clear"
  /\ IF StillCurrent(p) THEN Unlink(p) ELSE Abandon(p, "backoff")

StoreZero(p) ==
  /\ Goto(p, "zero", "unlockall")
  /\ size' = 0
  /\ gone' = {}
  /\ steady' = [q \in Procs |-> {}]
  /\ idx' = [idx EXCEPT ![p] = 0]
  /\ UNCHANGED <<tab, chain, locks, call, tbl, got, seen>>

UnlockNext(p) ==
  /\ pc[p] \in {"unlockall", "backoff"}
  /\ idx[p] < tbl[p]
  /\ Unlock(LoopSlot(p))
  /\ idx' = [idx EXCEPT ![p] = @ + 1]
  /\ UNCHANGED <<table, resizeMu, readers, pc, call, tbl, got, history>>

\* All bucket locks are released: the deferred unlock of resizeMu and the
\* return, or the next round of Clear's loop, which keeps resizeMu.
LeaveLoop(p) ==
  /\ idx[p] = tbl[p]
  /\ IF pc[p] = "backoff"
       THEN Goto(p, "backoff", "begin") /\ UNCHANGED resizeMu
       ELSE Goto(p, "unlockall", "done") /\ resizeMu' = NoProc
  /\ UNCHANGED <<table, writer, readers, call, locals, history>>

-----------------------------------------------------------------------------
ReadSize(p) ==
  /\ Goto(p, "size", "done")
  /\ ReturnWith(p, size)
  /\ UNCHANGED <<table, locks, req, locals, history>>

\* Range passes the nodes of a bucket to its callback under the read lock.
ReportNodes(p, S) ==
  seen' = [seen EXCEPT ![p] = @ \cup {<<x.key, x.val>> : x \in S}]

\* The callback takes every node of the bucket ...
VisitBucket(p) ==
  /\ Goto(p, "visit", IF More(p) THEN "rnext" ELSE "done")
  /\ StillCurrent(p)
  /\ ReportNodes(p, chain[LoopSlot(p)])
  /\ RUnlock(p, LoopSlot(p))
  /\ IF More(p) THEN UNCHANGED ret ELSE ReturnWith(p, 1)
  /\ idx' = [idx EXCEPT ![p] = @ + 1]
  /\ UNCHANGED <<table, resizeMu, writer, req, tbl, got, steady>>

\* ... or returns false at one of them.
StopRange(p) ==
  /\ Goto(p, "visit", "done")
  /\ StillCurrent(p)
  /\ \E S \in (SUBSET chain[LoopSlot(p)]) \ {{}} : ReportNodes(p, S)
  /\ RUnlock(p, LoopSlot(p))
  /\ ReturnWith(p, 0)
  /\ UNCHANGED <<table, resizeMu, writer, req, locals, steady>>

-----------------------------------------------------------------------------
Step(p) ==
  \/ Load(p) \/ LockWrite(p) \/ AwaitReaders(p) \/ LockRead(p) \/ Retry(p)
  \/ ReadValue(p) \/ Overwrite(p) \/ CallMerger(p) \/ StoreMerged(p)
  \/ Insert(p) \/ Count(p) \/ UnlockBucket(p) \/ CheckGrowth(p)
  \/ LockMutex(p) \/ Begin(p) \/ AwaitNext(p) \/ RecheckResize(p) \/ Publish(p)
  \/ RecheckClear(p) \/ StoreZero(p) \/ UnlockNext(p) \/ LeaveLoop(p)
  \/ ReadSize(p) \/ VisitBucket(p) \/ StopRange(p) \/ Return(p)

Next == \E p \in Procs : Invoke(p) \/ Step(p)

Spec == Init /\ [][Next]_vars

\* A goroutine that can run does.  A lock it waits for may be freed and taken
\* again many times before its turn, hence strong fairness: sync.Mutex hands
\* over to its longest waiter after 1 ms and an unlocked RWMutex lets the
\* waiting readers in before the next writer.
FairSpec == Spec /\ \A p \in Procs : SF_vars(Step(p))

-----------------------------------------------------------------------------
(* Properties.                                                              *)

PCs == {"idle", "load", "wlock", "wwait", "locked", "merging", "count", "unlock",
        "grow", "check", "rlock", "reading", "size", "mutex", "begin", "lockall",
        "waitall", "recheck", "publish", "zero", "unlockall", "backoff",
        "range", "rnext", "visit", "done"}

\* Every variable has its type; the number of keys bounds the counter.
TypeOK ==
  /\ tab \in Tables
  /\ chain \in [Slots -> SUBSET Nodes]
  /\ size \in Nat
  /\ resizeMu \in Procs \cup {NoProc}
  /\ writer \in [Slots -> Procs \cup {NoProc}]
  /\ readers \in [Slots -> SUBSET Procs]
  /\ pc \in [Procs -> PCs]
  /\ req \in [Procs -> Requests \cup {NoRequest}]
  /\ ret \in [Procs -> Answers]
  /\ tbl \in [Procs -> Tables]
  /\ idx \in [Procs -> Nat]
  /\ got \in [Procs -> Vals \cup {NoVal}]
  /\ gone \in SUBSET Nodes
  /\ seen \in [Procs -> SUBSET (Keys \X Vals)]
  /\ steady \in [Procs -> SUBSET Keys]

\* p is between a Lock and an Unlock of slot s.
Writes(p, s) ==
  \/ pc[p] \in {"locked", "merging", "count", "unlock"} /\ s = KeySlot(p)
  \/ /\ s[1] = tbl[p]
     /\ \/ pc[p] \in {"recheck", "publish", "zero"}
        \/ pc[p] \in {"lockall", "waitall"} /\ s[2] < idx[p]
        \/ pc[p] \in {"unlockall", "backoff"} /\ s[2] >= idx[p]

\* p is between an RLock and an RUnlock of slot s.
Reads(p, s) ==
  \/ pc[p] = "reading" /\ s = KeySlot(p)
  \/ pc[p] = "visit" /\ s = LoopSlot(p)

\* A goroutine in a bucket's write section is alone there: no other writer,
\* and no reader that entered before it (the bucket locks of map.go:54-57).
Exclusion ==
  \A s \in Slots : \A p, q \in Procs :
    p # q /\ Writes(p, s) => ~Writes(q, s) /\ ~Reads(q, s)

\* The table a goroutine found current under its bucket lock (map.go:217,271)
\* or under resizeMu (map.go:176,299) is still the current one when it uses
\* it: no resize slips in between the check and the last access.
CheckedTableIsCurrent ==
  \A p \in Procs :
    pc[p] \in {"merging", "count", "unlock", "lockall", "waitall", "recheck",
              "publish", "zero"} => tab = tbl[p]

\* The second test of resize (map.go:187) and the retry of Clear (map.go:303)
\* never fire: resizeMu keeps size from shrinking and the table from changing.
RechecksSucceed ==
  /\ \A p \in Procs : pc[p] # "backoff"
  /\ \A p \in Procs : pc[p] = "recheck" /\ req[p].op # "Clear" => NeedsResize(tbl[p])

\* Every node is in the bucket its key hashes to, so that a search of that
\* bucket finds it, and no key has two nodes, in whichever tables.
WellPlaced ==
  \A s \in Slots : \A x \in chain[s] :
    /\ BucketOf(s[1], x.key) = s
    /\ \A u \in Slots : \A y \in chain[u] : x.key = y.key => x = y /\ s = u

\* A replaced table holds nothing: a write through a stale pointer would be
\* lost.  Between the move and the store of the pointer it is the old table
\* that is empty.
OnlyCurrentTableLinked ==
  \A s \in Slots :
    chain[s] # {} => s[1] = IF \E p \in Procs : pc[p] = "publish" THEN 2 * tab ELSE tab

\* size is the number of keys in the map at every moment, during a Clear and
\* a resize as well; the comment of Size (map.go:320) promises it only
\* without a concurrent Clear.
SizeIsExact == size = Cardinality(Present(Dict))

\* The goroutines that have counted a new key and may yet grow the table.
Growing ==
  {p \in Procs : pc[p] \in {"unlock", "grow", "check"} \/
     (req[p].op \in {"Put", "Merge"} /\
      pc[p] \in {"mutex", "begin", "lockall", "waitall", "recheck", "publish"})}

\* Each goroutine on its way to the load check pays for one key above the load
\* factor: once all inserts have returned, size <= loadFactor * buckets unless
\* the table has its maximal size (map.go:5,34).
LoadIsPaidFor ==
  tab < MaxBuckets => size <= ResizeThreshold(tab) + Cardinality(Growing)

\* The bucket array is replaced only by one twice as large, by a goroutine
\* that holds every bucket of it with no reader inside.
GrowsUnderAllLocks ==
  [][tab' # tab =>
       /\ tab' = 2 * tab
       /\ \E p \in Procs : \A s \in SlotsOf(tab) : writer[s] = p /\ readers[s] = {}]_vars

\* Where the abstract call of p is: it takes effect at the read of the value,
\* at the overwrite, at the count of a new key or at the store of size 0.
Status(p) ==
  IF pc[p] = "idle" THEN "idle"
  ELSE IF \/ pc[p] \in {"unlock", "grow", "check", "unlockall", "done"}
          \/ p \in Growing
       THEN "done" ELSE "pending"

Atomic == INSTANCE AtomicMap WITH dict <- Dict, status <- [p \in Procs |-> Status(p)]

\* Put, Get, Merge, Clear and Size are linearizable and Range is weakly
\* consistent, whatever resizes and Clears run at the same time.
Linearizable == Atomic!Spec

\* No call is stuck: not on a lock order, not in a retry loop.
EveryCallReturns == \A p \in Procs : pc[p] # "idle" ~> pc[p] = "idle"

\* A table above its load factor grows or empties.
OverloadEnds == NeedsResize(tab) ~> ~NeedsResize(tab)

\* What map.go:2-3 says of Get and Range: only a write to the same bucket
\* keeps a reader out.
ReadersWaitForOwnBucketOnly ==
  \A p, q \in Procs :
    pc[p] = "rlock" /\ writer[KeySlot(p)] = q /\ req[q].op \in {"Put", "Merge"}
      => BucketOf(tbl[p], req[q].key) = KeySlot(p)
=============================================================================
