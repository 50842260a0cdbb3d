--------------------------- MODULE ConcMap_proofs ---------------------------
(***************************************************************************)
(* Theorems about ConcMap, for all sets of goroutines, keys and values,    *)
(* all tables, hash functions and load factors.                            *)
(***************************************************************************)
EXTENDS ConcMap, FiniteSetTheorems, TLAPS

-----------------------------------------------------------------------------
(* Control: at which pc a goroutine can be with which request.              *)

WritePCs == {"wlock", "wwait", "locked", "merging", "count", "unlock", "grow", "check"}
SweepPCs == {"lockall", "waitall", "recheck", "publish", "zero", "unlockall", "backoff"}

\* The request and the locals a program counter implies.
ControlOK ==
  \A p \in Procs :
    /\ pc[p] = "load" => req[p].op \in {"Put", "Get", "Merge"}
    /\ pc[p] \in {"rlock", "reading"} => req[p].op = "Get"
    /\ pc[p] \in WritePCs \cup {"publish"} => req[p].op \in {"Put", "Merge"}
    /\ pc[p] \in {"mutex", "begin"} \cup SweepPCs => req[p].op \in {"Put", "Merge", "Clear"}
    /\ pc[p] \in {"zero", "backoff"} => req[p].op = "Clear"
    /\ pc[p] \in {"range", "rnext", "visit"} => req[p].op = "Range"
    /\ pc[p] = "merging" => got[p] \in Vals
    /\ pc[p] = "publish" => tbl[p] < MaxBuckets
    /\ pc[p] \in {"lockall", "waitall", "rnext", "visit"} => idx[p] < tbl[p]
    /\ pc[p] \in {"unlockall", "backoff"} => idx[p] <= tbl[p]

\* The inductive form of TypeOK.
TypeInv == TypeOK /\ ControlOK

-----------------------------------------------------------------------------
\* The fields of a request.
LEMMA RequestFields ==
  ASSUME NEW r \in Requests \cup {NoRequest}
  PROVE  /\ r.op \in Ops \cup {"none"}
         /\ r.op \in {"Put", "Merge"} => r.key \in Keys /\ r.val \in Vals
         /\ r.op = "Get" => r.key \in Keys
  BY DEF Requests, NoRequest

\* A table has at least one bucket.
LEMMA TableSizes == InitBuckets \in Tables /\ \A n \in Tables : n \in Nat /\ 0 < n
  BY TablesAssumption

\* Every key has a bucket in every table, and no other table has that bucket.
LEMMA BucketIsSlot ==
  ASSUME NEW n \in Tables, NEW k \in Keys
  PROVE  BucketOf(n, k) \in Slots /\ BucketOf(n, k) \in SlotsOf(n)
  BY TablesAssumption, HashAssumption DEF BucketOf, Slots, SlotsOf

\* The loops over a table stay inside its buckets.
LEMMA LoopIsSlot ==
  ASSUME TypeOK, NEW p \in Procs, idx[p] < tbl[p]
  PROVE  LoopSlot(p) \in Slots /\ LoopSlot(p) \in SlotsOf(tbl[p])
<1>1. tbl[p] \in Tables /\ tbl[p] \in Nat /\ idx[p] \in 0..(tbl[p] - 1)
  BY TableSizes DEF TypeOK
<1>. QED BY <1>1 DEF LoopSlot, Slots, SlotsOf

\* The lock operations keep the types of the locks.
LEMMA LockTypes ==
  ASSUME TypeOK, NEW p \in Procs, NEW s
  PROVE  /\ Announce(p, s) => writer' \in [Slots -> Procs \cup {NoProc}]
         /\ Unlock(s) => writer' \in [Slots -> Procs \cup {NoProc}]
         /\ RLock(p, s) => readers' \in [Slots -> SUBSET Procs]
         /\ RUnlock(p, s) => readers' \in [Slots -> SUBSET Procs]
<1>1. Announce(p, s) => writer' \in [Slots -> Procs \cup {NoProc}]
  BY DEF TypeOK, Announce
<1>2. Unlock(s) => writer' \in [Slots -> Procs \cup {NoProc}]
  BY DEF TypeOK, Unlock
<1>3. RLock(p, s) => readers' \in [Slots -> SUBSET Procs]
  <2>1. ASSUME s \in Slots PROVE readers[s] \cup {p} \in SUBSET Procs
    BY <2>1 DEF TypeOK
  <2>. QED BY <2>1 DEF TypeOK, RLock
<1>4. RUnlock(p, s) => readers' \in [Slots -> SUBSET Procs]
  <2>1. ASSUME s \in Slots PROVE readers[s] \ {p} \in SUBSET Procs
    BY <2>1 DEF TypeOK
  <2>. QED BY <2>1 DEF TypeOK, RUnlock
<1>. QED BY <1>1, <1>2, <1>3, <1>4

\* So do the stores into a chain and the reports of a Range.
LEMMA ChainTypes ==
  ASSUME TypeOK, NEW p \in Procs, req[p].key \in Keys, NEW v \in Vals
  PROVE  /\ StoreAndUnlock(p, v) => chain' \in [Slots -> SUBSET Nodes]
         /\ chain' = [chain EXCEPT ![KeySlot(p)] = @ \cup {[key |-> req[p].key, val |-> v]}]
              => chain' \in [Slots -> SUBSET Nodes]
<1>. DEFINE x == [key |-> req[p].key, val |-> v]
<1>1. x \in Nodes
  BY DEF Nodes
<1>2. KeySlot(p) \in Slots /\ chain[KeySlot(p)] \in SUBSET Nodes
  BY BucketIsSlot DEF TypeOK, KeySlot
<1>3. /\ chain[KeySlot(p)] \cup {x} \in SUBSET Nodes
      /\ (chain[KeySlot(p)] \ Found(p)) \cup {x} \in SUBSET Nodes
  BY <1>1, <1>2
<1>. HIDE DEF x
<1>. QED BY <1>2, <1>3 DEF TypeOK, StoreAndUnlock, x

\* What a Range reports are pairs of a key and a value.
LEMMA ReportTypes ==
  ASSUME TypeOK, NEW p \in Procs, NEW S \in SUBSET Nodes, ReportNodes(p, S)
  PROVE  seen' \in [Procs -> SUBSET (Keys \X Vals)]
<1>1. {<<x.key, x.val>> : x \in S} \in SUBSET (Keys \X Vals)
  BY DEF Nodes
<1>. QED BY <1>1 DEF TypeOK, ReportNodes

\* The buckets of a table are buckets.
LEMMA SlotsWithin == \A n \in Tables : SlotsOf(n) \subseteq Slots
  BY DEF Slots

\* New builds a map of the right type.
THEOREM TypeInit == Init => TypeInv
  BY TablesAssumption, NoProcAssumption
  DEF Init, TypeInv, TypeOK, ControlOK, PCs, WritePCs, SweepPCs, NoRequest, Answers

\* Every step keeps the types and the control invariant.
LEMMA TypeNext == TypeInv /\ [Next]_vars => TypeInv'
<1>. SUFFICES ASSUME TypeInv, [Next]_vars PROVE TypeInv'
  OBVIOUS
<1>. USE DEF TypeInv, TypeOK, ControlOK, PCs, WritePCs, SweepPCs, Goto,
           table, locks, call, locals, history
<1>s. ASSUME UNCHANGED vars PROVE TypeInv'
  BY <1>s DEF vars
<1>1. ASSUME NEW p \in Procs, Invoke(p) PROVE TypeInv'
  <2>1. PICK r \in Requests :
          /\ Goto(p, "idle", Entry(r.op))
          /\ req' = [req EXCEPT ![p] = r]
          /\ steady' = [steady EXCEPT
                          ![p] = IF r.op = "Range" THEN Present(Dict) ELSE {}]
    BY <1>1 DEF Invoke
  <2>2. r.op \in AllOps
    BY OpsAssumption DEF Requests, AllOps
  <2>3. /\ Entry(r.op) \in {"load", "mutex", "size", "range"}
        /\ Entry(r.op) = "load" => r.op \in {"Put", "Get", "Merge"}
        /\ Entry(r.op) = "mutex" => r.op = "Clear"
        /\ Entry(r.op) = "range" => r.op = "Range"
    BY <2>2 DEF Entry, AllOps
  <2>4. TypeOK'
    <3>1. pc' \in [Procs -> PCs] /\ req' \in [Procs -> Requests \cup {NoRequest}]
      BY <2>1, <2>3
    <3>2. steady' \in [Procs -> SUBSET Keys]
      BY <2>1 DEF Present
    <3>. QED BY <1>1, <3>1, <3>2 DEF Invoke
  <2>5. ControlOK'
    BY <1>1, <2>1, <2>3 DEF Invoke
  <2>. QED BY <2>4, <2>5
<1>2. ASSUME NEW p \in Procs, Load(p) PROVE TypeInv'
  <2>1. TypeOK'
    BY <1>2, TableSizes, RequestFields DEF Load, Answers
  <2>2. ControlOK'
    BY <1>2, TableSizes, RequestFields DEF Load
  <2>. QED BY <2>1, <2>2
<1>3. ASSUME NEW p \in Procs, LockWrite(p) PROVE TypeInv'
  <2>1. pc' \in [Procs -> PCs] /\ writer' \in [Slots -> Procs \cup {NoProc}]
    BY <1>3, LockTypes DEF LockWrite
  <2>2. TypeOK'
    BY <1>3, <2>1 DEF LockWrite
  <2>3. ControlOK'
    BY <1>3 DEF LockWrite
  <2>. QED BY <2>2, <2>3
<1>4. ASSUME NEW p \in Procs, AwaitReaders(p) PROVE TypeInv'
  <2>1. TypeOK'
    BY <1>4, TableSizes, RequestFields DEF AwaitReaders, Answers
  <2>2. ControlOK'
    BY <1>4, TableSizes, RequestFields DEF AwaitReaders
  <2>. QED BY <2>1, <2>2
<1>5. ASSUME NEW p \in Procs, LockRead(p) PROVE TypeInv'
  <2>1. pc' \in [Procs -> PCs] /\ readers' \in [Slots -> SUBSET Procs]
    BY <1>5, LockTypes DEF LockRead
  <2>2. TypeOK'
    BY <1>5, <2>1 DEF LockRead
  <2>3. ControlOK'
    BY <1>5 DEF LockRead
  <2>. QED BY <2>2, <2>3
<1>6. ASSUME NEW p \in Procs, Retry(p) PROVE TypeInv'
  <2>1. TypeOK'
    BY <1>6, TableSizes, RequestFields, LockTypes DEF Retry, RetryFrom, Answers
  <2>2. ControlOK'
    BY <1>6, TableSizes, RequestFields DEF Retry, RetryFrom
  <2>. QED BY <2>1, <2>2
<1>7. ASSUME NEW p \in Procs, ReadValue(p) PROVE TypeInv'
  <2>1. req[p].key \in Keys
    BY <1>7, RequestFields DEF ReadValue
  <2>2. Found(p) \in SUBSET Nodes
    BY <2>1, BucketIsSlot DEF Found, KeySlot
  <2>3. ret' \in [Procs -> Answers]
    BY <1>7, <2>2 DEF ReadValue, ReturnWith, Answers, Nodes
  <2>4. TypeOK'
    BY <1>7, <2>3, LockTypes DEF ReadValue
  <2>5. ControlOK'
    BY <1>7 DEF ReadValue
  <2>. QED BY <2>4, <2>5
<1>8. ASSUME NEW p \in Procs, Overwrite(p) PROVE TypeInv'
  <2>1. req[p].key \in Keys /\ req[p].val \in Vals
    BY <1>8, RequestFields DEF Overwrite
  <2>2. /\ chain' \in [Slots -> SUBSET Nodes]
        /\ writer' \in [Slots -> Procs \cup {NoProc}]
    BY <1>8, <2>1, ChainTypes, LockTypes DEF Overwrite, StoreAndUnlock
  <2>3. TypeOK'
    BY <1>8, <2>2 DEF Overwrite
  <2>4. ControlOK'
    BY <1>8 DEF Overwrite
  <2>. QED BY <2>3, <2>4
<1>9. ASSUME NEW p \in Procs, CallMerger(p) PROVE TypeInv'
  <2>1. req[p].key \in Keys
    BY <1>9, RequestFields DEF CallMerger
  <2>2. PICK x \in Found(p) : got' = [got EXCEPT ![p] = x.val]
    BY <1>9 DEF CallMerger
  <2>3. x.val \in Vals
    BY <2>1, BucketIsSlot DEF Found, KeySlot, Nodes
  <2>4. TypeOK'
    BY <1>9, <2>2, <2>3 DEF CallMerger
  <2>5. ControlOK'
    BY <1>9, <2>2, <2>3 DEF CallMerger
  <2>. QED BY <2>4, <2>5
<1>10. ASSUME NEW p \in Procs, StoreMerged(p) PROVE TypeInv'
  <2>. DEFINE v == Merged[<<got[p], req[p].val>>]
  <2>1. req[p].key \in Keys /\ req[p].val \in Vals /\ got[p] \in Vals
    BY <1>10, RequestFields DEF StoreMerged
  <2>2. v \in Vals
    BY <2>1, MergedAssumption
  <2>. HIDE DEF v
  <2>3. StoreAndUnlock(p, v) /\ ReturnWith(p, v)
    BY <1>10 DEF StoreMerged, v
  <2>4. /\ chain' \in [Slots -> SUBSET Nodes]
        /\ writer' \in [Slots -> Procs \cup {NoProc}]
    BY <2>1, <2>2, <2>3, ChainTypes, LockTypes DEF StoreAndUnlock
  <2>5. TypeOK'
    BY <1>10, <2>2, <2>3, <2>4 DEF StoreMerged, ReturnWith, Answers
  <2>6. ControlOK'
    BY <1>10 DEF StoreMerged
  <2>. QED BY <2>5, <2>6
<1>11. ASSUME NEW p \in Procs, Insert(p) PROVE TypeInv'
  <2>1. TypeOK'
    BY <1>11, TableSizes, RequestFields, ChainTypes DEF Insert, Answers
  <2>2. ControlOK'
    BY <1>11, TableSizes, RequestFields DEF Insert
  <2>. QED BY <2>1, <2>2
<1>12. ASSUME NEW p \in Procs, Count(p) PROVE TypeInv'
  <2>1. TypeOK'
    BY <1>12, TableSizes, RequestFields DEF Count, ReturnWith, Answers
  <2>2. ControlOK'
    BY <1>12, TableSizes, RequestFields DEF Count, ReturnWith
  <2>. QED BY <2>1, <2>2
<1>13. ASSUME NEW p \in Procs, UnlockBucket(p) PROVE TypeInv'
  <2>1. TypeOK'
    BY <1>13, TableSizes, RequestFields, LockTypes DEF UnlockBucket, Answers
  <2>2. ControlOK'
    BY <1>13, TableSizes, RequestFields DEF UnlockBucket
  <2>. QED BY <2>1, <2>2
<1>14. ASSUME NEW p \in Procs, CheckGrowth(p) PROVE TypeInv'
  <2>1. TypeOK'
    BY <1>14, TableSizes, RequestFields DEF CheckGrowth, Answers
  <2>2. ControlOK'
    BY <1>14, TableSizes, RequestFields DEF CheckGrowth
  <2>. QED BY <2>1, <2>2
<1>15. ASSUME NEW p \in Procs, LockMutex(p) PROVE TypeInv'
  <2>1. TypeOK'
    BY <1>15, TableSizes, RequestFields DEF LockMutex, Answers
  <2>2. ControlOK'
    BY <1>15, TableSizes, RequestFields DEF LockMutex
  <2>. QED BY <2>1, <2>2
<1>16. ASSUME NEW p \in Procs, Begin(p) PROVE TypeInv'
  <2>1. TypeOK'
    BY <1>16, TableSizes, RequestFields DEF Begin, SweptTable, Answers
  <2>2. ControlOK'
    BY <1>16, TableSizes, RequestFields DEF Begin, SweptTable
  <2>. QED BY <2>1, <2>2
<1>17. ASSUME NEW p \in Procs, AwaitNext(p) PROVE TypeInv'
  <2>1. TypeOK'
    BY <1>17, TableSizes, RequestFields DEF AwaitNext, More, Answers
  <2>2. ControlOK'
    BY <1>17, TableSizes, RequestFields DEF AwaitNext, More
  <2>. QED BY <2>1, <2>2
<1>18. ASSUME NEW p \in Procs, RecheckResize(p) PROVE TypeInv'
  <2>1. CASE NeedsResize(tbl[p])
    <3>1. UNION {chain[s] : s \in SlotsOf(tbl[p])} \in SUBSET Nodes
      BY SlotsWithin
    <3>2. chain' \in [Slots -> SUBSET Nodes]
      BY <1>18, <2>1, <3>1 DEF RecheckResize, Rehash, Emptied
    <3>3. TypeOK'
      BY <1>18, <2>1, <3>2 DEF RecheckResize, Rehash
    <3>4. ControlOK'
      BY <1>18, <2>1, RequestFields DEF RecheckResize, Rehash, NeedsResize
    <3>. QED BY <3>3, <3>4
  <2>2. CASE ~NeedsResize(tbl[p])
    <3>1. TypeOK'
      BY <1>18, <2>2 DEF RecheckResize, Abandon
    <3>2. ControlOK'
      BY <1>18, <2>2, TableSizes DEF RecheckResize, Abandon
    <3>. QED BY <3>1, <3>2
  <2>. QED BY <2>1, <2>2
<1>19. ASSUME NEW p \in Procs, Publish(p) PROVE TypeInv'
  <2>1. TypeOK'
    BY <1>19, TableSizes, RequestFields, TablesAssumption DEF Publish, Doubled, Answers
  <2>2. ControlOK'
    BY <1>19, TableSizes, RequestFields DEF Publish, Doubled
  <2>. QED BY <2>1, <2>2
<1>20. ASSUME NEW p \in Procs, RecheckClear(p) PROVE TypeInv'
  <2>1. CASE StillCurrent(p)
    <3>1. UNION {chain[s] : s \in SlotsOf(tbl[p])} \in SUBSET Nodes
      BY SlotsWithin
    <3>2. chain' \in [Slots -> SUBSET Nodes]
      BY <1>20, <2>1 DEF RecheckClear, Unlink, Emptied
    <3>3. TypeOK'
      BY <1>20, <2>1, <3>1, <3>2 DEF RecheckClear, Unlink
    <3>4. ControlOK'
      BY <1>20, <2>1 DEF RecheckClear, Unlink
    <3>. QED BY <3>3, <3>4
  <2>2. CASE ~StillCurrent(p)
    <3>1. TypeOK'
      BY <1>20, <2>2 DEF RecheckClear, Abandon
    <3>2. ControlOK'
      BY <1>20, <2>2, TableSizes DEF RecheckClear, Abandon
    <3>. QED BY <3>1, <3>2
  <2>. QED BY <2>1, <2>2
<1>21. ASSUME NEW p \in Procs, StoreZero(p) PROVE TypeInv'
  <2>1. TypeOK'
    BY <1>21, TableSizes, RequestFields DEF StoreZero, Answers
  <2>2. ControlOK'
    BY <1>21, TableSizes, RequestFields DEF StoreZero
  <2>. QED BY <2>1, <2>2
<1>22. ASSUME NEW p \in Procs, UnlockNext(p) PROVE TypeInv'
  <2>1. TypeOK'
    BY <1>22, TableSizes, RequestFields, LockTypes DEF UnlockNext, Answers
  <2>2. ControlOK'
    BY <1>22, TableSizes, RequestFields DEF UnlockNext
  <2>. QED BY <2>1, <2>2
<1>23. ASSUME NEW p \in Procs, LeaveLoop(p) PROVE TypeInv'
  <2>1. TypeOK'
    BY <1>23, TableSizes, RequestFields DEF LeaveLoop, Answers
  <2>2. ControlOK'
    BY <1>23, TableSizes, RequestFields DEF LeaveLoop
  <2>. QED BY <2>1, <2>2
<1>24. ASSUME NEW p \in Procs, ReadSize(p) PROVE TypeInv'
  <2>1. TypeOK'
    BY <1>24, TableSizes, RequestFields DEF ReadSize, ReturnWith, Answers
  <2>2. ControlOK'
    BY <1>24, TableSizes, RequestFields DEF ReadSize, ReturnWith
  <2>. QED BY <2>1, <2>2
<1>25. ASSUME NEW p \in Procs, VisitBucket(p) PROVE TypeInv'
  <2>1. chain[LoopSlot(p)] \in SUBSET Nodes
    BY <1>25, LoopIsSlot DEF VisitBucket
  <2>2. seen' \in [Procs -> SUBSET (Keys \X Vals)]
    BY <1>25, <2>1, ReportTypes DEF VisitBucket
  <2>3. readers' \in [Slots -> SUBSET Procs]
    BY <1>25, LockTypes DEF VisitBucket
  <2>4. /\ pc' \in [Procs -> PCs] /\ ret' \in [Procs -> Answers]
        /\ idx' \in [Procs -> Nat]
    BY <1>25 DEF VisitBucket, ReturnWith, Answers
  <2>6. TypeOK'
    BY <1>25, <2>2, <2>3, <2>4 DEF VisitBucket
  <2>5. ControlOK'
    BY <1>25, TableSizes DEF VisitBucket, More
  <2>. QED BY <2>5, <2>6
<1>26. ASSUME NEW p \in Procs, StopRange(p) PROVE TypeInv'
  <2>1. chain[LoopSlot(p)] \in SUBSET Nodes
    BY <1>26, LoopIsSlot DEF StopRange
  <2>2. seen' \in [Procs -> SUBSET (Keys \X Vals)]
    BY <1>26, <2>1, ReportTypes DEF StopRange
  <2>3. readers' \in [Slots -> SUBSET Procs]
    BY <1>26, LockTypes DEF StopRange
  <2>4. TypeOK'
    BY <1>26, <2>2, <2>3 DEF StopRange, ReturnWith, Answers
  <2>5. ControlOK'
    BY <1>26 DEF StopRange
  <2>. QED BY <2>4, <2>5
<1>27. ASSUME NEW p \in Procs, Return(p) PROVE TypeInv'
  <2>1. TypeOK'
    BY <1>27, TableSizes, RequestFields DEF Return, ReturnWith, Answers
  <2>2. ControlOK'
    BY <1>27, TableSizes, RequestFields DEF Return, ReturnWith
  <2>. QED BY <2>1, <2>2
<1>. QED
  BY <1>s, <1>1, <1>2, <1>3, <1>4, <1>5, <1>6, <1>7, <1>8, <1>9, <1>10, <1>11, <1>12,
     <1>13, <1>14, <1>15, <1>16, <1>17, <1>18, <1>19, <1>20, <1>21, <1>22, <1>23, <1>24,
     <1>25, <1>26, <1>27
  DEF Next, Step

\* The inductive invariant holds in every state.
THEOREM TypeInvHolds == Spec => []TypeInv
  BY TypeInit, TypeNext, PTL DEF Spec

\* Every variable of the map and of its callers always has its type: no chain
\* holds a node outside Nodes, no loop runs past its table, size is a number.
THEOREM TypeCorrect == Spec => []TypeOK
<1>1. TypeInv => TypeOK
  BY DEF TypeInv
<1>. QED BY <1>1, TypeInvHolds, PTL

-----------------------------------------------------------------------------
(* Locks: who is in a critical section holds the lock, and no reader is     *)
(* inside with a writer.                                                    *)

\* p has announced its Lock of slot s and waits for the readers.
Waits(p, s) ==
  \/ pc[p] = "wwait" /\ s = KeySlot(p)
  \/ pc[p] = "waitall" /\ s = LoopSlot(p)

\* Critical sections hold their locks; begin and the sweeps hold resizeMu.
LockInv ==
  /\ \A p \in Procs, s \in Slots : Writes(p, s) \/ Waits(p, s) => writer[s] = p
  /\ \A p \in Procs, s \in Slots : Writes(p, s) => readers[s] = {}
  /\ \A p \in Procs, s \in Slots : Reads(p, s) => p \in readers[s]
  /\ \A p \in Procs : pc[p] \in {"begin"} \cup SweepPCs => resizeMu = p

\* The parts of a bucket's name.
LEMMA SlotFields ==
  ASSUME NEW s \in Slots
  PROVE  s[1] \in Tables /\ s[2] \in Nat /\ s[2] < s[1] /\ s = <<s[1], s[2]>>
<1>1. PICK n \in Tables : s \in SlotsOf(n)
  BY DEF Slots
<1>. QED BY <1>1, TableSizes DEF SlotsOf

\* The first program counter of a call fits its operation.
LEMMA EntryOK ==
  ASSUME NEW r \in Requests
  PROVE  /\ Entry(r.op) \in {"load", "mutex", "size", "range"}
         /\ Entry(r.op) = "load" => r.op \in {"Put", "Get", "Merge"}
         /\ Entry(r.op) = "mutex" => r.op = "Clear"
         /\ Entry(r.op) = "range" => r.op = "Range"
  BY OpsAssumption DEF Entry, AllOps, Requests

\* A step of p leaves the program counter and the locals of the others alone.
LEMMA OthersKeep ==
  ASSUME TypeOK, NEW p \in Procs, Invoke(p) \/ Step(p), NEW q \in Procs, q # p
  PROVE  /\ pc'[q] = pc[q] /\ req'[q] = req[q] /\ tbl'[q] = tbl[q]
         /\ idx'[q] = idx[q] /\ got'[q] = got[q]
         /\ \A s : /\ Writes(q, s)' <=> Writes(q, s)
                   /\ Waits(q, s)' <=> Waits(q, s)
                   /\ Reads(q, s)' <=> Reads(q, s)
<1>. DEFINE Same == /\ pc'[q] = pc[q] /\ req'[q] = req[q] /\ tbl'[q] = tbl[q]
                    /\ idx'[q] = idx[q] /\ got'[q] = got[q]
<1>. USE DEF TypeOK, Goto, call, locals
<1>1. Invoke(p) => Same
  BY DEF Invoke
<1>2. Load(p) => Same
  BY DEF Load
<1>3. LockWrite(p) => Same
  BY DEF LockWrite
<1>4. AwaitReaders(p) => Same
  BY DEF AwaitReaders
<1>5. LockRead(p) => Same
  BY DEF LockRead
<1>6. Retry(p) => Same
  BY DEF Retry
<1>7. ReadValue(p) => Same
  BY DEF ReadValue
<1>8. Overwrite(p) => Same
  BY DEF Overwrite
<1>9. CallMerger(p) => Same
  BY DEF CallMerger
<1>10. StoreMerged(p) => Same
  BY DEF StoreMerged
<1>11. Insert(p) => Same
  BY DEF Insert
<1>12. Count(p) => Same
  BY DEF Count
<1>13. UnlockBucket(p) => Same
  BY DEF UnlockBucket
<1>14. CheckGrowth(p) => Same
  BY DEF CheckGrowth
<1>15. LockMutex(p) => Same
  BY DEF LockMutex
<1>16. Begin(p) => Same
  BY DEF Begin
<1>17. AwaitNext(p) => Same
  BY DEF AwaitNext
<1>18. RecheckResize(p) => Same
  BY DEF RecheckResize, Rehash, Abandon
<1>19. Publish(p) => Same
  BY DEF Publish
<1>20. RecheckClear(p) => Same
  BY DEF RecheckClear, Unlink, Abandon
<1>21. StoreZero(p) => Same
  BY DEF StoreZero
<1>22. UnlockNext(p) => Same
  BY DEF UnlockNext
<1>23. LeaveLoop(p) => Same
  BY DEF LeaveLoop
<1>24. ReadSize(p) => Same
  BY DEF ReadSize
<1>25. VisitBucket(p) => Same
  BY DEF VisitBucket
<1>26. StopRange(p) => Same
  BY DEF StopRange
<1>27. Return(p) => Same
  BY DEF Return
<1>s. Same
  BY <1>1, <1>2, <1>3, <1>4, <1>5, <1>6, <1>7, <1>8, <1>9, <1>10, <1>11, <1>12, <1>13, <1>14, <1>15, <1>16, <1>17, <1>18, <1>19, <1>20, <1>21, <1>22, <1>23, <1>24, <1>25, <1>26, <1>27 DEF Step
<1>. QED BY <1>s DEF Writes, Waits, Reads, KeySlot, LoopSlot

\* At first nobody is in a critical section.
LEMMA LockInit == Init => LockInv
  BY DEF Init, LockInv, Writes, Waits, Reads, SweepPCs

\* Every step keeps the lock invariant.
LEMMA LockNext == TypeInv /\ LockInv /\ [Next]_vars => LockInv'
<1>. SUFFICES ASSUME TypeInv, LockInv, [Next]_vars PROVE LockInv'
  OBVIOUS
<1>. USE NoProcAssumption, TableSizes DEF TypeInv, TypeOK, ControlOK, WritePCs, SweepPCs, Goto,
           table, locks, call, locals, history, LockInv
<1>s. ASSUME UNCHANGED vars PROVE LockInv'
  BY <1>s DEF vars, Writes, Waits, Reads, KeySlot, LoopSlot
<1>1. ASSUME NEW p \in Procs, Invoke(p) PROVE LockInv'
  <2>1. pc'[p] \in {"load", "mutex", "size", "range"} /\ UNCHANGED locks
    BY <1>1, EntryOK DEF Invoke
  <2>2. \A s : ~Writes(p, s)' /\ ~Waits(p, s)' /\ ~Reads(p, s)'
    BY <2>1 DEF Writes, Waits, Reads
  <2>. QED BY <1>1, <2>1, <2>2, OthersKeep
<1>2. ASSUME NEW p \in Procs, Load(p) PROVE LockInv'
  BY <1>2 DEF Load, Writes, Waits, Reads, KeySlot, LoopSlot
<1>3. ASSUME NEW p \in Procs, LockWrite(p) PROVE LockInv'
  <2>1. PICK u : /\ u = IF pc[p] = "wlock" THEN KeySlot(p) ELSE LoopSlot(p)
                 /\ writer[u] = NoProc
                 /\ writer' = [writer EXCEPT ![u] = p]
    BY <1>3 DEF LockWrite, Announce
  <2>2. /\ pc[p] \in {"wlock", "lockall"}
        /\ pc' = [pc EXCEPT ![p] = IF pc[p] = "wlock" THEN "wwait" ELSE "waitall"]
        /\ UNCHANGED <<tbl, idx, req, readers, resizeMu>>
    BY <1>3 DEF LockWrite
  <2>3. ASSUME NEW s \in Slots
        PROVE  /\ Writes(p, s)' => Writes(p, s)
               /\ Waits(p, s)' => s = u
               /\ ~Reads(p, s)'
    BY <2>1, <2>2 DEF Writes, Waits, Reads, KeySlot, LoopSlot
  <2>4. \A q \in Procs : pc'[q] \in {"begin"} \cup SweepPCs => resizeMu' = q
    BY <2>2
  <2>5. \A q \in Procs, s \in Slots : (Writes(q, s) \/ Waits(q, s)) => s # u
    BY <2>1
  <2>6. \A s \in Slots : writer'[s] = IF s = u THEN p ELSE writer[s]
    BY <2>1
  <2>. QED BY <1>3, <2>2, <2>3, <2>4, <2>5, <2>6, OthersKeep DEF Step
<1>4. ASSUME NEW p \in Procs, AwaitReaders(p) PROVE LockInv'
  BY <1>4 DEF AwaitReaders, Drained, Writes, Waits, Reads, KeySlot, LoopSlot
<1>5. ASSUME NEW p \in Procs, LockRead(p) PROVE LockInv'
  <2>1. PICK u : /\ u = IF pc[p] = "rlock" THEN KeySlot(p) ELSE LoopSlot(p)
                 /\ writer[u] = NoProc
                 /\ readers' = [readers EXCEPT ![u] = @ \cup {p}]
    BY <1>5 DEF LockRead, RLock
  <2>2. /\ pc[p] \in {"rlock", "rnext"}
        /\ pc' = [pc EXCEPT ![p] = IF pc[p] = "rlock" THEN "reading" ELSE "visit"]
        /\ UNCHANGED <<tbl, idx, req, writer, resizeMu>>
    BY <1>5 DEF LockRead
  <2>3. ASSUME NEW s \in Slots
        PROVE  ~Writes(p, s)' /\ ~Waits(p, s)' /\ (Reads(p, s)' => s = u)
    BY <2>1, <2>2 DEF Writes, Waits, Reads, KeySlot, LoopSlot
  <2>4. \A q \in Procs : pc'[q] \in {"begin"} \cup SweepPCs => resizeMu' = q
    BY <2>2
  <2>5. \A q \in Procs, s \in Slots : Writes(q, s) => s # u
    BY <2>1
  <2>6. \A s \in Slots : readers'[s] = IF s = u THEN readers[s] \cup {p} ELSE readers[s]
    BY <2>1
  <2>7. \A q \in Procs, s \in Slots : Writes(q, s)' => Writes(q, s)
    BY <1>5, <2>3, OthersKeep DEF Step
  <2>8. \A q \in Procs, s \in Slots : Waits(q, s)' => Waits(q, s)
    BY <1>5, <2>3, OthersKeep DEF Step
  <2>9. \A q \in Procs, s \in Slots : Reads(q, s)' => q \in readers'[s]
    <3>1. ASSUME NEW s \in Slots, Reads(p, s)' PROVE p \in readers'[s]
      BY <2>3, <2>6, <3>1, ZenonT(60)
    <3>2. ASSUME NEW q \in Procs, q # p, NEW s \in Slots, Reads(q, s)'
          PROVE  q \in readers'[s]
      <4>1. Reads(q, s)
        BY <1>5, <3>2, OthersKeep, SMTT(30) DEF Step
      <4>. QED BY <2>6, <4>1, ZenonT(60)
    <3>. QED BY <3>1, <3>2
  <2>10. ASSUME NEW q \in Procs, NEW s \in Slots, Writes(q, s)'
         PROVE  readers'[s] = {}
    <3>1. Writes(q, s) /\ s # u
      BY <2>5, <2>7, <2>10
    <3>2. readers[s] = {}
      BY <3>1
    <3>. QED BY <2>6, <3>1, <3>2
  <2>11. \A q \in Procs, s \in Slots : Writes(q, s)' \/ Waits(q, s)' => writer'[s] = q
    BY <2>2, <2>7, <2>8
  <2>. QED BY <2>4, <2>9, <2>10, <2>11
<1>6. ASSUME NEW p \in Procs, Retry(p) PROVE LockInv'
  <2>1. pc'[p] \in {"load", "range"} /\ UNCHANGED resizeMu
    BY <1>6 DEF Retry, RetryFrom
  <2>2. \A s : ~Writes(p, s)' /\ ~Waits(p, s)' /\ ~Reads(p, s)'
    BY <2>1 DEF Writes, Waits, Reads, KeySlot, LoopSlot
  <2>3. CASE pc[p] = "locked"
    <3>1. writer' = [writer EXCEPT ![KeySlot(p)] = NoProc] /\ UNCHANGED readers
      BY <1>6, <2>3 DEF Retry, Unlock
    <3>2. KeySlot(p) \in Slots => writer[KeySlot(p)] = p
      BY <2>3 DEF Writes
    <3>. QED BY <1>6, <2>1, <2>2, <3>1, <3>2, OthersKeep DEF Step
  <2>4. CASE pc[p] \in {"reading", "visit"}
    <3>1. /\ UNCHANGED writer
          /\ \A s \in Slots : readers'[s] \in {readers[s], readers[s] \ {p}}
      BY <1>6, <2>4 DEF Retry, RUnlock
    <3>. QED BY <1>6, <2>1, <2>2, <3>1, OthersKeep DEF Step
  <2>. QED BY <1>6, <2>3, <2>4 DEF Retry
<1>7. ASSUME NEW p \in Procs, ReadValue(p) PROVE LockInv'
  BY <1>7 DEF ReadValue, RUnlock, Writes, Waits, Reads, KeySlot, LoopSlot
<1>8. ASSUME NEW p \in Procs, Overwrite(p) PROVE LockInv'
  BY <1>8 DEF Overwrite, StoreAndUnlock, Unlock, Writes, Waits, Reads, KeySlot, LoopSlot
<1>9. ASSUME NEW p \in Procs, CallMerger(p) PROVE LockInv'
  BY <1>9 DEF CallMerger, Writes, Waits, Reads, KeySlot, LoopSlot
<1>10. ASSUME NEW p \in Procs, StoreMerged(p) PROVE LockInv'
  BY <1>10 DEF StoreMerged, StoreAndUnlock, Unlock, Writes, Waits, Reads, KeySlot, LoopSlot
<1>11. ASSUME NEW p \in Procs, Insert(p) PROVE LockInv'
  BY <1>11 DEF Insert, Writes, Waits, Reads, KeySlot, LoopSlot
<1>12. ASSUME NEW p \in Procs, Count(p) PROVE LockInv'
  BY <1>12 DEF Count, Writes, Waits, Reads, KeySlot, LoopSlot
<1>13. ASSUME NEW p \in Procs, UnlockBucket(p) PROVE LockInv'
  BY <1>13 DEF UnlockBucket, Unlock, Writes, Waits, Reads, KeySlot, LoopSlot
<1>14. ASSUME NEW p \in Procs, CheckGrowth(p) PROVE LockInv'
  BY <1>14 DEF CheckGrowth, Writes, Waits, Reads, KeySlot, LoopSlot
<1>15. ASSUME NEW p \in Procs, LockMutex(p) PROVE LockInv'
  BY <1>15 DEF LockMutex, MutexFree, Writes, Waits, Reads, KeySlot, LoopSlot
<1>16. ASSUME NEW p \in Procs, Begin(p) PROVE LockInv'
  <2>1. /\ pc'[p] \in {"lockall", "done"} /\ idx'[p] = 0
        /\ UNCHANGED <<writer, readers>>
    BY <1>16 DEF Begin
  <2>2. \A s \in Slots : ~Writes(p, s)' /\ ~Waits(p, s)' /\ ~Reads(p, s)'
    BY <2>1, SlotFields DEF Writes, Waits, Reads
  <2>3. \A q \in Procs : pc'[q] \in {"begin"} \cup SweepPCs => resizeMu' = q
    BY <1>16 DEF Begin
  <2>. QED BY <1>16, <2>1, <2>2, <2>3, OthersKeep DEF Step
<1>17. ASSUME NEW p \in Procs, AwaitNext(p) PROVE LockInv'
  <2>1. /\ pc[p] = "waitall" /\ readers[LoopSlot(p)] = {}
        /\ pc' = [pc EXCEPT ![p] = IF idx[p] + 1 < tbl[p] THEN "lockall" ELSE "recheck"]
        /\ idx' = [idx EXCEPT ![p] = idx[p] + 1]
        /\ UNCHANGED <<tbl, req, writer, readers, resizeMu>>
    BY <1>17 DEF AwaitNext, More, Drained
  <2>2. ASSUME NEW s \in Slots, Writes(p, s)'
        PROVE  Writes(p, s) \/ s = LoopSlot(p)
    <3>1. s[1] = tbl[p] /\ s[2] \in Nat /\ s[2] < idx[p] + 1 /\ s = <<s[1], s[2]>>
      BY <2>1, <2>2, SlotFields DEF Writes, KeySlot
    <3>2. s[2] < idx[p] \/ s[2] = idx[p]
      BY <3>1
    <3>3. s[2] < idx[p] => Writes(p, s)
      BY <2>1, <3>1 DEF Writes
    <3>4. s[2] = idx[p] => s = LoopSlot(p)
      BY <3>1 DEF LoopSlot
    <3>. QED BY <3>2, <3>3, <3>4
  <2>3. \A s : ~Waits(p, s)' /\ ~Reads(p, s)'
    BY <2>1 DEF Waits, Reads
  <2>4. Waits(p, LoopSlot(p))
    BY <2>1 DEF Waits
  <2>5. \A q \in Procs : pc'[q] \in {"begin"} \cup SweepPCs => resizeMu' = q
    BY <2>1
  <2>. QED BY <1>17, <2>1, <2>2, <2>3, <2>4, <2>5, OthersKeep, SMTT(30) DEF Step
<1>18. ASSUME NEW p \in Procs, RecheckResize(p) PROVE LockInv'
  <2>1. /\ pc[p] = "recheck" /\ pc'[p] \in {"publish", "unlockall"}
        /\ UNCHANGED <<tbl, req, writer, readers, resizeMu>>
    BY <1>18 DEF RecheckResize, Rehash, Abandon
  <2>2. \A s \in Slots : /\ Writes(p, s)' => Writes(p, s)
                        /\ ~Waits(p, s)' /\ ~Reads(p, s)'
    BY <2>1 DEF Writes, Waits, Reads
  <2>3. \A q \in Procs : pc'[q] \in {"begin"} \cup SweepPCs => resizeMu' = q
    BY <1>18, <2>1, OthersKeep DEF Step
  <2>. QED BY <1>18, <2>1, <2>2, <2>3, OthersKeep DEF Step
<1>19. ASSUME NEW p \in Procs, Publish(p) PROVE LockInv'
  BY <1>19 DEF Publish, Writes, Waits, Reads, KeySlot, LoopSlot
<1>20. ASSUME NEW p \in Procs, RecheckClear(p) PROVE LockInv'
  BY <1>20, SMTT(30) DEF RecheckClear, Unlink, Abandon, Writes, Waits, Reads, KeySlot, LoopSlot
<1>21. ASSUME NEW p \in Procs, StoreZero(p) PROVE LockInv'
  BY <1>21 DEF StoreZero, Writes, Waits, Reads, KeySlot, LoopSlot
<1>22. ASSUME NEW p \in Procs, UnlockNext(p) PROVE LockInv'
  <2>1. /\ pc[p] \in {"unlockall", "backoff"} /\ idx[p] < tbl[p]
        /\ writer' = [writer EXCEPT ![LoopSlot(p)] = NoProc]
        /\ idx' = [idx EXCEPT ![p] = idx[p] + 1]
        /\ UNCHANGED <<pc, tbl, req, readers, resizeMu>>
    BY <1>22 DEF UnlockNext, Unlock
  <2>2. ASSUME NEW s \in Slots
        PROVE  /\ Writes(p, s)' => Writes(p, s) /\ s # LoopSlot(p)
               /\ ~Waits(p, s)' /\ ~Reads(p, s)'
    BY <2>1, SlotFields DEF Writes, Waits, Reads, LoopSlot
  <2>3. LoopSlot(p) \in Slots
    BY <2>1, LoopIsSlot
  <2>5. LoopSlot(p)[1] = tbl[p] /\ LoopSlot(p)[2] = idx[p] /\ idx[p] >= idx[p]
    BY DEF LoopSlot
  <2>6. Writes(p, LoopSlot(p))
    BY <2>1, <2>5 DEF Writes
  <2>4. writer[LoopSlot(p)] = p
    BY <2>3, <2>6
  <2>. QED BY <1>22, <2>1, <2>2, <2>4, OthersKeep DEF Step
<1>23. ASSUME NEW p \in Procs, LeaveLoop(p) PROVE LockInv'
  <2>1. pc'[p] \in {"begin", "done"} /\ UNCHANGED <<writer, readers>>
    BY <1>23 DEF LeaveLoop
  <2>2. \A s : ~Writes(p, s)' /\ ~Waits(p, s)' /\ ~Reads(p, s)'
    BY <2>1 DEF Writes, Waits, Reads, KeySlot, LoopSlot
  <2>3. \A q \in Procs : pc'[q] \in {"begin"} \cup SweepPCs => resizeMu' = q
    BY <1>23 DEF LeaveLoop
  <2>. QED BY <1>23, <2>1, <2>2, <2>3, OthersKeep DEF Step
<1>24. ASSUME NEW p \in Procs, ReadSize(p) PROVE LockInv'
  BY <1>24 DEF ReadSize, Writes, Waits, Reads, KeySlot, LoopSlot
<1>25. ASSUME NEW p \in Procs, VisitBucket(p) PROVE LockInv'
  <2>1. /\ pc[p] = "visit" /\ pc'[p] \in {"rnext", "done"}
        /\ UNCHANGED <<writer, resizeMu>>
    BY <1>25 DEF VisitBucket
  <2>2. \A s \in Slots : readers'[s] \in {readers[s], readers[s] \ {p}}
    BY <1>25 DEF VisitBucket, RUnlock
  <2>3. \A s : ~Writes(p, s)' /\ ~Waits(p, s)' /\ ~Reads(p, s)'
    BY <2>1 DEF Writes, Waits, Reads, KeySlot, LoopSlot
  <2>4. \A q \in Procs : pc'[q] \in {"begin"} \cup SweepPCs => resizeMu' = q
    BY <1>25 DEF VisitBucket
  <2>. QED BY <1>25, <2>1, <2>2, <2>3, <2>4, OthersKeep DEF Step
<1>26. ASSUME NEW p \in Procs, StopRange(p) PROVE LockInv'
  <2>1. /\ pc[p] = "visit" /\ pc'[p] \in {"done"}
        /\ UNCHANGED <<writer, resizeMu>>
    BY <1>26 DEF StopRange
  <2>2. \A s \in Slots : readers'[s] \in {readers[s], readers[s] \ {p}}
    BY <1>26 DEF StopRange, RUnlock
  <2>3. \A s : ~Writes(p, s)' /\ ~Waits(p, s)' /\ ~Reads(p, s)'
    BY <2>1 DEF Writes, Waits, Reads, KeySlot, LoopSlot
  <2>4. \A q \in Procs : pc'[q] \in {"begin"} \cup SweepPCs => resizeMu' = q
    BY <1>26 DEF StopRange
  <2>. QED BY <1>26, <2>1, <2>2, <2>3, <2>4, OthersKeep DEF Step
<1>27. ASSUME NEW p \in Procs, Return(p) PROVE LockInv'
  BY <1>27 DEF Return, Writes, Waits, Reads, KeySlot, LoopSlot
<1>. QED
  BY <1>s, <1>1, <1>2, <1>3, <1>4, <1>5, <1>6, <1>7, <1>8, <1>9, <1>10, <1>11, <1>12,
     <1>13, <1>14, <1>15, <1>16, <1>17, <1>18, <1>19, <1>20, <1>21, <1>22, <1>23, <1>24,
     <1>25, <1>26, <1>27
  DEF Next, Step

\* The type and lock invariants hold in every state.
THEOREM LocksHold == Spec => [](TypeInv /\ LockInv)
  BY TypeInit, TypeNext, LockInit, LockNext, PTL DEF Spec

\* No goroutine is ever in a bucket another one is writing to.
THEOREM ExclusionHolds == Spec => []Exclusion
<1>1. TypeInv /\ LockInv => Exclusion
  BY DEF LockInv, Exclusion
<1>. QED BY <1>1, LocksHold, PTL

-----------------------------------------------------------------------------
(* Tables: who has found a table current under a lock keeps it current, so  *)
(* that the table changes only under a goroutine that holds all of it.      *)

\* What a goroutine knows of the table it sweeps.
SweepOK ==
  \A p \in Procs :
    /\ pc[p] # "backoff"
    /\ pc[p] \in {"lockall", "waitall", "recheck"} /\ req[p].op # "Clear"
         => NeedsResize(tbl[p])

\* A table found current stays so, and what a sweep found stays true.
TableInv == CheckedTableIsCurrent /\ SweepOK

\* Everything the steps below rely on.
BaseInv == TypeInv /\ LockInv /\ TableInv

\* The threshold of a table is a number size can be compared with.
LEMMA ThresholdType == \A n \in Tables : ResizeThreshold(n) \in Int
  BY TableSizes, LoadAssumption DEF ResizeThreshold

\* While p sweeps table n with all its locks held, nobody else is past the
\* check of a bucket of n or sweeps.
LEMMA SweeperIsAlone ==
  ASSUME TypeInv, LockInv, NEW p \in Procs, NEW q \in Procs, p # q,
         pc[p] \in {"recheck", "publish", "zero"}
  PROVE  /\ pc[q] \notin {"begin"} \cup SweepPCs
         /\ pc[q] \in {"locked", "merging", "count", "unlock"} => tbl[q] # tbl[p]
<1>1. pc[q] \notin {"begin"} \cup SweepPCs
  BY DEF LockInv, SweepPCs
<1>2. ASSUME pc[q] \in {"locked", "merging", "count", "unlock"}, tbl[q] = tbl[p]
      PROVE  FALSE
  <2>1. req[q].key \in Keys /\ tbl[q] \in Tables
    BY <1>2, RequestFields DEF TypeInv, TypeOK, ControlOK, WritePCs
  <2>2. KeySlot(q) \in Slots /\ KeySlot(q)[1] = tbl[q]
    BY <2>1, BucketIsSlot DEF KeySlot, BucketOf
  <2>3. Writes(q, KeySlot(q)) /\ Writes(p, KeySlot(q))
    BY <1>2, <2>2 DEF Writes
  <2>. QED BY <2>2, <2>3 DEF LockInv
<1>. QED BY <1>1, <1>2

\* At first nobody relies on the table.
LEMMA TableInit == Init => TableInv
  BY DEF Init, TableInv, CheckedTableIsCurrent, SweepOK

\* No step takes a checked table away: Publish, the only one to change tab, is
\* taken by a goroutine nobody else can be past the check beside.
LEMMA CheckedNext ==
  ASSUME TypeInv, LockInv, TableInv, [Next]_vars
  PROVE  CheckedTableIsCurrent'
<1>. DEFINE Past == {"merging", "count", "unlock", "lockall", "waitall", "recheck",
                     "publish", "zero"}
<1>s. CASE UNCHANGED vars
  BY <1>s DEF vars, table, locals, TableInv, CheckedTableIsCurrent
<1>1. ASSUME NEW p \in Procs, Invoke(p) \/ Step(p), ~Publish(p)
      PROVE  CheckedTableIsCurrent'
  <2>1. tab' = tab
    BY <1>1 DEF Step, Invoke, Load, LockWrite, AwaitReaders, LockRead, Retry, ReadValue,
       Overwrite, CallMerger, StoreMerged, Insert, Count, UnlockBucket, CheckGrowth,
       LockMutex, Begin, AwaitNext, RecheckResize, Rehash, Abandon, RecheckClear, Unlink,
       StoreZero, UnlockNext, LeaveLoop, ReadSize, VisitBucket, StopRange, Return, table
  <2>2. pc'[p] \in Past => tab = tbl'[p]
    <3>. USE DEF TypeInv, TypeOK, TableInv, CheckedTableIsCurrent, Goto, locals
    <3>1. CASE Invoke(p)
      BY <3>1, EntryOK DEF Invoke
    <3>2. CASE CallMerger(p) \/ Insert(p)
      BY <3>2 DEF CallMerger, Insert, StillCurrent
    <3>3. CASE Begin(p)
      BY <3>3 DEF Begin, SweptTable
    <3>4. CASE Load(p) \/ LockWrite(p) \/ AwaitReaders(p) \/ LockRead(p) \/ Count(p)
      BY <3>4 DEF Load, LockWrite, AwaitReaders, LockRead, Count
    <3>5. CASE Retry(p)
      BY <3>5 DEF Retry, RetryFrom
    <3>6. CASE ReadValue(p) \/ Overwrite(p) \/ StoreMerged(p) \/ UnlockBucket(p)
      BY <3>6 DEF ReadValue, Overwrite, StoreMerged, UnlockBucket
    <3>7. CASE CheckGrowth(p) \/ LockMutex(p) \/ AwaitNext(p) \/ StoreZero(p)
      BY <3>7 DEF CheckGrowth, LockMutex, AwaitNext, StoreZero
    <3>8. CASE RecheckResize(p) \/ RecheckClear(p)
      BY <3>8 DEF RecheckResize, RecheckClear, Rehash, Abandon, Unlink
    <3>9. CASE UnlockNext(p)
      BY <3>9 DEF UnlockNext
    <3>10. CASE LeaveLoop(p)
      BY <3>10 DEF LeaveLoop
    <3>11. CASE ReadSize(p) \/ VisitBucket(p) \/ StopRange(p) \/ Return(p)
      BY <3>11 DEF ReadSize, VisitBucket, StopRange, Return
    <3>. QED BY <1>1, <3>1, <3>2, <3>3, <3>4, <3>5, <3>6, <3>7, <3>8, <3>9, <3>10, <3>11
             DEF Step
  <2>3. ASSUME NEW q \in Procs, q # p, pc'[q] \in Past
        PROVE  tab = tbl'[q]
    BY <1>1, <2>3, OthersKeep DEF TypeInv, TableInv, CheckedTableIsCurrent
  <2>. QED BY <2>1, <2>2, <2>3 DEF CheckedTableIsCurrent
<1>2. ASSUME NEW p \in Procs, Publish(p)
      PROVE  CheckedTableIsCurrent'
  <2>1. pc[p] = "publish" /\ pc'[p] = "unlockall" /\ tbl[p] = tab
    BY <1>2 DEF Publish, Goto, TypeInv, TypeOK, TableInv, CheckedTableIsCurrent
  <2>2. ASSUME NEW q \in Procs, q # p, pc'[q] \in Past
        PROVE  FALSE
    <3>1. pc[q] \in Past /\ tab = tbl[q]
      BY <1>2, <2>2, OthersKeep DEF Step, TypeInv, TableInv, CheckedTableIsCurrent
    <3>. QED BY <2>1, <2>2, <3>1, SweeperIsAlone DEF SweepPCs
  <2>. QED BY <2>1, <2>2 DEF CheckedTableIsCurrent
<1>. QED BY <1>s, <1>1, <1>2 DEF Next

\* No step makes a resize superfluous that has begun to lock buckets: only
\* StoreZero shrinks size, and its goroutine holds resizeMu.
LEMMA SweepNext ==
  ASSUME TypeInv, LockInv, TableInv, [Next]_vars
  PROVE  SweepOK'
<1>. DEFINE Bound(q) == pc[q] \in {"lockall", "waitall", "recheck"} /\ req[q].op # "Clear"
<1>s. CASE UNCHANGED vars
  BY <1>s DEF vars, table, call, locals, TableInv, SweepOK, NeedsResize
<1>1. ASSUME NEW p \in Procs, Invoke(p) \/ Step(p), ~StoreZero(p)
      PROVE  SweepOK'
  <2>1. size' \in Nat /\ size' >= size
    <3>1. CASE Count(p)
      BY <3>1 DEF Count, TypeInv, TypeOK
    <3>2. CASE ~Count(p)
      <4>1. size' = size
        BY <1>1, <3>2 DEF Step, Invoke, Load, LockWrite, AwaitReaders, LockRead, Retry, ReadValue,
           Overwrite, CallMerger, StoreMerged, Insert, UnlockBucket, CheckGrowth,
           LockMutex, Begin, AwaitNext, RecheckResize, Rehash, Abandon, Publish, RecheckClear,
           Unlink, UnlockNext, LeaveLoop, ReadSize, VisitBucket, StopRange, Return, table
      <4>. QED BY <4>1 DEF TypeInv, TypeOK
    <3>. QED BY <3>1, <3>2
  <2>2. \A n \in Tables : NeedsResize(n) => NeedsResize(n)'
    BY <2>1, ThresholdType DEF NeedsResize, ResizeThreshold, TypeInv, TypeOK
  <2>3. ASSUME NEW q \in Procs, q # p
        PROVE  pc'[q] # "backoff" /\ (Bound(q)' => NeedsResize(tbl[q])')
    <3>1. pc'[q] = pc[q] /\ req'[q] = req[q] /\ tbl'[q] = tbl[q] /\ tbl[q] \in Tables
      BY <1>1, <2>3, OthersKeep DEF TypeInv, TypeOK
    <3>. QED BY <2>2, <3>1 DEF TableInv, SweepOK
  <2>4. pc'[p] # "backoff" /\ (Bound(p)' => NeedsResize(tbl'[p]))
    <3>. USE DEF TypeInv, TypeOK, TableInv, SweepOK, Goto, call, locals
    <3>1. CASE Invoke(p)
      BY <3>1, EntryOK DEF Invoke
    <3>2. CASE CallMerger(p) \/ Insert(p)
      BY <3>2 DEF CallMerger, Insert
    <3>3. CASE Begin(p)
      BY <3>3 DEF Begin, SweptTable
    <3>4. CASE Load(p) \/ LockWrite(p) \/ AwaitReaders(p) \/ LockRead(p) \/ Count(p)
      BY <3>4 DEF Load, LockWrite, AwaitReaders, LockRead, Count
    <3>5. CASE Retry(p)
      BY <3>5 DEF Retry, RetryFrom
    <3>6. CASE ReadValue(p) \/ Overwrite(p) \/ StoreMerged(p) \/ UnlockBucket(p)
      BY <3>6 DEF ReadValue, Overwrite, StoreMerged, UnlockBucket
    <3>7. CASE CheckGrowth(p) \/ LockMutex(p) \/ AwaitNext(p) \/ Publish(p)
      BY <3>7 DEF CheckGrowth, LockMutex, AwaitNext, Publish
    <3>8. CASE RecheckResize(p)
      BY <3>8 DEF RecheckResize, Rehash, Abandon
    <3>9. CASE RecheckClear(p)
      <4>1. StillCurrent(p)
        BY <3>9 DEF RecheckClear, Unlink, Abandon, StillCurrent, CheckedTableIsCurrent
      <4>. QED BY <3>9, <4>1 DEF RecheckClear, Unlink
    <3>10. CASE LeaveLoop(p) \/ UnlockNext(p)
      BY <3>10 DEF LeaveLoop, UnlockNext
    <3>11. CASE ReadSize(p) \/ VisitBucket(p) \/ StopRange(p) \/ Return(p)
      BY <3>11 DEF ReadSize, VisitBucket, StopRange, Return
    <3>. QED BY <1>1, <3>1, <3>2, <3>3, <3>4, <3>5, <3>6, <3>7, <3>8, <3>9, <3>10, <3>11
             DEF Step
  <2>5. tbl'[p] \in Tables
    BY TypeNext DEF TypeInv, TypeOK
  <2>6. Bound(p)' => NeedsResize(tbl[p])'
    BY <2>2, <2>4, <2>5
  <2>. QED BY <2>3, <2>4, <2>6 DEF SweepOK
<1>2. ASSUME NEW p \in Procs, StoreZero(p)
      PROVE  SweepOK'
  <2>1. pc[p] = "zero" /\ pc'[p] = "unlockall"
    BY <1>2 DEF StoreZero, Goto, TypeInv, TypeOK
  <2>2. ASSUME NEW q \in Procs, q # p
        PROVE  pc'[q] \notin SweepPCs
    BY <1>2, <2>1, <2>2, SweeperIsAlone, OthersKeep DEF Step, TypeInv
  <2>. QED BY <2>1, <2>2 DEF SweepOK, SweepPCs
<1>. QED BY <1>s, <1>1, <1>2 DEF Next

\* The three invariants hold at first ...
LEMMA BaseInit == Init => BaseInv
  BY TypeInit, LockInit, TableInit DEF BaseInv

\* ... are kept by every step ...
LEMMA BaseNext == BaseInv /\ [Next]_vars => BaseInv'
<1>. SUFFICES ASSUME BaseInv, [Next]_vars PROVE BaseInv'
  OBVIOUS
<1>1. CheckedTableIsCurrent' /\ SweepOK'
  BY CheckedNext, SweepNext DEF BaseInv
<1>. QED BY <1>1, TypeNext, LockNext DEF BaseInv, TableInv

\* ... and so hold in every state.
THEOREM BaseHolds == Spec => []BaseInv
  BY BaseInit, BaseNext, PTL DEF Spec

\* A table that passed the check under a lock is current until it is used.
THEOREM CheckedTableStaysCurrent == Spec => []CheckedTableIsCurrent
<1>1. BaseInv => CheckedTableIsCurrent
  BY DEF BaseInv, TableInv
<1>. QED BY <1>1, BaseHolds, PTL

\* resize and Clear never have to give up what they have locked.
THEOREM RechecksAlwaysSucceed == Spec => []RechecksSucceed
<1>1. BaseInv => RechecksSucceed
  BY DEF BaseInv, TableInv, SweepOK, RechecksSucceed
<1>. QED BY <1>1, BaseHolds, PTL

-----------------------------------------------------------------------------
(***************************************************************************)
(* Where the nodes of a ConcMap are: in the bucket of their key in the     *)
(* current table, one node per key.  Rests on the control, lock and table  *)
(* invariants of ConcMap_proofs.                                           *)
(***************************************************************************)

\* A goroutine has filled the new table and not yet stored the pointer to it.
Publishing == \E p \in Procs : pc[p] = "publish"

\* The table that holds the nodes.
Home == IF Publishing THEN 2 * tab ELSE tab

PlaceInv == WellPlaced /\ OnlyCurrentTableLinked

\* The steps of p that touch a chain or the table pointer.
Rehashes(p) == RecheckResize(p) /\ NeedsResize(tbl[p])
Unlinks(p) == RecheckClear(p) /\ StillCurrent(p)
Stores(p) == Overwrite(p) \/ StoreMerged(p) \/ Insert(p)

-----------------------------------------------------------------------------
\* The value a store of p leaves in its bucket.
StoredNode(p) ==
  [key |-> req[p].key,
   val |-> IF pc[p] = "merging" THEN Merged[<<got[p], req[p].val>>] ELSE req[p].val]

\* A store replaces the node of its key by one new node, in the bucket of the
\* current table, while nobody moves the nodes.
LEMMA StoreEffect ==
  ASSUME BaseInv, NEW p \in Procs, Stores(p)
  PROVE  /\ KeySlot(p) \in Slots /\ KeySlot(p)[1] = tab
         /\ req[p].key \in Keys /\ StoredNode(p) \in Nodes
         /\ Home = tab /\ Home' = tab
         /\ chain' = [chain EXCEPT ![KeySlot(p)] = (@ \ Found(p)) \cup {StoredNode(p)}]
<1>. USE DEF BaseInv, TypeInv, TypeOK
<1>1. pc[p] \in {"locked", "merging"} /\ tbl[p] = tab
  BY DEF Stores, Overwrite, StoreMerged, Insert, Goto, StillCurrent, TableInv,
         CheckedTableIsCurrent
<1>2. req[p].key \in Keys /\ req[p].val \in Vals
  BY <1>1, RequestFields DEF ControlOK, WritePCs
<1>3. KeySlot(p) \in Slots /\ KeySlot(p)[1] = tab
  BY <1>1, <1>2, BucketIsSlot DEF KeySlot, BucketOf
<1>4. StoredNode(p) \in Nodes
  BY <1>1, <1>2, MergedAssumption DEF StoredNode, Nodes, ControlOK
<1>5. \A q \in Procs : pc[q] # "publish"
  <2>. SUFFICES ASSUME NEW q \in Procs, pc[q] = "publish" PROVE FALSE
    OBVIOUS
  <2>1. tbl[q] = tab
    BY DEF TableInv, CheckedTableIsCurrent
  <2>. QED BY <1>1, <2>1, SweeperIsAlone
<1>6. \A q \in Procs : pc'[q] # "publish"
  BY <1>5 DEF Stores, Overwrite, StoreMerged, Insert, Goto
<1>7. tab' = tab
  BY DEF Stores, Overwrite, StoreMerged, Insert
<1>8. chain' = [chain EXCEPT ![KeySlot(p)] = (@ \ Found(p)) \cup {StoredNode(p)}]
  <2>1. CASE Overwrite(p)
    BY <2>1 DEF Overwrite, StoreAndUnlock, StoredNode, Goto
  <2>2. CASE StoreMerged(p)
    BY <2>2 DEF StoreMerged, StoreAndUnlock, StoredNode, Goto
  <2>3. CASE Insert(p)
    BY <2>3 DEF Insert, StoredNode, Goto
  <2>. QED BY <2>1, <2>2, <2>3 DEF Stores
<1>. QED BY <1>2, <1>3, <1>4, <1>5, <1>6, <1>7, <1>8 DEF Home, Publishing

\* What resize does: all nodes of the table move to the table twice as large,
\* where nothing was.
LEMMA RehashEffect ==
  ASSUME BaseInv, PlaceInv, NEW p \in Procs, Rehashes(p)
  PROVE  /\ tab \in Tables /\ 2 * tab \in Tables /\ Home = tab /\ Home' = 2 * tab
         /\ chain' = [s \in Slots |-> {x \in UNION {chain[u] : u \in SlotsOf(tab)} :
                                        BucketOf(2 * tab, x.key) = s}]
<1>. USE DEF BaseInv, TypeInv, TypeOK
<1>1. pc[p] = "recheck" /\ tbl[p] = tab /\ pc'[p] = "publish" /\ tab' = tab
  BY DEF Rehashes, RecheckResize, Rehash, Goto, TableInv, CheckedTableIsCurrent
<1>2. tab \in Tables /\ 2 * tab \in Tables /\ tab \in Nat /\ 2 * tab # tab
  BY <1>1, TablesAssumption DEF Rehashes, NeedsResize
<1>3. \A q \in Procs : pc[q] # "publish"
  BY <1>1, SweeperIsAlone DEF SweepPCs
<1>. DEFINE moved == UNION {chain[u] : u \in SlotsOf(tab)}
<1>4. chain' = [s \in Slots |-> (IF s[1] = tab THEN {} ELSE chain[s])
                                  \cup {x \in moved : BucketOf(2 * tab, x.key) = s}]
  BY <1>1 DEF Rehashes, RecheckResize, Rehash, Emptied, NewHome, Doubled
<1>5. \A s \in Slots : (IF s[1] = tab THEN {} ELSE chain[s]) = {}
  BY <1>3 DEF PlaceInv, OnlyCurrentTableLinked
<1>. HIDE DEF moved
<1>6. chain' = [s \in Slots |-> {x \in moved : BucketOf(2 * tab, x.key) = s}]
  BY <1>4, <1>5
<1>. QED BY <1>1, <1>2, <1>3, <1>6 DEF Home, Publishing, moved

\* Clear empties every bucket of the current table.
LEMMA UnlinkEffect ==
  ASSUME BaseInv, NEW p \in Procs, Unlinks(p)
  PROVE  /\ tbl[p] = tab /\ Home = tab /\ Home' = tab
         /\ chain' = [s \in Slots |-> IF s[1] = tab THEN {} ELSE chain[s]]
<1>. USE DEF BaseInv, TypeInv, TypeOK
<1>1. pc[p] = "recheck" /\ tbl[p] = tab /\ pc'[p] = "zero" /\ tab' = tab
  BY DEF Unlinks, RecheckClear, Unlink, Goto, StillCurrent
<1>2. \A q \in Procs : pc[q] # "publish"
  BY <1>1, SweeperIsAlone DEF SweepPCs
<1>3. \A q \in Procs : pc'[q] # "publish"
  BY <1>2 DEF Unlinks, RecheckClear, Unlink, Goto
<1>4. chain' = [s \in Slots |-> IF s[1] = tab THEN {} ELSE chain[s]]
  BY <1>1 DEF Unlinks, RecheckClear, Unlink, Emptied
<1>. QED BY <1>1, <1>2, <1>3, <1>4 DEF Home, Publishing

\* The store of the pointer makes the filled table the current one.
LEMMA PublishEffect ==
  ASSUME BaseInv, NEW p \in Procs, Publish(p)
  PROVE  chain' = chain /\ Home' = Home
<1>. USE DEF BaseInv, TypeInv, TypeOK
<1>1. pc[p] = "publish" /\ tbl[p] = tab /\ pc'[p] = "unlockall" /\ tab' = 2 * tab
      /\ chain' = chain
  BY DEF Publish, Goto, TableInv, CheckedTableIsCurrent, Doubled
<1>2. \A q \in Procs : q # p => pc[q] # "publish"
  BY <1>1, SweeperIsAlone DEF SweepPCs
<1>3. \A q \in Procs : pc'[q] # "publish"
  BY <1>1, <1>2 DEF Publish, Goto
<1>. QED BY <1>1, <1>3 DEF Home, Publishing

\* Every other step leaves the nodes and their table alone.
LEMMA RestEffect ==
  ASSUME BaseInv, NEW p \in Procs, Invoke(p) \/ Step(p),
         ~Stores(p), ~Rehashes(p), ~Unlinks(p), ~Publish(p)
  PROVE  chain' = chain /\ Home' = Home /\ tab' = tab
<1>. USE DEF BaseInv, TypeInv, TypeOK, Goto, table
<1>. DEFINE Same == chain' = chain /\ tab' = tab /\ pc[p] # "publish" /\ pc'[p] # "publish"
<1>1. Invoke(p) => Same
  BY EntryOK DEF Invoke
<1>2. Load(p) \/ LockWrite(p) \/ AwaitReaders(p) \/ LockRead(p) \/ Count(p) => Same
  BY DEF Load, LockWrite, AwaitReaders, LockRead, Count
<1>3. Retry(p) \/ ReadValue(p) \/ CallMerger(p) \/ UnlockBucket(p) => Same
  BY DEF Retry, RetryFrom, ReadValue, CallMerger, UnlockBucket
<1>4. CheckGrowth(p) \/ LockMutex(p) \/ Begin(p) \/ AwaitNext(p) \/ StoreZero(p) => Same
  BY DEF CheckGrowth, LockMutex, Begin, AwaitNext, StoreZero
<1>5. UnlockNext(p) \/ LeaveLoop(p) => Same
  BY DEF UnlockNext, LeaveLoop
<1>6. ReadSize(p) \/ VisitBucket(p) \/ StopRange(p) \/ Return(p) => Same
  BY DEF ReadSize, VisitBucket, StopRange, Return
<1>7. (RecheckResize(p) \/ RecheckClear(p)) => Same
  BY DEF Rehashes, Unlinks, RecheckResize, RecheckClear, Abandon
<1>8. Same
  BY <1>1, <1>2, <1>3, <1>4, <1>5, <1>6, <1>7 DEF Step, Stores
<1>9. \A q \in Procs : q # p => pc'[q] = pc[q]
  BY OthersKeep
<1>10. Publishing' <=> Publishing
  BY <1>8, <1>9 DEF Publishing
<1>. QED BY <1>8, <1>10 DEF Home

-----------------------------------------------------------------------------
\* An empty map has no node to misplace.
LEMMA PlaceInit == Init => PlaceInv
  BY DEF Init, PlaceInv, WellPlaced, OnlyCurrentTableLinked

\* Every step keeps the nodes in place.
LEMMA PlaceNext == BaseInv /\ PlaceInv /\ [Next]_vars => PlaceInv'
<1>. SUFFICES ASSUME BaseInv, PlaceInv, [Next]_vars PROVE PlaceInv'
  OBVIOUS
<1>. DEFINE Linked1 == \A s \in Slots : chain[s] # {} => s[1] = Home
<1>0. OnlyCurrentTableLinked <=> Linked1
  BY DEF OnlyCurrentTableLinked, Home, Publishing
<1>00. OnlyCurrentTableLinked' <=> Linked1'
  BY DEF OnlyCurrentTableLinked, Home, Publishing
<1>a. ASSUME chain' = chain, Home' = Home PROVE PlaceInv'
  <2>1. Linked1'
    BY <1>a, <1>0 DEF PlaceInv
  <2>2. WellPlaced'
    BY <1>a DEF PlaceInv, WellPlaced, BucketOf
  <2>. QED BY <2>1, <2>2, <1>00 DEF PlaceInv
<1>s. CASE UNCHANGED vars
  BY <1>s, <1>a DEF vars, table, Home, Publishing
<1>1. ASSUME NEW p \in Procs, Stores(p) PROVE PlaceInv'
  <2>. DEFINE n == StoredNode(p)
  <2>1. /\ KeySlot(p) \in Slots /\ KeySlot(p)[1] = tab
        /\ req[p].key \in Keys /\ n \in Nodes /\ n.key = req[p].key
        /\ Home = tab /\ Home' = tab
        /\ chain' = [chain EXCEPT ![KeySlot(p)] = (@ \ Found(p)) \cup {n}]
    BY <1>1, StoreEffect DEF StoredNode
  <2>2. KeySlot(p) = BucketOf(tab, req[p].key)
    BY <2>1 DEF KeySlot, BucketOf
  <2>. HIDE DEF n
  <2>3. \A s \in Slots : \A x \in chain'[s] :
          \/ x = n /\ s = KeySlot(p)
          \/ x \in chain[s] /\ x.key # n.key
    <3>. SUFFICES ASSUME NEW s \in Slots, NEW x \in chain'[s], ~(x = n /\ s = KeySlot(p))
                  PROVE  x \in chain[s] /\ x.key # n.key
      OBVIOUS
    <3>1. x \in chain[s] /\ (s = KeySlot(p) => x \notin Found(p))
      BY <2>1 DEF BaseInv, TypeInv, TypeOK
    <3>2. s[1] = tab /\ BucketOf(s[1], x.key) = s
      BY <2>1, <3>1, <1>0 DEF PlaceInv, WellPlaced
    <3>3. x.key = n.key => s = KeySlot(p)
      BY <2>1, <2>2, <3>2
    <3>. QED BY <2>1, <3>1, <3>3 DEF Found
  <2>4. Linked1'
    BY <2>1, <2>3, <1>0 DEF PlaceInv
  <2>5. WellPlaced'
    <3>1. \A s \in Slots : \A x \in chain'[s] : BucketOf(s[1], x.key) = s
      BY <2>1, <2>2, <2>3 DEF PlaceInv, WellPlaced
    <3>2. ASSUME NEW s \in Slots, NEW x \in chain'[s], NEW u \in Slots, NEW y \in chain'[u],
                 x.key = y.key
          PROVE  x = y /\ s = u
      BY <2>3, <3>2 DEF PlaceInv, WellPlaced
    <3>. QED BY <3>1, <3>2 DEF WellPlaced, BucketOf
  <2>. QED BY <2>4, <2>5, <1>00 DEF PlaceInv
<1>2. ASSUME NEW p \in Procs, Rehashes(p) PROVE PlaceInv'
  <2>1. /\ tab \in Tables /\ 2 * tab \in Tables /\ Home = tab /\ Home' = 2 * tab
        /\ chain' = [s \in Slots |-> {x \in UNION {chain[u] : u \in SlotsOf(tab)} :
                                       BucketOf(2 * tab, x.key) = s}]
    BY <1>2, RehashEffect
  <2>2. ASSUME NEW s \in Slots, NEW x \in chain'[s]
        PROVE  /\ BucketOf(2 * tab, x.key) = s /\ s[1] = 2 * tab
               /\ \E u \in Slots : x \in chain[u]
    <3>1. BucketOf(2 * tab, x.key) = s /\ \E u \in SlotsOf(tab) : x \in chain[u]
      BY <2>1
    <3>. QED BY <2>1, <3>1, SlotsWithin DEF BucketOf
  <2>3. Linked1'
    BY <2>1, <2>2
  <2>4. WellPlaced'
    <3>1. ASSUME NEW s \in Slots, NEW x \in chain'[s] PROVE BucketOf(s[1], x.key) = s
      BY <2>2
    <3>2. ASSUME NEW s \in Slots, NEW x \in chain'[s], NEW u \in Slots, NEW y \in chain'[u],
                 x.key = y.key
          PROVE  x = y /\ s = u
      <4>1. s = u
        BY <2>2, <3>2
      <4>2. x = y
        BY <2>2, <3>2 DEF PlaceInv, WellPlaced
      <4>. QED BY <4>1, <4>2
    <3>. QED BY <3>1, <3>2 DEF WellPlaced, BucketOf
  <2>. QED BY <2>3, <2>4, <1>00 DEF PlaceInv
<1>3. ASSUME NEW p \in Procs, Unlinks(p) PROVE PlaceInv'
  <2>1. /\ Home = tab /\ Home' = tab
        /\ chain' = [s \in Slots |-> IF s[1] = tab THEN {} ELSE chain[s]]
    BY <1>3, UnlinkEffect
  <2>2. \A s \in Slots : chain'[s] \subseteq chain[s]
    BY <2>1
  <2>3. Linked1'
    BY <2>1, <1>0 DEF PlaceInv
  <2>4. WellPlaced'
    BY <2>2 DEF PlaceInv, WellPlaced, BucketOf
  <2>. QED BY <2>3, <2>4, <1>00 DEF PlaceInv
<1>4. ASSUME NEW p \in Procs, Publish(p) PROVE PlaceInv'
  BY <1>4, <1>a, PublishEffect
<1>5. ASSUME NEW p \in Procs, Invoke(p) \/ Step(p),
             ~Stores(p), ~Rehashes(p), ~Unlinks(p), ~Publish(p)
      PROVE  PlaceInv'
  BY <1>5, <1>a, RestEffect
<1>. QED BY <1>s, <1>1, <1>2, <1>3, <1>4, <1>5 DEF Next

\* The invariants so far hold in every state.
THEOREM PlaceHolds == Spec => [](BaseInv /\ PlaceInv)
  BY BaseInit, BaseNext, PlaceInit, PlaceNext, PTL DEF Spec

\* A search of the bucket of a key finds the key if any table holds it.
THEOREM NodesWellPlaced == Spec => []WellPlaced
<1>1. PlaceInv => WellPlaced
  BY DEF PlaceInv
<1>. QED BY <1>1, PlaceHolds, PTL

\* Nothing is ever linked into a table that has been replaced.
THEOREM NothingInReplacedTables == Spec => []OnlyCurrentTableLinked
<1>1. PlaceInv => OnlyCurrentTableLinked
  BY DEF PlaceInv
<1>. QED BY <1>1, PlaceHolds, PTL

-----------------------------------------------------------------------------
(***************************************************************************)
(* The growth of a ConcMap: who may replace the table and how, and that    *)
(* every key above the load factor has a goroutine that has inserted it    *)
(* and has still to look at the load.                                      *)
(***************************************************************************)

\* A table that can grow grows by at least one key.  A load factor so small
\* that the threshold stays 0 when the table doubles (map.go:157) is left out.
DoublingMakesRoom ==
  \A n \in Tables : n < MaxBuckets => ResizeThreshold(n) < ResizeThreshold(2 * n)

\* The table a goroutine has loaded for its check may have been replaced by a
\* larger one since.
CheckedOlder ==
  \A p \in Procs :
    pc[p] = "check" => tbl[p] <= tab /\ ResizeThreshold(tbl[p]) <= ResizeThreshold(tab)

LoadInv == IsFiniteSet(Growing) /\ CheckedOlder /\ LoadIsPaidFor

\* The steps at which p begins or ceases to be answerable for the load, or the
\* load or the table changes.
Settles(p) ==
  \/ Count(p) \/ Publish(p) \/ StoreZero(p)
  \/ CheckGrowth(p) /\ ~Grows(p)
  \/ Begin(p) /\ req[p].op # "Clear" /\ ~NeedsResize(tab)

-----------------------------------------------------------------------------
\* Thresholds are numbers of keys.
LEMMA ThresholdIsNat == \A n \in Tables : ResizeThreshold(n) \in Nat
  BY TableSizes, LoadAssumption DEF ResizeThreshold

\* Division by a divisor that fits b times gives at least b.
LEMMA QuotientAtLeast ==
  ASSUME NEW a \in Nat, NEW b \in Nat, NEW c \in Nat \ {0}, a >= b * c
  PROVE  a \div c >= b
  OBVIOUS

\* There is room as soon as every table holds one key at its load factor, as
\* two buckets do at the default one (map.go:19,83).
LEMMA OneKeyMakesRoom ==
  ASSUME \A n \in Tables : n * LoadNum >= LoadDen
  PROVE  DoublingMakesRoom
<1>. SUFFICES ASSUME NEW n \in Tables PROVE ResizeThreshold(n) < ResizeThreshold(2 * n)
  BY DEF DoublingMakesRoom
<1>. DEFINE x == n * LoadNum
            q == x \div LoadDen
<1>1. x \in Nat /\ x >= LoadDen /\ (2 * n) * LoadNum = 2 * x
  BY TableSizes, LoadAssumption
<1>. HIDE DEF x
<1>2. LoadDen \in Nat \ {0}
  BY LoadAssumption
<1>3. q \in Nat /\ x >= q * LoadDen
  BY <1>1, <1>2
<1>4. q = ResizeThreshold(n) /\ (2 * x) \div LoadDen = ResizeThreshold(2 * n)
  BY <1>1 DEF ResizeThreshold, x
<1>. HIDE DEF q
<1>5. (q + 1) * LoadDen = q * LoadDen + LoadDen /\ q * LoadDen \in Nat
  BY <1>2, <1>3
<1>6. 2 * x \in Nat /\ q + 1 \in Nat /\ 2 * x >= (q + 1) * LoadDen
  BY <1>1, <1>2, <1>3, <1>5
<1>7. (2 * x) \div LoadDen >= q + 1
  BY <1>2, <1>6, QuotientAtLeast
<1>8. (2 * x) \div LoadDen \in Nat
  BY <1>2, <1>6
<1>. QED BY <1>3, <1>4, <1>7, <1>8

\* Nobody's answerability changes by a step of p, but for p's own.
LEMMA GrowingOthers ==
  ASSUME TypeOK, NEW p \in Procs, Invoke(p) \/ Step(p)
  PROVE  \A q \in Procs : q # p => (q \in Growing' <=> q \in Growing)
  BY OthersKeep DEF Growing

\* By all steps but those that settle it, p stays as answerable as it was.
LEMMA Unsettled ==
  ASSUME BaseInv, NEW p \in Procs, Invoke(p) \/ Step(p), ~Settles(p)
  PROVE  /\ p \in Growing' <=> p \in Growing
         /\ size' = size /\ tab' = tab
         /\ pc'[p] = "check" => tbl'[p] = tab
<1>. USE DEF BaseInv, TypeInv, TypeOK, ControlOK, WritePCs, SweepPCs, Goto, table, call, locals
<1>. DEFINE Same == /\ p \in Growing' <=> p \in Growing
                    /\ size' = size /\ tab' = tab
                    /\ pc'[p] = "check" => tbl'[p] = tab
<1>1. Invoke(p) => Same
  <2>. SUFFICES ASSUME Invoke(p) PROVE Same
    OBVIOUS
  <2>1. PICK r \in Requests :
          pc[p] = "idle" /\ pc'[p] = Entry(r.op) /\ req'[p] = r /\ size' = size /\ tab' = tab
    BY DEF Invoke
  <2>. QED BY <2>1, EntryOK DEF Growing
<1>2. Load(p) => Same
  BY DEF Load, Growing
<1>3. LockWrite(p) \/ LockRead(p) \/ AwaitReaders(p) => Same
  BY DEF LockWrite, LockRead, AwaitReaders, Growing
<1>4. Retry(p) => Same
  BY DEF Retry, RetryFrom, Growing
<1>5. ReadValue(p) \/ Overwrite(p) \/ CallMerger(p) \/ StoreMerged(p) \/ Insert(p) => Same
  BY DEF ReadValue, Overwrite, CallMerger, StoreMerged, Insert, Growing
<1>6. UnlockBucket(p) => Same
  BY DEF UnlockBucket, Growing
<1>7. CheckGrowth(p) => Same
  BY DEF CheckGrowth, Settles, Growing
<1>8. LockMutex(p) \/ AwaitNext(p) => Same
  BY DEF LockMutex, AwaitNext, Growing
<1>9. Begin(p) => Same
  BY DEF Begin, SweptTable, Settles, Growing
<1>10. RecheckResize(p) => Same
  <2>1. RecheckResize(p) => NeedsResize(tbl[p])
    BY DEF RecheckResize, Rehash, Abandon, TableInv, SweepOK
  <2>. QED BY <2>1 DEF RecheckResize, Rehash, Growing
<1>11. RecheckClear(p) => Same
  BY DEF RecheckClear, Unlink, Abandon, Growing
<1>12. UnlockNext(p) => Same
  BY DEF UnlockNext, Growing
<1>13. LeaveLoop(p) => Same
  BY DEF LeaveLoop, Growing
<1>14. ReadSize(p) \/ VisitBucket(p) \/ StopRange(p) \/ Return(p) => Same
  BY DEF ReadSize, VisitBucket, StopRange, Return, Growing
<1>. QED BY <1>1, <1>2, <1>3, <1>4, <1>5, <1>6, <1>7, <1>8, <1>9, <1>10, <1>11, <1>12, <1>13,
            <1>14 DEF Step, Settles

\* What the step of a goroutine that settles does.
LEMMA Settled ==
  ASSUME BaseInv, NEW p \in Procs, Settles(p)
  PROVE  \/ /\ p \notin Growing /\ p \in Growing' /\ size' = size + 1 /\ tab' = tab
            /\ pc'[p] # "check"
         \/ /\ p \in Growing /\ p \notin Growing' /\ size' = size /\ tab' = 2 * tab
            /\ pc'[p] # "check" /\ tab < MaxBuckets
         \/ /\ p \notin Growing /\ p \notin Growing' /\ size' = 0 /\ tab' = tab
            /\ pc'[p] # "check"
         \/ /\ p \in Growing /\ p \notin Growing' /\ size' = size /\ tab' = tab
            /\ pc'[p] # "check"
            /\ \/ pc[p] = "check" /\ ~NeedsResize(tbl[p])
               \/ ~NeedsResize(tab)
<1>. USE DEF BaseInv, TypeInv, TypeOK, ControlOK, WritePCs, SweepPCs, Goto, table, call, locals
<1>1. CASE Count(p)
  BY <1>1 DEF Count, Growing
<1>2. CASE Publish(p)
  <2>1. /\ pc[p] = "publish" /\ pc'[p] = "unlockall" /\ req' = req
        /\ size' = size /\ tab' = 2 * tbl[p]
    BY <1>2 DEF Publish, Doubled
  <2>2. tbl[p] = tab /\ tbl[p] < MaxBuckets /\ req[p].op \in {"Put", "Merge"}
    BY <2>1 DEF TableInv, CheckedTableIsCurrent
  <2>. QED BY <2>1, <2>2 DEF Growing
<1>3. CASE StoreZero(p)
  <2>1. /\ pc[p] = "zero" /\ pc'[p] = "unlockall" /\ size' = 0 /\ tab' = tab
    BY <1>3 DEF StoreZero
  <2>. QED BY <2>1 DEF Growing
<1>4. CASE CheckGrowth(p) /\ ~Grows(p)
  BY <1>4 DEF CheckGrowth, Grows, Growing
<1>5. CASE Begin(p) /\ req[p].op # "Clear" /\ ~NeedsResize(tab)
  BY <1>5 DEF Begin, SweptTable, Growing
<1>. QED BY <1>1, <1>2, <1>3, <1>4, <1>5 DEF Settles

-----------------------------------------------------------------------------
\* An empty map owes nothing.
LEMMA LoadInit == Init => LoadInv
<1>. SUFFICES ASSUME Init PROVE LoadInv
  OBVIOUS
<1>1. Growing = {}
  BY DEF Init, Growing, NoRequest
<1>2. IsFiniteSet(Growing) /\ Cardinality(Growing) = 0
  BY <1>1, FS_EmptySet
<1>3. ResizeThreshold(tab) \in Nat /\ size = 0
  BY ThresholdIsNat, TableSizes DEF Init
<1>4. CheckedOlder
  BY DEF Init, CheckedOlder
<1>. QED BY <1>2, <1>3, <1>4 DEF LoadInv, LoadIsPaidFor

\* Every step keeps the account.
LEMMA LoadNext ==
  ASSUME DoublingMakesRoom, BaseInv, LoadInv, [Next]_vars
  PROVE  LoadInv'
<1>. USE DEF BaseInv, TypeInv, TypeOK
<1>. DEFINE G == Growing
            T(n) == ResizeThreshold(n)
<1>s. CASE UNCHANGED vars
  BY <1>s DEF vars, table, call, locals, LoadInv, LoadIsPaidFor, CheckedOlder, Growing,
     ResizeThreshold
<1>0. /\ IsFiniteSet(G) /\ Cardinality(G) \in Nat
      /\ tab < MaxBuckets => size <= T(tab) + Cardinality(G)
  BY FS_CardinalityType DEF LoadInv, LoadIsPaidFor
<1>1. ASSUME NEW p \in Procs, Invoke(p) \/ Step(p), ~Settles(p) PROVE LoadInv'
  <2>1. Growing' = Growing
    BY <1>1, Unsettled, GrowingOthers DEF Growing
  <2>2. size' = size /\ tab' = tab /\ (pc'[p] = "check" => tbl'[p] = tab)
    BY <1>1, Unsettled
  <2>3. LoadIsPaidFor'
    BY <2>1, <2>2 DEF LoadInv, LoadIsPaidFor, ResizeThreshold
  <2>4. CheckedOlder'
    <3>1. \A q \in Procs : q # p => pc'[q] = pc[q] /\ tbl'[q] = tbl[q]
      BY <1>1, OthersKeep
    <3>2. tab \in Nat /\ T(tab) \in Nat
      BY TableSizes, ThresholdIsNat
    <3>. QED BY <2>2, <3>1, <3>2 DEF LoadInv, CheckedOlder, ResizeThreshold
  <2>. QED BY <2>1, <2>3, <2>4 DEF LoadInv
<1>2. ASSUME NEW p \in Procs, Settles(p) PROVE LoadInv'
  <2>1. Invoke(p) \/ Step(p)
    BY <1>2 DEF Settles, Step
  <2>2. \A q \in Procs : q # p => pc'[q] = pc[q] /\ tbl'[q] = tbl[q]
    BY <2>1, OthersKeep
  <2>3. \A q \in Procs : q # p => (q \in Growing' <=> q \in Growing)
    BY <2>1, GrowingOthers
  <2>4. G \subseteq Procs /\ G' \subseteq Procs
    BY DEF Growing
  <2>5. /\ tab \in Tables /\ tab \in Nat /\ T(tab) \in Nat
        /\ tab < MaxBuckets => 2 * tab \in Tables /\ T(2 * tab) \in Nat /\ T(tab) < T(2 * tab)
    BY TableSizes, TablesAssumption, ThresholdIsNat DEF DoublingMakesRoom
  <2>6. CheckedOlder'
    <3>1. pc'[p] # "check"
      BY <1>2, Settled
    <3>2. tab' = tab \/ (tab' = 2 * tab /\ tab < MaxBuckets)
      BY <1>2, Settled
    <3>. SUFFICES ASSUME NEW q \in Procs, pc'[q] = "check"
                  PROVE  tbl'[q] <= tab' /\ T(tbl'[q]) <= T(tab')
      BY DEF CheckedOlder, ResizeThreshold
    <3>3. tbl'[q] = tbl[q] /\ tbl[q] <= tab /\ T(tbl[q]) <= T(tab)
      BY <2>2, <3>1 DEF LoadInv, CheckedOlder
    <3>4. tbl[q] \in Nat /\ T(tbl[q]) \in Nat
      BY TableSizes, ThresholdIsNat
    <3>. HIDE DEF T
    <3>. QED BY <2>5, <3>2, <3>3, <3>4
  <2>. DEFINE Paid == tab' < MaxBuckets => size' <= T(tab') + Cardinality(G')
  <2>. SUFFICES IsFiniteSet(G') /\ Paid
    BY <2>6 DEF LoadInv, LoadIsPaidFor, ResizeThreshold
  <2>. HIDE DEF G, T
  <2>7. CASE p \notin G /\ p \in G' /\ size' = size + 1 /\ tab' = tab
    <3>1. G' = G \cup {p}
      BY <2>3, <2>4, <2>7 DEF G
    <3>2. IsFiniteSet(G') /\ Cardinality(G') = Cardinality(G) + 1
      BY <1>0, <2>7, <3>1, FS_AddElement
    <3>. QED BY <1>0, <2>5, <2>7, <3>2
  <2>8. CASE p \in G /\ p \notin G' /\ size' = size
    <3>1. G' = G \ {p}
      BY <2>3, <2>4, <2>8 DEF G
    <3>2. IsFiniteSet(G') /\ Cardinality(G') = Cardinality(G) - 1
      BY <1>0, <2>8, <3>1, FS_RemoveElement
    <3>3. Cardinality(G') \in Nat
      BY <3>2, FS_CardinalityType
    <3>4. CASE tab' = 2 * tab /\ tab < MaxBuckets
      BY <1>0, <2>5, <2>8, <3>2, <3>3, <3>4
    <3>5. CASE tab' = tab /\ ~NeedsResize(tab)
      <4>1. tab < MaxBuckets => size <= T(tab)
        BY <2>5, <3>5 DEF NeedsResize, T
      <4>. QED BY <2>5, <2>8, <3>2, <3>3, <3>5, <4>1
    <3>6. CASE tab' = tab /\ pc[p] = "check" /\ ~NeedsResize(tbl[p])
      <4>1. tbl[p] \in Nat /\ T(tbl[p]) \in Nat
        BY TableSizes, ThresholdIsNat DEF T
      <4>2. tbl[p] <= tab /\ T(tbl[p]) <= T(tab)
        BY <3>6 DEF LoadInv, CheckedOlder, T
      <4>3. tbl[p] < MaxBuckets => size <= T(tbl[p])
        BY <3>6, <4>1 DEF NeedsResize, T
      <4>4. tab < MaxBuckets => size <= T(tab)
        BY <2>5, <4>1, <4>2, <4>3, TablesAssumption
      <4>. QED BY <2>5, <2>8, <3>2, <3>3, <3>6, <4>4
    <3>. QED BY <1>2, <2>8, <3>2, <3>4, <3>5, <3>6, Settled DEF G
  <2>9. CASE p \notin G /\ p \notin G' /\ size' = 0 /\ tab' = tab
    <3>0. \A q \in Procs : q \in G' <=> q \in G
      BY <2>3, <2>9 DEF G
    <3>1. G' = G
      BY <2>4, <3>0
    <3>. QED BY <1>0, <2>5, <2>9, <3>1
  <2>. QED BY <1>2, <2>7, <2>8, <2>9, Settled DEF G
<1>. QED BY <1>s, <1>1, <1>2 DEF Next

\* Every key above the load factor of the current table has a goroutine that
\* has inserted a key and has still to look at the load, or is enlarging the
\* table: when all inserts have returned the load factor is kept (map.go:5,34).
THEOREM LoadStaysPaidFor ==
  ASSUME DoublingMakesRoom
  PROVE  Spec => []LoadIsPaidFor
<1>1. LoadInv => LoadIsPaidFor
  BY DEF LoadInv
<1>2. BaseInv /\ LoadInv /\ [Next]_vars => LoadInv'
  BY LoadNext
<1>. QED BY <1>1, <1>2, LoadInit, BaseHolds, PTL DEF Spec

\* The table is replaced only by one twice as large, while every bucket of it
\* is locked by the goroutine that replaces it and no reader is inside.
THEOREM GrowthHoldsAllLocks == Spec => GrowsUnderAllLocks
<1>1. BaseInv /\ [Next]_vars
        => [tab' # tab =>
              /\ tab' = 2 * tab
              /\ \E p \in Procs : \A s \in SlotsOf(tab) : writer[s] = p /\ readers[s] = {}]_vars
  <2>. SUFFICES ASSUME BaseInv, [Next]_vars, tab' # tab
                PROVE  /\ tab' = 2 * tab
                       /\ \E p \in Procs : \A s \in SlotsOf(tab) :
                            writer[s] = p /\ readers[s] = {}
    OBVIOUS
  <2>1. PICK p \in Procs : Invoke(p) \/ Step(p)
    BY DEF Next, vars, table
  <2>2. Publish(p)
    BY <2>1, Unsettled DEF Settles, Count, StoreZero, CheckGrowth, Begin, table
  <2>3. pc[p] = "publish" /\ tbl[p] = tab /\ tab' = 2 * tab
    BY <2>2 DEF Publish, Goto, Doubled, BaseInv, TableInv, CheckedTableIsCurrent
  <2>4. ASSUME NEW s \in SlotsOf(tab) PROVE writer[s] = p /\ readers[s] = {}
    <3>1. s \in Slots /\ s[1] = tab
      BY SlotsWithin DEF SlotsOf, BaseInv, TypeInv, TypeOK
    <3>. QED BY <2>3, <3>1 DEF Writes, BaseInv, LockInv
  <2>. QED BY <2>3, <2>4
<1>. QED BY <1>1, BaseHolds, PTL DEF Spec, GrowsUnderAllLocks

-----------------------------------------------------------------------------
(* ConcMap implements AtomicMap, and its counter is exact.  The dictionary *)
(* the callers see is made of the visible nodes: a new node becomes        *)
(* visible when it is counted, and the nodes a Clear has unlinked stay     *)
(* visible until it stores size 0.  Resizes do not change what is visible. *)

\* A Clear has emptied the buckets and not yet stored size 0.
Zeroing == \E p \in Procs : pc[p] = "zero"

\* Nodes are either linked or held by one Clear, one per key.
ClearInv ==
  /\ gone # {} => Zeroing
  /\ Zeroing => Linked = {}
  /\ \A x, y \in gone : x.key = y.key => x = y

\* The node a goroutine has inserted and not counted, and the one whose value
\* it has passed to its merger, are in the bucket it has locked.
HeldInv ==
  \A p \in Procs :
    /\ pc[p] = "count" =>
         [key |-> req[p].key, val |-> req[p].val] \in chain[KeySlot(p)]
    /\ pc[p] = "merging" =>
         /\ req[p].op = "Merge"
         /\ [key |-> req[p].key, val |-> got[p]] \in chain[KeySlot(p)]

\* There is no answer before the call has taken effect.
AnswerInv ==
  \A p \in Procs :
    /\ Status(p) # "done" => ret[p] = NoVal
    /\ pc[p] = "size" => req[p].op = "Size"

\* What has stayed in the map is there, and a Range has reported what stayed
\* in the buckets it has passed.
RangeInv ==
  \A p \in Procs :
    /\ steady[p] \subseteq Present(Dict)
    /\ pc[p] \in {"rnext", "visit"} =>
         \A k \in steady[p] :
           Hash[k] % tbl[p] < idx[p] => k \in {x[1] : x \in seen[p]}

\* The inductive form of SizeIsExact.
SizeInv == IsFiniteSet(Present(Dict)) /\ size = Cardinality(Present(Dict))

\* What the effects of the steps rest on.
SeenInv == BaseInv /\ PlaceInv /\ ClearInv /\ HeldInv

LinInv == SeenInv /\ AnswerInv /\ RangeInv /\ SizeInv

-----------------------------------------------------------------------------
(* Sets of nodes as dictionaries.                                           *)

\* A set of nodes with one node per key.
IsMap(V) == V \subseteq Nodes /\ \A x, y \in V : x.key = y.key => x = y

\* The dictionary of such a set.
TableOf(V) ==
  [k \in Keys |-> IF \E x \in V : x.key = k THEN (CHOOSE x \in V : x.key = k).val
                  ELSE NoVal]

\* A set of nodes after the node of n's key has become n.
WithNode(V, n) == {x \in V : x.key # n.key} \cup {n}

\* The dictionary has the value of each node, and nothing else.
LEMMA TableOfMap ==
  ASSUME NEW V, IsMap(V)
  PROVE  /\ TableOf(V) \in Dicts
         /\ \A x \in V : x.key \in Keys /\ TableOf(V)[x.key] = x.val /\ x.val # NoVal
         /\ \A k \in Keys : TableOf(V)[k] # NoVal <=> \E x \in V : x.key = k
<1>1. \A x \in V : x.key \in Keys /\ x.val \in Vals /\ x.val # NoVal
  BY NoValAssumption DEF IsMap, Nodes
<1>2. ASSUME NEW x \in V PROVE TableOf(V)[x.key] = x.val
  <2>1. (CHOOSE y \in V : y.key = x.key) = x
    BY DEF IsMap
  <2>. QED BY <1>1, <2>1 DEF TableOf
<1>3. ASSUME NEW k \in Keys
      PROVE  /\ TableOf(V)[k] \in Vals \cup {NoVal}
             /\ TableOf(V)[k] # NoVal <=> \E x \in V : x.key = k
  <2>1. CASE \E x \in V : x.key = k
    BY <1>1, <1>2, <2>1
  <2>2. CASE ~ \E x \in V : x.key = k
    BY <2>2 DEF TableOf
  <2>. QED BY <2>1, <2>2
<1>4. TableOf(V) \in Dicts
  BY <1>3 DEF TableOf, Dicts
<1>. QED BY <1>1, <1>2, <1>3, <1>4

\* The pairs and the keys of the dictionary are those of the nodes.
LEMMA PairsOfMap ==
  ASSUME NEW V, IsMap(V)
  PROVE  /\ Present(TableOf(V)) = {x.key : x \in V}
         /\ \A x \in V : <<x.key, x.val>> \in Pairs(TableOf(V))
  BY TableOfMap DEF Present, Pairs, IsMap

\* Replacing the node of a key changes the dictionary at that key.
LEMMA TableWithNode ==
  ASSUME NEW V, IsMap(V), NEW n \in Nodes
  PROVE  /\ IsMap(WithNode(V, n))
         /\ TableOf(WithNode(V, n)) = [TableOf(V) EXCEPT ![n.key] = n.val]
         /\ Present(TableOf(WithNode(V, n))) = Present(TableOf(V)) \cup {n.key}
<1>. DEFINE W == WithNode(V, n)
<1>1. IsMap(W)
  BY DEF IsMap, WithNode
<1>2. TableOf(W)[n.key] = n.val
  <2>1. n \in W
    BY DEF WithNode
  <2>. QED BY <1>1, <2>1, TableOfMap
<1>3. ASSUME NEW k \in Keys, k # n.key PROVE TableOf(W)[k] = TableOf(V)[k]
  <2>1. CASE \E x \in V : x.key = k
    <3>1. PICK x \in V : x.key = k
      BY <2>1
    <3>2. x \in W
      BY <1>3, <3>1 DEF WithNode
    <3>. QED BY <1>1, <3>1, <3>2, TableOfMap
  <2>2. CASE ~ \E x \in V : x.key = k
    <3>1. ~ \E x \in W : x.key = k
      BY <1>3, <2>2 DEF WithNode
    <3>. QED BY <2>2, <3>1 DEF TableOf
  <2>. QED BY <2>1, <2>2
<1>4. TableOf(V) \in [Keys -> Vals \cup {NoVal}] /\ TableOf(W) \in [Keys -> Vals \cup {NoVal}]
  BY <1>1, TableOfMap DEF Dicts
<1>5. TableOf(W) = [TableOf(V) EXCEPT ![n.key] = n.val]
  BY <1>2, <1>3, <1>4
<1>6. n.key \in Keys /\ n.val # NoVal
  BY NoValAssumption DEF Nodes
<1>7. Present(TableOf(W)) = Present(TableOf(V)) \cup {n.key}
  BY <1>2, <1>3, <1>6 DEF Present
<1>. QED BY <1>1, <1>5, <1>7

\* A set of nodes without any is the empty dictionary.
LEMMA TableOfNone == IsMap({}) /\ TableOf({}) = EmptyDict
  BY DEF IsMap, TableOf, EmptyDict

\* The dictionary of the map is that of its visible nodes.
LEMMA DictIsTable == Dict = TableOf(Visible) /\ Dict' = TableOf(Visible')
  BY DEF Dict, TableOf

\* The visible nodes are a dictionary.
LEMMA VisibleIsMap ==
  ASSUME SeenInv
  PROVE  IsMap(Visible)
<1>. USE DEF SeenInv, BaseInv, TypeInv, TypeOK
<1>1. Linked \subseteq Nodes /\ Visible \subseteq Nodes
  BY DEF Linked, Visible
<1>2. ASSUME NEW x \in Linked, NEW y \in Linked, x.key = y.key PROVE x = y
  BY <1>2 DEF Linked, PlaceInv, WellPlaced
<1>3. gone = {} \/ Linked = {}
  BY DEF ClearInv
<1>4. ASSUME NEW x \in Visible, NEW y \in Visible, x.key = y.key PROVE x = y
  BY <1>2, <1>3, <1>4 DEF Visible, ClearInv
<1>. QED BY <1>1, <1>4 DEF IsMap

-----------------------------------------------------------------------------
(* What a goroutine inside a bucket of the current table can rely on.       *)

\* A goroutine that counts is in the bucket of its key in the current table.
LEMMA CountsInBucket ==
  ASSUME BaseInv, NEW q \in Procs, pc[q] = "count"
  PROVE  /\ tbl[q] = tab /\ req[q].key \in Keys
         /\ KeySlot(q) = BucketOf(tab, req[q].key) /\ KeySlot(q) \in Slots
         /\ Writes(q, KeySlot(q))
<1>. USE DEF BaseInv, TypeInv, TypeOK
<1>1. tbl[q] = tab
  BY DEF TableInv, CheckedTableIsCurrent
<1>2. req[q].key \in Keys
  BY RequestFields DEF ControlOK, WritePCs
<1>3. KeySlot(q) = BucketOf(tab, req[q].key) /\ KeySlot(q) \in Slots
  BY <1>1, <1>2, BucketIsSlot DEF KeySlot
<1>. QED BY <1>1, <1>2, <1>3 DEF Writes

\* Nobody sweeps the table, and what is visible of the keys of the bucket is
\* its chain, but for the goroutine's own node that is not counted yet.
LEMMA AtBucket ==
  ASSUME BaseInv, PlaceInv, ClearInv, NEW p \in Procs, NEW s \in Slots, s[1] = tab,
         Writes(p, s) \/ Reads(p, s), pc[p] \notin SweepPCs
  PROVE  /\ ~Zeroing /\ gone = {} /\ Home = tab
         /\ \A q \in Procs : q # p /\ pc[q] = "count" => KeySlot(q) # s
         /\ \A x \in chain[s] : x \in Nodes /\ BucketOf(tab, x.key) = s
         /\ \A x \in Linked : BucketOf(tab, x.key) = s => x \in chain[s]
         /\ \A x : BucketOf(tab, x.key) = s =>
              (x \in Visible <=>
                 x \in chain[s] /\ ~(pc[p] = "count" /\ req[p].key = x.key))
<1>. USE DEF BaseInv, TypeInv, TypeOK
<1>1. ASSUME NEW q \in Procs, q # p, Writes(q, s) PROVE FALSE
  BY <1>1 DEF LockInv
<1>2. ASSUME NEW q \in Procs, pc[q] \in {"publish", "zero"} PROVE FALSE
  <2>1. q # p /\ tbl[q] = tab
    BY <1>2 DEF SweepPCs, TableInv, CheckedTableIsCurrent
  <2>. QED BY <1>1, <1>2, <2>1 DEF Writes
<1>3. ~Zeroing /\ gone = {} /\ Home = tab
  BY <1>2 DEF Zeroing, ClearInv, Home, Publishing
<1>4. \A q \in Procs : q # p /\ pc[q] = "count" => KeySlot(q) # s
  BY <1>1, CountsInBucket
<1>5. \A x \in chain[s] : x \in Nodes /\ BucketOf(tab, x.key) = s
  BY DEF PlaceInv, WellPlaced
<1>6. ASSUME NEW x \in Linked, BucketOf(tab, x.key) = s PROVE x \in chain[s]
  <2>1. PICK u \in Slots : x \in chain[u]
    BY DEF Linked
  <2>2. u[1] = tab /\ BucketOf(u[1], x.key) = u
    BY <1>3, <2>1 DEF PlaceInv, WellPlaced, OnlyCurrentTableLinked, Home, Publishing
  <2>. QED BY <1>6, <2>1, <2>2
<1>7. ASSUME NEW x, BucketOf(tab, x.key) = s
      PROVE  x \in Visible <=> x \in chain[s] /\ ~(pc[p] = "count" /\ req[p].key = x.key)
  <2>1. ASSUME NEW q \in Procs, pc[q] = "count", req[q].key = x.key PROVE q = p
    BY <1>4, <1>7, <2>1, CountsInBucket
  <2>2. x \in chain[s] => x.key \in Keys
    BY <1>5 DEF Nodes
  <2>3. x \in chain[s] => (x.key \in Uncounted <=> pc[p] = "count" /\ req[p].key = x.key)
    BY <2>1, <2>2 DEF Uncounted
  <2>4. x \in chain[s] => x \in Linked
    BY DEF Linked
  <2>5. x \in Linked => x \in chain[s]
    BY <1>6, <1>7
  <2>. QED BY <1>3, <2>3, <2>4, <2>5 DEF Visible
<1>. QED BY <1>3, <1>4, <1>5, <1>6, <1>7

-----------------------------------------------------------------------------
(* What the steps do to the visible nodes.                                  *)

\* Who is uncounted changes only when a goroutine begins or ends to count.
LEMMA UncountedStays ==
  ASSUME BaseInv, NEW p \in Procs, Invoke(p) \/ Step(p),
         pc[p] # "count", pc'[p] # "count"
  PROVE  Uncounted' = Uncounted
<1>1. \A q \in Procs : q # p => pc'[q] = pc[q] /\ req'[q] = req[q]
  BY OthersKeep DEF BaseInv, TypeInv
<1>. QED BY <1>1 DEF Uncounted

\* The steps at which a key gets a value.
Puts(p) == Overwrite(p) \/ StoreMerged(p) \/ Count(p)

\* The bucket of a goroutine at its change of a key.
LEMMA KeyBucket ==
  ASSUME BaseInv, NEW p \in Procs, pc[p] \in {"locked", "merging", "count"},
         pc[p] = "locked" => StillCurrent(p)
  PROVE  /\ req[p] \in Requests /\ req[p].op \in {"Put", "Merge"}
         /\ req[p].key \in Keys /\ req[p].val \in Vals
         /\ KeySlot(p) = BucketOf(tab, req[p].key) /\ KeySlot(p) \in Slots /\ KeySlot(p)[1] = tab
         /\ Writes(p, KeySlot(p)) /\ pc[p] \notin SweepPCs
<1>. USE DEF BaseInv, TypeInv, TypeOK
<1>1. tbl[p] = tab
  BY DEF TableInv, CheckedTableIsCurrent, StillCurrent
<1>2. req[p].op \in {"Put", "Merge"} /\ req[p] \in Requests
  BY DEF ControlOK, WritePCs, NoRequest
<1>3. req[p].key \in Keys /\ req[p].val \in Vals
  BY <1>2, RequestFields
<1>4. KeySlot(p) = BucketOf(tab, req[p].key) /\ KeySlot(p) \in Slots /\ KeySlot(p)[1] = tab
  BY <1>1, <1>3, BucketIsSlot DEF KeySlot, BucketOf
<1>. QED BY <1>2, <1>3, <1>4 DEF Writes, SweepPCs

\* A store, or the count of a new node, replaces the visible node of the key.
LEMMA PutEffect ==
  ASSUME SeenInv, NEW p \in Procs, Puts(p)
  PROVE  StoredNode(p) \in Nodes /\ Visible' = WithNode(Visible, StoredNode(p))
<1>. USE DEF SeenInv
<1>. DEFINE n == StoredNode(p)
            s == KeySlot(p)
<1>1. /\ pc[p] \in {"locked", "merging", "count"} /\ (pc[p] = "locked" => StillCurrent(p))
      /\ pc'[p] \in {"done", "unlock"} /\ req' = req /\ gone' = gone
  BY DEF Puts, Overwrite, StoreMerged, Count, Goto, call, BaseInv, TypeInv, TypeOK
<1>2. /\ req[p].key \in Keys /\ req[p].val \in Vals
      /\ s = BucketOf(tab, req[p].key) /\ s \in Slots /\ s[1] = tab
      /\ Writes(p, s) /\ pc[p] \notin SweepPCs
  BY <1>1, KeyBucket
<1>3. n \in Nodes /\ n.key = req[p].key
  BY <1>1, <1>2, MergedAssumption DEF StoredNode, Nodes, BaseInv, TypeInv, ControlOK
<1>4. /\ gone = {}
      /\ \A q \in Procs : q # p /\ pc[q] = "count" => KeySlot(q) # s
      /\ \A x \in Linked : BucketOf(tab, x.key) = s => x \in chain[s]
      /\ \A x \in chain[s] : x \in Nodes /\ BucketOf(tab, x.key) = s
  BY <1>2, AtBucket
<1>4a. s = KeySlot(p) /\ n = StoredNode(p)
  OBVIOUS
<1>. HIDE DEF n, s
<1>5. \A q \in Procs : q # p => pc'[q] = pc[q]
  BY OthersKeep DEF Puts, Step, BaseInv, TypeInv
<1>6. \A q \in Procs : q # p /\ pc[q] = "count" => req[q].key # req[p].key
  BY <1>2, <1>4, CountsInBucket
<1>7. req[p].key \notin Uncounted'
  BY <1>1, <1>5, <1>6 DEF Uncounted
<1>8. \A k \in Keys : k # req[p].key => (k \in Uncounted' <=> k \in Uncounted)
  BY <1>1, <1>5 DEF Uncounted
<1>9. \A x \in Linked' : x.key \in Keys
  BY BaseNext DEF BaseInv, TypeInv, TypeOK, Linked, Nodes, Next, Puts, Step
<1>10. \A x \in Linked : x.key \in Keys
  BY DEF BaseInv, TypeInv, TypeOK, Linked, Nodes
<1>a. ASSUME \A x : x \in Linked' /\ x.key = n.key <=> x = n,
             \A x : x.key # n.key => (x \in Linked' <=> x \in Linked)
      PROVE  Visible' = WithNode(Visible, n)
  <2>1. ASSUME NEW x, x.key = n.key PROVE x \in Visible' <=> x \in WithNode(Visible, n)
    BY <1>1, <1>3, <1>4, <1>7, <1>a, <2>1 DEF Visible, WithNode
  <2>2. ASSUME NEW x, x.key # n.key PROVE x \in Visible' <=> x \in WithNode(Visible, n)
    BY <1>1, <1>3, <1>4, <1>8, <1>9, <1>10, <1>a, <2>2 DEF Visible, WithNode
  <2>. QED BY <2>1, <2>2
<1>11. CASE Overwrite(p) \/ StoreMerged(p)
  <2>1. chain' = [chain EXCEPT ![s] = (@ \ Found(p)) \cup {n}]
    BY <1>11, StoreEffect DEF Stores, n, s
  <2>2. \A x : x \in Linked' /\ x.key = n.key <=> x = n
    <3>. SUFFICES ASSUME NEW x PROVE x \in Linked' /\ x.key = n.key <=> x = n
      OBVIOUS
    <3>1. n \in Linked'
      BY <1>2, <2>1 DEF Linked, BaseInv, TypeInv, TypeOK
    <3>2. ASSUME x \in Linked', x.key = n.key, x # n PROVE FALSE
      <4>1. PICK u \in Slots : x \in chain'[u]
        BY <3>2 DEF Linked
      <4>2. x \in chain[u] /\ (u = s => x \notin Found(p))
        BY <2>1, <3>2, <4>1 DEF BaseInv, TypeInv, TypeOK
      <4>3. x \in chain[s]
        BY <1>2, <1>3, <1>4, <3>2, <4>2 DEF Linked
      <4>4. u = s
        BY <1>2, <4>2, <4>3 DEF PlaceInv, WellPlaced
      <4>. QED BY <1>3, <3>2, <4>2, <4>3, <4>4 DEF Found, s
    <3>. QED BY <3>1, <3>2
  <2>3. \A x : x.key # n.key => (x \in Linked' <=> x \in Linked)
    <3>. SUFFICES ASSUME NEW x, x.key # n.key PROVE x \in Linked' <=> x \in Linked
      OBVIOUS
    <3>1. \A u \in Slots : x \in chain'[u] <=> x \in chain[u]
      BY <1>2, <1>3, <2>1 DEF Found, s, BaseInv, TypeInv, TypeOK
    <3>. QED BY <3>1 DEF Linked
  <2>. QED BY <1>3, <1>4a, <2>2, <2>3, <1>a
<1>12. CASE Count(p)
  <2>1. Linked' = Linked /\ pc[p] = "count"
    BY <1>12 DEF Count, Goto, Linked
  <2>2. n \in chain[s]
    BY <2>1 DEF HeldInv, StoredNode, n, s
  <2>3. \A x : x \in Linked' /\ x.key = n.key <=> x = n
    <3>. SUFFICES ASSUME NEW x PROVE x \in Linked /\ x.key = n.key <=> x = n
      BY <2>1
    <3>1. n \in Linked
      BY <1>2, <2>2 DEF Linked
    <3>2. x \in Linked /\ x.key = n.key => x = n
      BY <1>2, <2>2 DEF Linked, PlaceInv, WellPlaced
    <3>. QED BY <3>1, <3>2
  <2>. QED BY <1>3, <1>4a, <2>1, <2>3, <1>a
<1>. QED BY <1>3, <1>4a, <1>11, <1>12 DEF Puts

\* Nobody else counts, sweeps or clears while p has all buckets of its table.
LEMMA SweeperSees ==
  ASSUME SeenInv, NEW p \in Procs, pc[p] \in {"recheck", "publish"}
  PROVE  /\ tbl[p] = tab /\ Uncounted = {} /\ ~Zeroing /\ gone = {}
<1>. USE DEF SeenInv, BaseInv, TypeInv, TypeOK
<1>1. tbl[p] = tab
  BY DEF TableInv, CheckedTableIsCurrent
<1>2. ASSUME NEW q \in Procs, pc[q] = "count" PROVE FALSE
  <2>1. q # p /\ tbl[q] = tab
    BY <1>2 DEF TableInv, CheckedTableIsCurrent
  <2>. QED BY <1>1, <1>2, <2>1, SweeperIsAlone
<1>3. Uncounted = {}
  BY <1>2 DEF Uncounted
<1>4. ~Zeroing
  BY SweeperIsAlone DEF Zeroing, SweepPCs
<1>. QED BY <1>1, <1>3, <1>4 DEF ClearInv

\* The store of size 0 hides what the Clear has unlinked.
LEMMA ZeroEffect ==
  ASSUME SeenInv, NEW p \in Procs, StoreZero(p)
  PROVE  /\ Visible' = {} /\ Dict' = EmptyDict /\ Present(Dict') = {}
         /\ size' = 0 /\ steady' = [q \in Procs |-> {}]
<1>1. Linked = {}
  BY DEF StoreZero, Goto, Zeroing, SeenInv, ClearInv
<1>2. Linked' = {} /\ gone' = {}
  BY <1>1 DEF StoreZero, Linked
<1>3. Visible' = {}
  BY <1>2 DEF Visible
<1>4. Dict' = EmptyDict
  BY <1>3, DictIsTable, TableOfNone
<1>. QED BY <1>3, <1>4 DEF Present, EmptyDict, StoreZero

\* A resize moves the nodes, and no more.
LEMMA RehashSame ==
  ASSUME SeenInv, NEW p \in Procs, Rehashes(p)
  PROVE  Linked' = Linked /\ gone' = gone /\ Visible' = Visible
<1>. USE DEF SeenInv
<1>1. /\ tab \in Tables /\ 2 * tab \in Tables /\ Home = tab
      /\ chain' = [s \in Slots |-> {x \in UNION {chain[u] : u \in SlotsOf(tab)} :
                                     BucketOf(2 * tab, x.key) = s}]
  BY RehashEffect
<1>2. gone' = gone /\ pc[p] = "recheck" /\ pc'[p] = "publish"
  BY DEF Rehashes, RecheckResize, Rehash, Goto, BaseInv, TypeInv, TypeOK
<1>3. ASSUME NEW x \in Linked PROVE x \in Linked'
  <2>1. PICK u \in Slots : x \in chain[u]
    BY DEF Linked
  <2>2. u[1] = tab
    BY <1>1, <2>1 DEF PlaceInv, OnlyCurrentTableLinked, Home, Publishing
  <2>3. u \in SlotsOf(tab)
    BY <1>1, <2>2, SlotFields, TableSizes DEF SlotsOf
  <2>4. x.key \in Keys
    BY <2>1 DEF BaseInv, TypeInv, TypeOK, Nodes
  <2>5. BucketOf(2 * tab, x.key) \in Slots
    BY <1>1, <2>4, BucketIsSlot
  <2>. QED BY <1>1, <2>1, <2>3, <2>5 DEF Linked
<1>4. ASSUME NEW x \in Linked' PROVE x \in Linked
  BY <1>1, <1>4, SlotsWithin DEF Linked
<1>5. Linked' = Linked
  BY <1>3, <1>4
<1>6. Uncounted' = Uncounted
  BY <1>2, UncountedStays DEF Rehashes, Step
<1>. QED BY <1>2, <1>5, <1>6 DEF Visible

\* A Clear unlinks the nodes and keeps them visible.
LEMMA UnlinkSame ==
  ASSUME SeenInv, NEW p \in Procs, Unlinks(p)
  PROVE  Linked' = {} /\ gone' = Linked /\ Visible' = Visible
<1>. USE DEF SeenInv
<1>1. /\ tbl[p] = tab /\ Home = tab
      /\ chain' = [s \in Slots |-> IF s[1] = tab THEN {} ELSE chain[s]]
  BY UnlinkEffect
<1>2. \A s \in Slots : s[1] # tab => chain[s] = {}
  BY <1>1 DEF PlaceInv, OnlyCurrentTableLinked, Home, Publishing
<1>3. Linked' = {}
  BY <1>1, <1>2 DEF Linked
<1>4. pc[p] = "recheck" /\ gone' = UNION {chain[s] : s \in SlotsOf(tab)}
  BY <1>1 DEF Unlinks, RecheckClear, Unlink, Goto
<1>5. gone' = Linked
  <2>1. tab \in Tables
    BY DEF BaseInv, TypeInv, TypeOK
  <2>2. \A s \in Slots : s[1] = tab => s \in SlotsOf(tab)
    BY <2>1, SlotFields, TableSizes DEF SlotsOf
  <2>. QED BY <1>2, <1>4, <2>1, <2>2, SlotsWithin DEF Linked
<1>6. Uncounted = {} /\ gone = {}
  BY <1>4, SweeperSees
<1>. QED BY <1>3, <1>5, <1>6 DEF Visible

\* A new node is hidden until it is counted.
LEMMA InsertSame ==
  ASSUME SeenInv, NEW p \in Procs, Insert(p)
  PROVE  /\ gone' = gone /\ Visible' = Visible
         /\ StoredNode(p) \in chain'[KeySlot(p)]
<1>. USE DEF SeenInv
<1>. DEFINE n == StoredNode(p)
            s == KeySlot(p)
<1>1. /\ pc[p] = "locked" /\ StillCurrent(p) /\ pc'[p] = "count" /\ Found(p) = {}
      /\ req' = req /\ gone' = gone
  BY DEF Insert, Goto, call, BaseInv, TypeInv, TypeOK
<1>2. /\ req[p].key \in Keys /\ s = BucketOf(tab, req[p].key) /\ s \in Slots /\ s[1] = tab
      /\ Writes(p, s) /\ pc[p] \notin SweepPCs
  BY <1>1, KeyBucket
<1>3. n.key = req[p].key /\ chain' = [chain EXCEPT ![s] = @ \cup {n}]
  <2>1. chain' = [chain EXCEPT ![s] = (@ \ Found(p)) \cup {n}]
    BY StoreEffect DEF Stores
  <2>. QED BY <1>1, <2>1 DEF StoredNode
<1>. HIDE DEF n
<1>4. \A x \in Linked : x.key # req[p].key
  <2>1. \A x \in Linked : BucketOf(tab, x.key) = s => x \in chain[s]
    BY <1>2, AtBucket
  <2>. QED BY <1>1, <1>2, <2>1 DEF Found
<1>5. \A x \in Linked' : x \in Linked \/ x = n
  BY <1>3 DEF Linked, BaseInv, TypeInv, TypeOK
<1>6. \A x \in Linked : x \in Linked'
  BY <1>3 DEF Linked, BaseInv, TypeInv, TypeOK
<1>7. \A q \in Procs : q # p => pc'[q] = pc[q]
  BY OthersKeep DEF Step, BaseInv, TypeInv
<1>8. Uncounted' = Uncounted \cup {req[p].key}
  BY <1>1, <1>2, <1>7 DEF Uncounted
<1>9. Visible' = Visible
  BY <1>1, <1>3, <1>4, <1>5, <1>6, <1>8 DEF Visible
<1>10. n \in chain'[s]
  BY <1>2, <1>3 DEF BaseInv, TypeInv, TypeOK
<1>. QED BY <1>1, <1>9, <1>10 DEF n

\* The steps that change neither the nodes nor the counter.
Quiet(p) ==
  /\ Invoke(p) \/ Step(p)
  /\ ~Stores(p) /\ ~Count(p) /\ ~Rehashes(p) /\ ~Unlinks(p) /\ ~StoreZero(p)

\* They leave what is visible alone.
LEMMA QuietSame ==
  ASSUME BaseInv, NEW p \in Procs, Quiet(p)
  PROVE  /\ chain' = chain /\ Linked' = Linked /\ gone' = gone /\ size' = size
         /\ pc[p] \notin {"count", "zero"} /\ pc'[p] \notin {"count", "zero"}
         /\ pc'[p] = "merging" => CallMerger(p)
         /\ Visible' = Visible
<1>. USE DEF BaseInv, TypeInv, TypeOK, Goto, table
<1>. DEFINE Same == /\ chain' = chain /\ gone' = gone /\ size' = size
                    /\ pc[p] \notin {"count", "zero"} /\ pc'[p] \notin {"count", "zero"}
                    /\ pc'[p] = "merging" => CallMerger(p)
<1>1. Invoke(p) => Same
  BY EntryOK DEF Invoke
<1>2. Load(p) \/ LockWrite(p) \/ AwaitReaders(p) \/ LockRead(p) => Same
  BY DEF Load, LockWrite, AwaitReaders, LockRead
<1>3. Retry(p) \/ ReadValue(p) \/ CallMerger(p) \/ UnlockBucket(p) => Same
  BY DEF Retry, RetryFrom, ReadValue, CallMerger, UnlockBucket
<1>4. CheckGrowth(p) \/ LockMutex(p) \/ Begin(p) \/ AwaitNext(p) \/ Publish(p) => Same
  BY DEF CheckGrowth, LockMutex, Begin, AwaitNext, Publish
<1>5. UnlockNext(p) => Same
  BY DEF UnlockNext
<1>55. LeaveLoop(p) => Same
  BY DEF LeaveLoop
<1>6. ReadSize(p) \/ VisitBucket(p) \/ StopRange(p) \/ Return(p) => Same
  BY DEF ReadSize, VisitBucket, StopRange, Return
<1>7. RecheckResize(p) \/ RecheckClear(p) => Same
  BY DEF Quiet, Rehashes, Unlinks, RecheckResize, RecheckClear, Abandon
<1>8. Same
  BY <1>1, <1>2, <1>3, <1>4, <1>5, <1>55, <1>6, <1>7 DEF Quiet, Step, Stores
<1>9. Uncounted' = Uncounted
  BY <1>8, UncountedStays DEF Quiet
<1>10. Linked' = Linked
  BY <1>8 DEF Linked
<1>. QED BY <1>8, <1>9, <1>10 DEF Visible

\* Every step but a put and the store of size 0 leaves the dictionary alone.
LEMMA DictStays ==
  ASSUME SeenInv, NEW p \in Procs, Invoke(p) \/ Step(p), ~Puts(p), ~StoreZero(p)
  PROVE  Visible' = Visible /\ Dict' = Dict /\ size' = size
<1>1. Visible' = Visible
  BY QuietSame, InsertSame, RehashSame, UnlinkSame DEF SeenInv, Quiet, Stores, Puts
<1>2. size' = size
  <2>1. Quiet(p) \/ Insert(p) \/ Rehashes(p) \/ Unlinks(p)
    BY DEF Quiet, Stores, Puts
  <2>2. Insert(p) \/ Rehashes(p) \/ Unlinks(p) => size' = size
    BY DEF Insert, Rehashes, RecheckResize, Rehash, Unlinks, RecheckClear, Unlink
  <2>. QED BY <2>1, <2>2, QuietSame DEF SeenInv
<1>. QED BY <1>1, <1>2, DictIsTable

-----------------------------------------------------------------------------
(* What the dictionary says of the key a goroutine works on.                *)

\* What a goroutine finds in its bucket is what the dictionary has.
LEMMA FoundIsDict ==
  ASSUME SeenInv, NEW p \in Procs,
         pc[p] \in {"reading", "locked", "merging"}, pc[p] # "merging" => StillCurrent(p)
  PROVE  /\ req[p].key \in Keys
         /\ \A x \in Found(p) : Dict[req[p].key] = x.val /\ x.val # NoVal
         /\ Found(p) = {} => Dict[req[p].key] = NoVal
<1>. USE DEF SeenInv
<1>. DEFINE s == KeySlot(p)
<1>1. /\ req[p].key \in Keys /\ s = BucketOf(tab, req[p].key) /\ s \in Slots /\ s[1] = tab
      /\ Writes(p, s) \/ Reads(p, s)
      /\ pc[p] \notin SweepPCs
  <2>1. CASE pc[p] = "reading"
    <3>1. tbl[p] = tab /\ tab \in Tables
      BY <2>1 DEF StillCurrent, BaseInv, TypeInv, TypeOK
    <3>2. req[p].key \in Keys
      BY <2>1, RequestFields DEF BaseInv, TypeInv, TypeOK, ControlOK
    <3>. QED BY <2>1, <3>1, <3>2, BucketIsSlot DEF KeySlot, BucketOf, Reads, SweepPCs
  <2>2. CASE pc[p] \in {"locked", "merging"}
    BY <2>2, KeyBucket
  <2>. QED BY <2>1, <2>2
<1>2. \A x : BucketOf(tab, x.key) = s => (x \in Visible <=> x \in chain[s])
  <2>1. pc[p] # "count"
    OBVIOUS
  <2>. HIDE DEF s
  <2>. QED BY <1>1, <2>1, AtBucket
<1>3. \A x : x \in Found(p) <=> x \in Visible /\ x.key = req[p].key
  BY <1>1, <1>2 DEF Found
<1>4. IsMap(Visible) /\ Dict = TableOf(Visible)
  BY VisibleIsMap, DictIsTable
<1>5. \A x \in Found(p) : Dict[req[p].key] = x.val /\ x.val # NoVal
  BY <1>3, <1>4, TableOfMap
<1>6. Found(p) = {} => Dict[req[p].key] = NoVal
  BY <1>1, <1>3, <1>4, TableOfMap
<1>. QED BY <1>1, <1>5, <1>6

\* A put overwrites a key that is there, merges what it has read, or counts a
\* key that is not there.
LEMMA KeyAtPut ==
  ASSUME SeenInv, NEW p \in Procs
  PROVE  /\ Overwrite(p) => Dict[req[p].key] # NoVal
         /\ StoreMerged(p) => Dict[req[p].key] = got[p] /\ got[p] # NoVal
         /\ Count(p) => Dict[req[p].key] = NoVal
<1>. USE DEF SeenInv
<1>1. ASSUME Overwrite(p) PROVE Dict[req[p].key] # NoVal
  <2>1. pc[p] = "locked" /\ StillCurrent(p) /\ Found(p) # {}
    BY <1>1 DEF Overwrite, Goto
  <2>. QED BY <2>1, FoundIsDict
<1>2. ASSUME StoreMerged(p) PROVE Dict[req[p].key] = got[p] /\ got[p] # NoVal
  <2>. DEFINE x == [key |-> req[p].key, val |-> got[p]]
  <2>1. pc[p] = "merging" /\ x \in chain[KeySlot(p)]
    BY <1>2 DEF StoreMerged, Goto, HeldInv
  <2>2. x \in Found(p) /\ x.val = got[p]
    BY <2>1 DEF Found
  <2>. QED BY <2>1, <2>2, FoundIsDict
<1>3. ASSUME Count(p) PROVE Dict[req[p].key] = NoVal
  <2>1. pc[p] = "count"
    BY <1>3 DEF Count, Goto
  <2>2. /\ req[p].key \in Keys /\ KeySlot(p) = BucketOf(tab, req[p].key)
        /\ KeySlot(p) \in Slots /\ KeySlot(p)[1] = tab
        /\ Writes(p, KeySlot(p)) /\ pc[p] \notin SweepPCs
    BY <2>1, KeyBucket
  <2>3. \A x : BucketOf(tab, x.key) = KeySlot(p) /\ req[p].key = x.key => x \notin Visible
    BY <2>1, <2>2, AtBucket
  <2>4. ~ \E x \in Visible : x.key = req[p].key
    BY <2>2, <2>3
  <2>. QED BY <2>2, <2>4, VisibleIsMap, DictIsTable, TableOfMap
<1>. QED BY <1>1, <1>2, <1>3

-----------------------------------------------------------------------------
(* The invariants are kept.                                                 *)

\* Nobody clears while a goroutine is at its change of a key.
LEMMA NoZeroing ==
  ASSUME SeenInv, NEW p \in Procs, Stores(p) \/ Count(p)
  PROVE  /\ ~Zeroing /\ ~Zeroing' /\ gone = {} /\ gone' = {}
         /\ KeySlot(p) \in Slots /\ Writes(p, KeySlot(p))
<1>. USE DEF SeenInv
<1>1. /\ pc[p] \in {"locked", "merging", "count"} /\ (pc[p] = "locked" => StillCurrent(p))
      /\ gone' = gone /\ pc'[p] # "zero"
  BY DEF Stores, Overwrite, StoreMerged, Insert, Count, Goto, BaseInv, TypeInv, TypeOK
<1>2. /\ KeySlot(p) \in Slots /\ KeySlot(p)[1] = tab
      /\ Writes(p, KeySlot(p)) /\ pc[p] \notin SweepPCs
  BY <1>1, KeyBucket
<1>3. ~Zeroing /\ gone = {}
  BY <1>2, AtBucket
<1>4. \A q \in Procs : q # p => pc'[q] = pc[q]
  BY OthersKeep DEF Stores, Step, BaseInv, TypeInv
<1>. QED BY <1>1, <1>2, <1>3, <1>4 DEF Zeroing

\* Nodes stay either linked or held by one Clear.
LEMMA ClearNext ==
  ASSUME SeenInv, NEW p \in Procs, Invoke(p) \/ Step(p)
  PROVE  ClearInv'
<1>. USE DEF SeenInv
<1>0. \A q \in Procs : q # p => pc'[q] = pc[q]
  BY OthersKeep DEF BaseInv, TypeInv
<1>1. CASE Quiet(p)
  <2>1. Zeroing' <=> Zeroing
    BY <1>0, <1>1, QuietSame DEF Zeroing
  <2>. QED BY <1>1, <2>1, QuietSame DEF ClearInv
<1>2. CASE Stores(p) \/ Count(p)
  BY <1>2, NoZeroing DEF ClearInv
<1>3. CASE Rehashes(p)
  <2>1. pc[p] = "recheck" /\ pc'[p] = "publish"
    BY <1>3 DEF Rehashes, RecheckResize, Rehash, Goto, BaseInv, TypeInv, TypeOK
  <2>2. ~Zeroing' /\ gone' = {}
    BY <1>0, <1>3, <2>1, SweeperSees, RehashSame DEF Zeroing
  <2>. QED BY <2>2 DEF ClearInv
<1>4. CASE Unlinks(p)
  <2>1. pc'[p] = "zero"
    BY <1>4 DEF Unlinks, RecheckClear, Unlink, Goto, BaseInv, TypeInv, TypeOK
  <2>2. \A x, y \in Linked : x.key = y.key => x = y
    BY DEF Linked, PlaceInv, WellPlaced
  <2>. QED BY <1>4, <2>1, <2>2, UnlinkSame DEF ClearInv, Zeroing
<1>5. CASE StoreZero(p)
  <2>1. Linked = {} /\ gone' = {} /\ chain' = chain
    BY <1>5 DEF StoreZero, Goto, Zeroing, ClearInv
  <2>. QED BY <2>1 DEF ClearInv, Linked
<1>. QED BY <1>1, <1>2, <1>3, <1>4, <1>5 DEF Quiet

\* What a goroutine holds stays in its bucket.
LEMMA HeldNext ==
  ASSUME SeenInv, NEW p \in Procs, Invoke(p) \/ Step(p)
  PROVE  HeldInv'
<1>. USE DEF SeenInv, BaseInv, TypeInv, TypeOK
<1>. DEFINE Holds(q) ==
       /\ pc[q] = "count" =>
            [key |-> req[q].key, val |-> req[q].val] \in chain[KeySlot(q)]
       /\ pc[q] = "merging" =>
            /\ req[q].op = "Merge"
            /\ [key |-> req[q].key, val |-> got[q]] \in chain[KeySlot(q)]
<1>1. ASSUME NEW q \in Procs, q # p PROVE Holds(q)'
  <2>1. /\ pc'[q] = pc[q] /\ req'[q] = req[q] /\ got'[q] = got[q] /\ tbl'[q] = tbl[q]
    BY <1>1, OthersKeep
  <2>2. KeySlot(q)' = KeySlot(q)
    BY <2>1 DEF KeySlot, BucketOf
  <2>3. Holds(q)
    BY DEF HeldInv
  <2>4. CASE pc[q] \notin {"count", "merging"}
    BY <2>1, <2>4
  <2>5. CASE pc[q] \in {"count", "merging"}
    <3>1. /\ KeySlot(q) \in Slots /\ Writes(q, KeySlot(q)) /\ tbl[q] = tab
      BY <2>5, KeyBucket DEF TableInv, CheckedTableIsCurrent
    <3>2. chain'[KeySlot(q)] = chain[KeySlot(q)]
      <4>1. CASE Stores(p)
        <5>1. KeySlot(p) \in Slots /\ Writes(p, KeySlot(p))
          BY <4>1, NoZeroing
        <5>2. KeySlot(p) # KeySlot(q)
          BY <1>1, <3>1, <5>1 DEF LockInv
        <5>3. chain' = [chain EXCEPT ![KeySlot(p)] = (@ \ Found(p)) \cup {StoredNode(p)}]
          BY <4>1, StoreEffect
        <5>. QED BY <3>1, <5>2, <5>3
      <4>2. CASE Count(p) \/ StoreZero(p)
        BY <4>2 DEF Count, StoreZero
      <4>3. CASE Rehashes(p) \/ Unlinks(p)
        <5>1. pc[p] = "recheck"
          BY <4>3 DEF Rehashes, RecheckResize, Rehash, Unlinks, RecheckClear, Unlink, Goto
        <5>2. tbl[p] = tab
          BY <5>1 DEF TableInv, CheckedTableIsCurrent
        <5>. QED BY <1>1, <2>5, <3>1, <5>1, <5>2, SweeperIsAlone
      <4>4. CASE Quiet(p)
        BY <4>4, QuietSame
      <4>. QED BY <4>1, <4>2, <4>3, <4>4 DEF Quiet
    <3>. QED BY <2>1, <2>2, <2>3, <3>2
  <2>. QED BY <2>4, <2>5
<1>2. Holds(p)'
  <2>1. CASE Insert(p)
    <3>1. pc[p] = "locked" /\ pc'[p] = "count" /\ req' = req /\ tbl' = tbl
      BY <2>1 DEF Insert, Goto, call, locals
    <3>2. StoredNode(p) = [key |-> req[p].key, val |-> req[p].val]
      BY <3>1 DEF StoredNode
    <3>3. KeySlot(p)' = KeySlot(p)
      BY <3>1 DEF KeySlot, BucketOf
    <3>. QED BY <2>1, <3>1, <3>2, <3>3, InsertSame
  <2>2. CASE CallMerger(p)
    <3>1. /\ pc[p] = "locked" /\ StillCurrent(p) /\ req[p].op = "Merge" /\ pc'[p] = "merging"
          /\ chain' = chain /\ req' = req /\ tbl' = tbl
      BY <2>2 DEF CallMerger, Goto, call, table
    <3>2. PICK x \in Found(p) : got'[p] = x.val
      BY <2>2 DEF CallMerger
    <3>3. KeySlot(p)' = KeySlot(p) /\ KeySlot(p) \in Slots
      BY <3>1, KeyBucket DEF KeySlot, BucketOf
    <3>4. x \in Nodes /\ x.key = req[p].key /\ x \in chain[KeySlot(p)]
      BY <3>2, <3>3 DEF Found
    <3>5. x = [key |-> x.key, val |-> x.val]
      BY <3>4 DEF Nodes
    <3>. QED BY <3>1, <3>2, <3>3, <3>4, <3>5
  <2>3. CASE ~Insert(p) /\ ~CallMerger(p)
    <3>1. CASE Quiet(p)
      BY <2>3, <3>1, QuietSame
    <3>2. CASE ~Quiet(p)
      <4>1. pc'[p] \notin {"count", "merging"}
        BY <2>3, <3>2 DEF Quiet, Stores, Overwrite, StoreMerged, Count, Rehashes,
           RecheckResize, Rehash, Unlinks, RecheckClear, Unlink, StoreZero, Goto
      <4>. QED BY <4>1
    <3>. QED BY <3>1, <3>2
  <2>. QED BY <2>1, <2>2, <2>3
<1>. QED BY <1>1, <1>2 DEF HeldInv, KeySlot, BucketOf

\* A put adds its key to the keys that are there.
LEMMA PresentAfterPut ==
  ASSUME SeenInv, NEW p \in Procs, Puts(p)
  PROVE  /\ Dict' = [Dict EXCEPT ![req[p].key] = StoredNode(p).val]
         /\ Present(Dict') = Present(Dict) \cup {req[p].key}
<1>1. StoredNode(p) \in Nodes /\ Visible' = WithNode(Visible, StoredNode(p))
  BY PutEffect
<1>2. StoredNode(p).key = req[p].key
  BY DEF StoredNode
<1>. QED BY <1>1, <1>2, VisibleIsMap, TableWithNode, DictIsTable

\* The counter follows the keys: only the count of a new key adds one.
LEMMA SizeNext ==
  ASSUME SeenInv, SizeInv, NEW p \in Procs, Invoke(p) \/ Step(p)
  PROVE  SizeInv'
<1>. DEFINE P == Present(Dict)
            k == req[p].key
<1>1. CASE Overwrite(p) \/ StoreMerged(p)
  <2>1. Puts(p) /\ size' = size /\ pc[p] \in {"locked", "merging"}
        /\ (pc[p] = "locked" => StillCurrent(p))
    BY <1>1 DEF Puts, Overwrite, StoreMerged, Goto
  <2>2. k \in P
    BY <1>1, <2>1, KeyAtPut, KeyBucket DEF Present, SeenInv
  <2>3. Present(Dict') = P \cup {k}
    BY <2>1, PresentAfterPut
  <2>4. Present(Dict') = P
    BY <2>2, <2>3
  <2>. HIDE DEF P
  <2>5. P = Present(Dict)
    BY DEF P
  <2>. QED BY <2>1, <2>4, <2>5 DEF SizeInv
<1>2. CASE Count(p)
  <2>1. Puts(p) /\ size' = size + 1
    BY <1>2 DEF Puts, Count
  <2>2. k \notin P
    BY <1>2, KeyAtPut DEF Present
  <2>3. Present(Dict') = P \cup {k}
    BY <2>1, PresentAfterPut
  <2>4. IsFiniteSet(P) /\ size = Cardinality(P)
    BY DEF SizeInv
  <2>. HIDE DEF P, k
  <2>5. IsFiniteSet(P \cup {k}) /\ Cardinality(P \cup {k}) = Cardinality(P) + 1
    BY <2>2, <2>4, FS_AddElement
  <2>. QED BY <2>1, <2>3, <2>4, <2>5 DEF SizeInv
<1>3. CASE StoreZero(p)
  <2>1. size' = 0 /\ Present(Dict') = {}
    BY <1>3, ZeroEffect
  <2>. QED BY <2>1, FS_EmptySet DEF SizeInv
<1>4. CASE ~Puts(p) /\ ~StoreZero(p)
  BY <1>4, DictStays DEF SizeInv
<1>. QED BY <1>1, <1>2, <1>3, <1>4 DEF Puts

\* A step leaves the answers and the histories of the others alone, but for
\* the store of size 0, after which no key has stayed in the map.
LEMMA OthersHistory ==
  ASSUME TypeOK, NEW p \in Procs, Invoke(p) \/ Step(p), NEW q \in Procs, q # p
  PROVE  /\ ret'[q] = ret[q] /\ seen'[q] = seen[q]
         /\ ~StoreZero(p) => steady'[q] = steady[q]
<1>. USE DEF TypeOK, call, history, ReturnWith, ReportNodes
<1>. DEFINE Same == /\ ret'[q] = ret[q] /\ seen'[q] = seen[q]
                    /\ ~StoreZero(p) => steady'[q] = steady[q]
<1>1. Invoke(p) => Same
  BY DEF Invoke
<1>2. Load(p) \/ LockWrite(p) \/ AwaitReaders(p) \/ LockRead(p) \/ Retry(p) => Same
  BY DEF Load, LockWrite, AwaitReaders, LockRead, Retry
<1>3. ReadValue(p) \/ CallMerger(p) \/ Overwrite(p) \/ StoreMerged(p) \/ Insert(p) => Same
  BY DEF ReadValue, CallMerger, Overwrite, StoreMerged, Insert
<1>4. Count(p) \/ UnlockBucket(p) \/ CheckGrowth(p) \/ LockMutex(p) \/ Begin(p) => Same
  BY DEF Count, UnlockBucket, CheckGrowth, LockMutex, Begin
<1>5. AwaitNext(p) \/ Publish(p) \/ StoreZero(p) \/ UnlockNext(p) \/ LeaveLoop(p) => Same
  BY DEF AwaitNext, Publish, StoreZero, UnlockNext, LeaveLoop
<1>6. RecheckResize(p) \/ RecheckClear(p) => Same
  BY DEF RecheckResize, Rehash, RecheckClear, Unlink, Abandon
<1>7. ReadSize(p) \/ VisitBucket(p) \/ StopRange(p) \/ Return(p) => Same
  BY DEF ReadSize, VisitBucket, StopRange, Return
<1>. QED BY <1>1, <1>2, <1>3, <1>4, <1>5, <1>6, <1>7 DEF Step

\* A Range that visits a bucket reports the keys of the bucket that are in the
\* map, each with the value the map has.
LEMMA VisitReports ==
  ASSUME SeenInv, NEW p \in Procs, pc[p] = "visit", StillCurrent(p)
  PROVE  /\ LoopSlot(p) \in Slots
         /\ \A x \in chain[LoopSlot(p)] : <<x.key, x.val>> \in Pairs(Dict)
         /\ \A k \in Present(Dict) :
              Hash[k] % tbl[p] = idx[p] => \E x \in chain[LoopSlot(p)] : x.key = k
<1>. USE DEF SeenInv
<1>. DEFINE s == LoopSlot(p)
<1>1. tbl[p] = tab /\ s \in Slots /\ s[1] = tab /\ s = <<tab, idx[p]>>
  <2>1. tbl[p] = tab /\ idx[p] < tbl[p]
    BY DEF StillCurrent, BaseInv, TypeInv, ControlOK
  <2>. QED BY <2>1, LoopIsSlot DEF BaseInv, TypeInv, LoopSlot
<1>2. /\ Reads(p, s) /\ pc[p] \notin SweepPCs /\ pc[p] # "count"
  BY DEF Reads, SweepPCs
<1>. HIDE DEF s
<1>3. /\ \A x \in chain[s] : BucketOf(tab, x.key) = s
      /\ \A x : BucketOf(tab, x.key) = s => (x \in Visible <=> x \in chain[s])
  BY <1>1, <1>2, AtBucket
<1>4. \A x \in chain[s] : <<x.key, x.val>> \in Pairs(Dict)
  BY <1>3, VisibleIsMap, PairsOfMap, DictIsTable
<1>5. ASSUME NEW k \in Present(Dict), Hash[k] % tab = idx[p]
      PROVE  \E x \in chain[s] : x.key = k
  <2>1. PICK x \in Visible : x.key = k
    BY VisibleIsMap, PairsOfMap, DictIsTable
  <2>2. BucketOf(tab, x.key) = s
    BY <1>1, <1>5, <2>1 DEF BucketOf
  <2>. QED BY <1>3, <2>1, <2>2
<1>. QED BY <1>1, <1>4, <1>5 DEF s

\* The part of RangeInv that is about the buckets q's Range has passed.
Passed(q) ==
  pc[q] \in {"rnext", "visit"} =>
    \A k \in steady[q] : Hash[k] % tbl[q] < idx[q] => k \in {x[1] : x \in seen[q]}

\* When a Range leaves a bucket it has reported what stayed in it.
LEMMA VisitPasses ==
  ASSUME SeenInv, RangeInv, NEW p \in Procs, VisitBucket(p)
  PROVE  /\ seen' = [seen EXCEPT ![p] =
                       @ \cup {<<x.key, x.val>> : x \in chain[LoopSlot(p)]}]
         /\ \A k \in steady[p] :
              Hash[k] % tbl[p] < idx[p] + 1 => k \in {x[1] : x \in seen'[p]}
<1>. USE DEF SeenInv, BaseInv, TypeInv, TypeOK
<1>1. /\ pc[p] = "visit" /\ StillCurrent(p)
      /\ seen' = [seen EXCEPT ![p] = @ \cup {<<x.key, x.val>> : x \in chain[LoopSlot(p)]}]
  BY DEF VisitBucket, Goto, ReportNodes
<1>2. ASSUME NEW k \in steady[p], Hash[k] % tbl[p] < idx[p] + 1
      PROVE  k \in {x[1] : x \in seen'[p]}
  <2>1. Hash[k] % tbl[p] \in Nat
    BY HashAssumption, TableSizes
  <2>2. CASE Hash[k] % tbl[p] < idx[p]
    <3>1. k \in {x[1] : x \in seen[p]}
      BY <1>1, <2>2 DEF RangeInv
    <3>. QED BY <1>1, <3>1
  <2>3. CASE Hash[k] % tbl[p] = idx[p]
    <3>1. PICK x \in chain[LoopSlot(p)] : x.key = k
      BY <1>1, <2>3, VisitReports DEF RangeInv
    <3>2. <<k, x.val>> \in seen'[p]
      BY <1>1, <3>1
    <3>3. k = <<k, x.val>>[1]
      OBVIOUS
    <3>. QED BY <3>2, <3>3
  <2>4. Hash[k] % tbl[p] < idx[p] \/ Hash[k] % tbl[p] = idx[p]
    BY <1>2, <2>1
  <2>. QED BY <2>2, <2>3, <2>4
<1>. QED BY <1>1, <1>2

\* A Range that goes on to the next bucket has reported the one it leaves.
LEMMA PassedNext ==
  ASSUME SeenInv, RangeInv, NEW p \in Procs, Invoke(p) \/ Step(p), NEW q \in Procs
  PROVE  Passed(q)'
<1>. USE DEF SeenInv, BaseInv, TypeInv, TypeOK
<1>0. Passed(q)
  BY DEF RangeInv, Passed
<1>1. CASE StoreZero(p)
  <2>1. steady'[q] = {}
    BY <1>1, ZeroEffect
  <2>. QED BY <2>1 DEF Passed
<1>2. CASE q # p /\ ~StoreZero(p)
  BY <1>0, <1>2, OthersKeep, OthersHistory DEF Passed
<1>3. CASE q = p /\ ~StoreZero(p)
  <2>1. CASE Load(p)
    <3>1. idx'[p] = 0 /\ tbl'[p] = tab
      BY <2>1 DEF Load
    <3>2. \A k \in Keys : Hash[k] % tab \in Nat
      BY HashAssumption, TableSizes
    <3>3. steady'[p] \subseteq Keys
      BY <2>1 DEF Load, history
    <3>4. \A k \in Keys : ~(Hash[k] % tab < 0)
      BY <3>2
    <3>. QED BY <1>3, <3>1, <3>3, <3>4 DEF Passed
  <2>2. CASE LockRead(p)
    <3>1. UNCHANGED <<tbl, idx, seen, steady>>
      BY <2>2 DEF LockRead, locals, history
    <3>2. pc'[p] \in {"rnext", "visit"} => pc[p] \in {"rnext", "visit"}
      BY <2>2 DEF LockRead, Goto
    <3>. QED BY <1>0, <1>3, <3>1, <3>2 DEF Passed
  <2>3. CASE VisitBucket(p)
    <3>1. tbl' = tbl /\ steady' = steady /\ idx'[p] = idx[p] + 1
      BY <2>3 DEF VisitBucket
    <3>. QED BY <1>3, <2>3, <3>1, VisitPasses DEF Passed
  <2>4. ASSUME ~Load(p), ~LockRead(p), ~VisitBucket(p)
        PROVE  pc'[p] \notin {"rnext", "visit"}
    <3>. USE DEF Goto
    <3>1. Invoke(p) => pc'[p] \notin {"rnext", "visit"}
      BY EntryOK DEF Invoke
    <3>2. LockWrite(p) \/ AwaitReaders(p) \/ Retry(p) \/ ReadValue(p) \/ CallMerger(p)
            => pc'[p] \notin {"rnext", "visit"}
      BY DEF LockWrite, AwaitReaders, Retry, RetryFrom, ReadValue, CallMerger
    <3>3. Overwrite(p) \/ StoreMerged(p) \/ Insert(p) \/ Count(p) \/ UnlockBucket(p)
            => pc'[p] \notin {"rnext", "visit"}
      BY DEF Overwrite, StoreMerged, Insert, Count, UnlockBucket
    <3>4. CheckGrowth(p) \/ LockMutex(p) \/ Begin(p) \/ AwaitNext(p) \/ Publish(p)
            => pc'[p] \notin {"rnext", "visit"}
      BY DEF CheckGrowth, LockMutex, Begin, AwaitNext, Publish
    <3>5. RecheckResize(p) \/ RecheckClear(p) => pc'[p] \notin {"rnext", "visit"}
      BY DEF RecheckResize, Rehash, RecheckClear, Unlink, Abandon
    <3>6. UnlockNext(p) \/ LeaveLoop(p) => pc'[p] \notin {"rnext", "visit"}
      BY DEF UnlockNext, LeaveLoop
    <3>7. ReadSize(p) \/ StopRange(p) \/ Return(p) => pc'[p] \notin {"rnext", "visit"}
      BY DEF ReadSize, StopRange, Return
    <3>. QED BY <1>3, <2>4, <3>1, <3>2, <3>3, <3>4, <3>5, <3>6, <3>7 DEF Step
  <2>. QED BY <1>3, <2>1, <2>2, <2>3, <2>4 DEF Passed
<1>. QED BY <1>1, <1>2, <1>3

\* A step of p leaves p's steady keys alone, or begins or ends the call.
LEMMA OwnSteady ==
  ASSUME TypeOK, NEW p \in Procs, Invoke(p) \/ Step(p), ~StoreZero(p)
  PROVE  steady'[p] \in {steady[p], Present(Dict), {}}
<1>. USE DEF TypeOK, history
<1>. DEFINE Same == steady'[p] \in {steady[p], Present(Dict), {}}
<1>1. Invoke(p) => Same
  BY DEF Invoke
<1>2. Load(p) \/ LockWrite(p) \/ AwaitReaders(p) \/ LockRead(p) \/ Retry(p) => Same
  BY DEF Load, LockWrite, AwaitReaders, LockRead, Retry
<1>3. ReadValue(p) \/ CallMerger(p) \/ Overwrite(p) \/ StoreMerged(p) \/ Insert(p) => Same
  BY DEF ReadValue, CallMerger, Overwrite, StoreMerged, Insert
<1>4. Count(p) \/ UnlockBucket(p) \/ CheckGrowth(p) \/ LockMutex(p) \/ Begin(p) => Same
  BY DEF Count, UnlockBucket, CheckGrowth, LockMutex, Begin
<1>5. AwaitNext(p) \/ Publish(p) \/ UnlockNext(p) \/ LeaveLoop(p) => Same
  BY DEF AwaitNext, Publish, UnlockNext, LeaveLoop
<1>6. RecheckResize(p) \/ RecheckClear(p) => Same
  BY DEF RecheckResize, Rehash, RecheckClear, Unlink, Abandon
<1>7. ReadSize(p) \/ VisitBucket(p) \/ StopRange(p) \/ Return(p) => Same
  BY DEF ReadSize, VisitBucket, StopRange, Return
<1>. QED BY <1>1, <1>2, <1>3, <1>4, <1>5, <1>6, <1>7 DEF Step

\* What has stayed in the map is there.
LEMMA RangeNext ==
  ASSUME SeenInv, RangeInv, NEW p \in Procs, Invoke(p) \/ Step(p)
  PROVE  RangeInv'
<1>1. ASSUME NEW q \in Procs PROVE steady'[q] \subseteq Present(Dict')
  <2>1. CASE StoreZero(p)
    BY <2>1, ZeroEffect
  <2>2. CASE ~StoreZero(p)
    <3>1. steady'[q] \subseteq Present(Dict)
      BY <2>2, OwnSteady, OthersHistory DEF RangeInv, SeenInv, BaseInv, TypeInv
    <3>2. Present(Dict) \subseteq Present(Dict')
      BY <2>2, PresentAfterPut, DictStays
    <3>. QED BY <3>1, <3>2
  <2>. QED BY <2>1, <2>2
<1>2. \A q \in Procs : Passed(q)'
  BY PassedNext
<1>. QED BY <1>1, <1>2 DEF RangeInv, Passed, Present

-----------------------------------------------------------------------------
(* How a call's status moves.                                               *)

\* The steps at which a call takes effect, and those between.
LastVisit(p) == VisitBucket(p) /\ ~More(p)
Effects(p) ==
  Puts(p) \/ ReadValue(p) \/ ReadSize(p) \/ StoreZero(p) \/ StopRange(p) \/ LastVisit(p)
Silent(p) == Step(p) /\ ~Effects(p) /\ ~VisitBucket(p) /\ ~Return(p)

\* A step of p changes nobody else's status.
LEMMA OthersStatus ==
  ASSUME TypeOK, NEW p \in Procs, Invoke(p) \/ Step(p), NEW q \in Procs, q # p
  PROVE  Status(q)' = Status(q)
  BY OthersKeep DEF Status, Growing

\* The silent steps change neither the status nor the call.
LEMMA SilentStatus ==
  ASSUME TypeInv, NEW p \in Procs, Silent(p)
  PROVE  Status(p)' = Status(p) /\ UNCHANGED <<req, ret, seen, steady>> /\ pc'[p] # "size"
<1>. USE DEF TypeInv, TypeOK, ControlOK, WritePCs, SweepPCs, Goto, call, history
<1>. DEFINE Same == /\ Status(p)' = Status(p)
                    /\ UNCHANGED <<req, ret, seen, steady>> /\ pc'[p] # "size"
<1>1. Load(p) => Same
  BY DEF Load, Status, Growing
<1>2. LockWrite(p) => Same
  BY DEF LockWrite, Status, Growing
<1>3. AwaitReaders(p) => Same
  BY DEF AwaitReaders, Status, Growing
<1>4. LockRead(p) => Same
  BY DEF LockRead, Status, Growing
<1>5. Retry(p) => Same
  BY DEF Retry, RetryFrom, Status, Growing
<1>6. CallMerger(p) \/ Insert(p) => Same
  BY DEF CallMerger, Insert, Status, Growing
<1>7. UnlockBucket(p) \/ CheckGrowth(p) => Same
  BY DEF UnlockBucket, CheckGrowth, Status, Growing
<1>8. LockMutex(p) => Same
  BY DEF LockMutex, Status, Growing
<1>9. Begin(p) => Same
  BY DEF Begin, Status, Growing
<1>10. AwaitNext(p) => Same
  BY DEF AwaitNext, Status, Growing
<1>11. RecheckResize(p) => Same
  BY DEF RecheckResize, Rehash, Abandon, Status, Growing
<1>12. Publish(p) => Same
  BY DEF Publish, Status, Growing
<1>13. RecheckClear(p) => Same
  BY DEF RecheckClear, Unlink, Abandon, Status, Growing
<1>14. UnlockNext(p) => Same
  BY DEF UnlockNext, Status, Growing
<1>15. LeaveLoop(p) => Same
  BY DEF LeaveLoop, Status, Growing
<1>. QED BY <1>1, <1>2, <1>3, <1>4, <1>5, <1>6, <1>7, <1>8, <1>9, <1>10, <1>11, <1>12, <1>13,
            <1>14, <1>15 DEF Silent, Step, Effects, Puts

\* A call that takes effect was pending and is done.
LEMMA EffectStatus ==
  ASSUME TypeInv, NEW p \in Procs, Effects(p)
  PROVE  Status(p) = "pending" /\ Status(p)' = "done"
<1>. USE DEF TypeInv, TypeOK, ControlOK, WritePCs, SweepPCs, Goto, call
<1>1. /\ pc[p] \in {"locked", "merging", "count", "reading", "size", "zero", "visit"}
      /\ pc'[p] \in {"done", "unlock", "unlockall"}
  BY DEF Effects, Puts, Overwrite, StoreMerged, Count, ReadValue, ReadSize, StoreZero,
         StopRange, LastVisit, VisitBucket
<1>. QED BY <1>1 DEF Status, Growing

\* A visit that is not the last leaves the call pending.
LEMMA VisitStatus ==
  ASSUME TypeInv, NEW p \in Procs, VisitBucket(p), More(p)
  PROVE  Status(p) = "pending" /\ Status(p)' = "pending" /\ UNCHANGED <<req, ret>>
<1>1. pc[p] = "visit" /\ pc'[p] = "rnext"
  BY DEF VisitBucket, Goto, TypeInv, TypeOK
<1>. QED BY <1>1 DEF VisitBucket, Status, Growing

\* The statuses are a function, which a step changes at p alone.
LEMMA StatusFunction ==
  ASSUME TypeOK, NEW p \in Procs, Invoke(p) \/ Step(p), NEW s, Status(p)' = s
  PROVE  [q \in Procs |-> Status(q)'] = [[q \in Procs |-> Status(q)] EXCEPT ![p] = s]
  BY OthersStatus

\* A call without effect has no answer, whatever steps are taken.
LEMMA AnswerNext ==
  ASSUME SeenInv, AnswerInv, NEW p \in Procs, Invoke(p) \/ Step(p)
  PROVE  AnswerInv'
<1>. USE DEF SeenInv, BaseInv, TypeInv, TypeOK
<1>. DEFINE Blank(q) == /\ Status(q) # "done" => ret[q] = NoVal
                        /\ pc[q] = "size" => req[q].op = "Size"
<1>1. ASSUME NEW q \in Procs, q # p PROVE Blank(q)'
  BY <1>1, OthersKeep, OthersStatus, OthersHistory DEF AnswerInv
<1>2. Blank(p)'
  <2>1. CASE Invoke(p)
    <3>1. PICK r \in Requests :
            pc[p] = "idle" /\ pc'[p] = Entry(r.op) /\ req'[p] = r /\ ret' = ret
      BY <2>1 DEF Invoke, Goto
    <3>2. Entry(r.op) = "size" => r.op = "Size"
      BY OpsAssumption DEF Entry, AllOps, Requests
    <3>3. Status(p) # "done"
      BY <3>1 DEF Status
    <3>. QED BY <3>1, <3>2, <3>3 DEF AnswerInv
  <2>2. CASE Effects(p)
    <3>1. pc'[p] # "size"
      BY <2>2, EffectStatus DEF Effects, Puts, Overwrite, StoreMerged, Count, ReadValue,
         ReadSize, StoreZero, StopRange, LastVisit, VisitBucket, Goto
    <3>. QED BY <2>2, <3>1, EffectStatus
  <2>3. CASE VisitBucket(p) /\ More(p)
    <3>1. pc'[p] = "rnext"
      BY <2>3 DEF VisitBucket, Goto
    <3>. QED BY <2>3, <3>1, VisitStatus DEF AnswerInv
  <2>4. CASE Return(p)
    BY <2>4 DEF Return, ReturnWith, Goto
  <2>5. CASE Silent(p)
    BY <2>5, SilentStatus DEF AnswerInv
  <2>. QED BY <2>1, <2>2, <2>3, <2>4, <2>5 DEF Silent, Effects, LastVisit
<1>. QED BY <1>1, <1>2 DEF AnswerInv

-----------------------------------------------------------------------------
\* An empty map with no call under way.
LEMMA LinInit == Init => LinInv
<1>. SUFFICES ASSUME Init PROVE LinInv
  OBVIOUS
<1>1. BaseInv /\ PlaceInv
  BY BaseInit, PlaceInit
<1>2. Linked = {} /\ gone = {} /\ Visible = {}
  BY DEF Init, Linked, Visible
<1>3. Dict = EmptyDict /\ Present(Dict) = {}
  BY <1>2, DictIsTable, TableOfNone DEF Present, EmptyDict
<1>4. ClearInv
  BY <1>2 DEF ClearInv
<1>5. HeldInv
  BY DEF Init, HeldInv
<1>6. AnswerInv
  BY DEF Init, AnswerInv
<1>7. RangeInv
  BY DEF Init, RangeInv
<1>8. SizeInv
  BY <1>3, FS_EmptySet DEF Init, SizeInv
<1>. QED BY <1>1, <1>4, <1>5, <1>6, <1>7, <1>8 DEF LinInv, SeenInv

\* Every step keeps the invariant.
LEMMA LinNext == LinInv /\ [Next]_vars => LinInv'
<1>. SUFFICES ASSUME LinInv, [Next]_vars PROVE LinInv'
  OBVIOUS
<1>. USE DEF LinInv
<1>1. BaseInv' /\ PlaceInv'
  BY BaseNext, PlaceNext DEF SeenInv
<1>2. CASE UNCHANGED vars
  <2>. USE <1>2 DEF vars, table, call, locals, history
  <2>1. Linked' = Linked /\ Uncounted' = Uncounted /\ (Zeroing' <=> Zeroing)
    BY DEF Linked, Uncounted, Zeroing
  <2>2. Dict' = Dict
    BY <2>1 DEF Dict, Visible
  <2>3. ClearInv'
    BY <2>1 DEF SeenInv, ClearInv
  <2>4. HeldInv'
    BY DEF SeenInv, HeldInv, KeySlot, BucketOf
  <2>5. AnswerInv'
    BY DEF AnswerInv, Status, Growing
  <2>6. RangeInv'
    BY <2>2 DEF RangeInv
  <2>7. SizeInv'
    BY <2>2 DEF SizeInv
  <2>. QED BY <1>1, <2>3, <2>4, <2>5, <2>6, <2>7 DEF SeenInv
<1>3. ASSUME NEW p \in Procs, Invoke(p) \/ Step(p) PROVE LinInv'
  BY <1>1, <1>3, ClearNext, HeldNext, AnswerNext, RangeNext, SizeNext DEF SeenInv
<1>. QED BY <1>2, <1>3 DEF Next

\* The invariant holds in every state.
LEMMA LinHolds == Spec => []LinInv
  BY LinInit, LinNext, PTL DEF Spec

\* Size counts the keys in the map at every moment, during a resize and a
\* Clear as well, for any goroutines, keys, hash function and load factor.
THEOREM SizeStaysExact == Spec => []SizeIsExact
<1>1. LinInv => SizeIsExact
  BY DEF LinInv, SizeInv, SizeIsExact
<1>. QED BY <1>1, LinHolds, PTL

-----------------------------------------------------------------------------
(* The refinement.                                                          *)

\* AtomicMap has its requests and what they mean from MapAPI, too.
LEMMA SameMeaning ==
  /\ \A d, r : Atomic!After(d, r) = After(d, r) /\ Atomic!Answer(d, r) = Answer(d, r)
  /\ \A d : Atomic!Present(d) = Present(d) /\ Atomic!Pairs(d) = Pairs(d)
  /\ Atomic!Requests = Requests /\ Atomic!NoRequest = NoRequest
  /\ Atomic!EmptyDict = EmptyDict
BY DEF Atomic!After, Atomic!Answer, Atomic!Stored, Atomic!Present, Atomic!EmptyDict,
       Atomic!Pairs, Atomic!Requests, Atomic!NoRequest,
       After, Answer, Stored, Present, EmptyDict, Pairs, Requests, NoRequest

\* The call begins.
LEMMA InvokeMaps ==
  ASSUME LinInv, NEW p \in Procs, Invoke(p)
  PROVE  Atomic!Invoke(p)
<1>. DEFINE st == [q \in Procs |-> Status(q)]
<1>1. PICK r \in Requests :
        /\ pc[p] = "idle" /\ pc'[p] = Entry(r.op)
        /\ req' = [req EXCEPT ![p] = r]
        /\ steady' = [steady EXCEPT ![p] = IF r.op = "Range" THEN Present(Dict) ELSE {}]
  BY DEF Invoke, Goto, LinInv, SeenInv, BaseInv, TypeInv, TypeOK
<1>2. Status(p) = "idle"
  BY <1>1 DEF Status
<1>3. Status(p)' = "pending"
  <2>1. r.op \in AllOps /\ req'[p] = r
    BY <1>1, OpsAssumption DEF Requests, AllOps, LinInv, SeenInv, BaseInv, TypeInv, TypeOK
  <2>2. /\ pc'[p] \in {"load", "mutex", "size", "range"}
        /\ pc'[p] = "mutex" => req'[p].op = "Clear"
    BY <1>1, <2>1, EntryOK
  <2>. QED BY <2>2 DEF Status, Growing
<1>4. st[p] = "idle" /\ st' = [st EXCEPT ![p] = "pending"]
  BY <1>2, <1>3, StatusFunction DEF LinInv, SeenInv, BaseInv, TypeInv
<1>5. Dict' = Dict
  <2>1. ~Puts(p) /\ ~StoreZero(p)
    BY <1>1 DEF Puts, Overwrite, StoreMerged, Count, StoreZero, Goto
  <2>. QED BY <2>1, DictStays DEF LinInv
<1>6. UNCHANGED <<ret, seen>>
  BY DEF Invoke
<1>. QED BY <1>1, <1>4, <1>5, <1>6, SameMeaning DEF Atomic!Invoke

\* What a put leaves and answers is what its request means.
LEMMA PutMeans ==
  ASSUME LinInv, NEW p \in Procs, Puts(p)
  PROVE  /\ req[p].op \in {"Put", "Merge"}
         /\ Dict' = After(Dict, req[p])
         /\ ret' = [ret EXCEPT ![p] = Answer(Dict, req[p])]
<1>. USE DEF LinInv
<1>. DEFINE r == req[p]
            v == StoredNode(p).val
<1>1. /\ pc[p] \in {"locked", "merging", "count"} /\ (pc[p] = "locked" => StillCurrent(p))
  BY DEF Puts, Overwrite, StoreMerged, Count, Goto
<1>2. r.op \in {"Put", "Merge"}
  BY <1>1, KeyBucket DEF SeenInv
<1>3. Dict' = [Dict EXCEPT ![r.key] = v]
  BY PresentAfterPut
<1>4. Status(p) # "done" /\ ret[p] = NoVal /\ ret = [ret EXCEPT ![p] = ret[p]]
  BY EffectStatus DEF Effects, AnswerInv, SeenInv, BaseInv, TypeInv, TypeOK
<1>5. v = Stored(Dict, r) /\ ret' = [ret EXCEPT ![p] = IF r.op = "Merge" THEN v ELSE NoVal]
  <2>1. CASE Overwrite(p)
    <3>1. r.op = "Put" /\ pc[p] = "locked" /\ ret' = ret
      BY <2>1 DEF Overwrite, Goto, call
    <3>. QED BY <1>4, <3>1 DEF StoredNode, Stored
  <2>2. CASE StoreMerged(p)
    <3>1. pc[p] = "merging" /\ ret' = [ret EXCEPT ![p] = Merged[<<got[p], r.val>>]]
      BY <2>2 DEF StoreMerged, Goto, ReturnWith
    <3>2. r.op = "Merge" /\ Dict[r.key] = got[p] /\ got[p] # NoVal
      BY <2>2, <3>1, KeyAtPut DEF SeenInv, HeldInv
    <3>. QED BY <3>1, <3>2 DEF StoredNode, Stored
  <2>3. CASE Count(p)
    <3>1. pc[p] = "count" /\ ret' = [ret EXCEPT ![p] = IF r.op = "Merge" THEN r.val ELSE NoVal]
      BY <2>3 DEF Count, Goto, ReturnWith
    <3>2. Dict[r.key] = NoVal
      BY <2>3, KeyAtPut
    <3>. QED BY <3>1, <3>2 DEF StoredNode, Stored
  <2>. QED BY <2>1, <2>2, <2>3 DEF Puts
<1>. HIDE DEF v
<1>6. Dict' = After(Dict, r)
  BY <1>2, <1>3, <1>5 DEF After
<1>7. Answer(Dict, r) = IF r.op = "Merge" THEN v ELSE NoVal
  BY <1>2, <1>5 DEF Answer
<1>. QED BY <1>2, <1>5, <1>6, <1>7

\* So do the other steps at which a call takes effect.
LEMMA EffectMeans ==
  ASSUME LinInv, NEW p \in Procs, ReadValue(p) \/ ReadSize(p) \/ StoreZero(p)
  PROVE  /\ req[p].op \in {"Get", "Size", "Clear"}
         /\ Dict' = After(Dict, req[p])
         /\ ret' = [ret EXCEPT ![p] = Answer(Dict, req[p])]
<1>. USE DEF LinInv
<1>. DEFINE r == req[p]
<1>1. CASE ReadValue(p)
  <2>1. pc[p] = "reading" /\ StillCurrent(p) /\ r.op = "Get"
    BY <1>1 DEF ReadValue, Goto, SeenInv, BaseInv, TypeInv, ControlOK
  <2>2. Dict' = Dict
    <3>1. ~Puts(p) /\ ~StoreZero(p)
      BY <2>1 DEF Puts, Overwrite, StoreMerged, Count, StoreZero, Goto
    <3>. QED BY <1>1, <3>1, DictStays DEF Step
  <2>3. ReturnWith(p, Dict[r.key])
    <3>1. /\ \A x \in Found(p) : Dict[r.key] = x.val
          /\ Found(p) = {} => Dict[r.key] = NoVal
      BY <2>1, FoundIsDict
    <3>2. \/ Found(p) = {} /\ ReturnWith(p, NoVal)
          \/ \E x \in Found(p) : ReturnWith(p, x.val)
      BY <1>1 DEF ReadValue
    <3>. QED BY <3>1, <3>2
  <2>. QED BY <2>1, <2>2, <2>3 DEF ReturnWith, After, Answer
<1>2. CASE ReadSize(p)
  <2>1. pc[p] = "size" /\ r.op = "Size" /\ ret' = [ret EXCEPT ![p] = size]
    BY <1>2 DEF ReadSize, Goto, ReturnWith, AnswerInv
  <2>2. Dict' = Dict
    <3>1. ~Puts(p) /\ ~StoreZero(p)
      BY <2>1 DEF Puts, Overwrite, StoreMerged, Count, StoreZero, Goto
    <3>. QED BY <1>2, <3>1, DictStays DEF Step
  <2>. QED BY <2>1, <2>2 DEF After, Answer, SizeInv
<1>3. CASE StoreZero(p)
  <2>1. r.op = "Clear" /\ ret' = ret
    BY <1>3 DEF StoreZero, Goto, call, SeenInv, BaseInv, TypeInv, ControlOK
  <2>2. ret = [ret EXCEPT ![p] = NoVal]
    BY <1>3, EffectStatus DEF Effects, AnswerInv, SeenInv, BaseInv, TypeInv, TypeOK
  <2>. QED BY <1>3, <2>1, <2>2, ZeroEffect DEF After, Answer
<1>. QED BY <1>1, <1>2, <1>3

\* The steps at which a Put, Get, Merge, Clear or Size takes effect.
LEMMA EffectMaps ==
  ASSUME LinInv, NEW p \in Procs,
         Puts(p) \/ ReadValue(p) \/ ReadSize(p) \/ StoreZero(p)
  PROVE  Atomic!TakeEffect(p)
<1>. DEFINE st == [q \in Procs |-> Status(q)]
<1>1. /\ req[p].op \in {"Put", "Merge", "Get", "Size", "Clear"}
      /\ Dict' = After(Dict, req[p])
      /\ ret' = [ret EXCEPT ![p] = Answer(Dict, req[p])]
  BY PutMeans, EffectMeans
<1>2. Step(p) /\ Effects(p)
  BY DEF Step, Effects, Puts
<1>3. st[p] = "pending" /\ st' = [st EXCEPT ![p] = "done"]
  BY <1>2, EffectStatus, StatusFunction DEF LinInv, SeenInv, BaseInv, TypeInv
<1>4. UNCHANGED <<req, seen>>
  BY DEF Puts, Overwrite, StoreMerged, Count, ReadValue, ReadSize, StoreZero, call, history
<1>5. steady' = [q \in Procs |-> steady[q] \cap Present(Dict')]
  <2>1. CASE StoreZero(p)
    BY <2>1, ZeroEffect DEF LinInv
  <2>2. CASE ~StoreZero(p)
    <3>1. steady' = steady /\ steady = [q \in Procs |-> steady[q]]
      BY <2>2 DEF Puts, Overwrite, StoreMerged, Count, ReadValue, ReadSize, history,
         LinInv, SeenInv, BaseInv, TypeInv, TypeOK
    <3>2. \A q \in Procs : steady'[q] \subseteq Present(Dict')
      BY <1>2, RangeNext DEF LinInv, RangeInv, Present
    <3>3. \A q \in Procs : steady[q] = steady[q] \cap Present(Dict')
      BY <3>1, <3>2
    <3>. QED BY <3>1, <3>3
  <2>. QED BY <2>1, <2>2
<1>. QED BY <1>1, <1>3, <1>4, <1>5, SameMeaning DEF Atomic!TakeEffect

\* The steps at which a Range reports.
LEMMA ReportMaps ==
  ASSUME LinInv, NEW p \in Procs, VisitBucket(p) \/ StopRange(p)
  PROVE  Atomic!Report(p)
<1>. DEFINE st == [q \in Procs |-> Status(q)]
            pairs(S) == {<<x.key, x.val>> : x \in S}
<1>1. pc[p] = "visit" /\ StillCurrent(p)
  BY DEF VisitBucket, StopRange, Goto
<1>2. req[p].op = "Range" /\ UNCHANGED <<req, steady>>
  BY <1>1 DEF VisitBucket, StopRange, LinInv, SeenInv, BaseInv, TypeInv, ControlOK
<1>3. Dict' = Dict
  <2>1. ~Puts(p) /\ ~StoreZero(p)
    BY <1>1 DEF Puts, Overwrite, StoreMerged, Count, StoreZero, Goto
  <2>. QED BY <2>1, DictStays DEF LinInv, Step
<1>4. PICK S \in SUBSET chain[LoopSlot(p)] : seen' = [seen EXCEPT ![p] = @ \cup pairs(S)]
  BY DEF VisitBucket, StopRange, ReportNodes
<1>5. \E R \in SUBSET Pairs(Dict) : seen' = [seen EXCEPT ![p] = @ \cup R]
  <2>1. pairs(S) \in SUBSET Pairs(Dict)
    BY <1>1, <1>4, VisitReports DEF LinInv
  <2>. HIDE DEF pairs
  <2>. QED BY <1>4, <2>1
<1>6. CASE VisitBucket(p) /\ More(p)
  <2>1. st[p] = "pending" /\ st' = [st EXCEPT ![p] = "pending"] /\ ret' = ret
    BY <1>6, VisitStatus, StatusFunction DEF LinInv, SeenInv, BaseInv, TypeInv, Step
  <2>2. st' = st
    BY <2>1
  <2>. QED BY <1>2, <1>3, <1>5, <2>1, <2>2, SameMeaning DEF Atomic!Report
<1>7. CASE LastVisit(p) \/ StopRange(p)
  <2>1. st[p] = "pending" /\ st' = [st EXCEPT ![p] = "done"]
    BY <1>7, EffectStatus, StatusFunction
    DEF LinInv, SeenInv, BaseInv, TypeInv, Step, Effects, LastVisit
  <2>2. CASE StopRange(p)
    <3>1. ret' = [ret EXCEPT ![p] = 0]
      BY <2>2 DEF StopRange, ReturnWith
    <3>. QED BY <1>2, <1>3, <1>5, <2>1, <3>1, SameMeaning DEF Atomic!Report
  <2>3. CASE LastVisit(p)
    <3>1. ret' = [ret EXCEPT ![p] = 1]
      BY <2>3 DEF LastVisit, VisitBucket, ReturnWith
    <3>2. steady[p] \subseteq {x[1] : x \in seen'[p]}
      <4>1. /\ tbl[p] \in Nat /\ 0 < tbl[p] /\ idx[p] \in Nat /\ idx[p] + 1 >= tbl[p]
            /\ steady[p] \subseteq Keys
        BY <2>3, TableSizes DEF LastVisit, More, LinInv, SeenInv, BaseInv, TypeInv, TypeOK
      <4>2. \A k \in steady[p] : Hash[k] % tbl[p] < idx[p] + 1
        BY <4>1, HashAssumption
      <4>. QED BY <2>3, <4>2, VisitPasses DEF LastVisit, LinInv
    <3>. QED BY <1>2, <1>3, <1>5, <2>1, <3>1, <3>2, SameMeaning DEF Atomic!Report
  <2>. QED BY <1>7, <2>2, <2>3
<1>. QED BY <1>6, <1>7 DEF LastVisit

\* The call ends.
LEMMA ReturnMaps ==
  ASSUME LinInv, NEW p \in Procs, Return(p)
  PROVE  Atomic!Return(p)
<1>. DEFINE st == [q \in Procs |-> Status(q)]
<1>1. pc[p] = "done" /\ pc'[p] = "idle"
  BY DEF Return, Goto, LinInv, SeenInv, BaseInv, TypeInv, TypeOK
<1>2. Status(p) = "done" /\ Status(p)' = "idle"
  BY <1>1 DEF Status
<1>3. st[p] = "done" /\ st' = [st EXCEPT ![p] = "idle"]
  BY <1>2, StatusFunction DEF LinInv, SeenInv, BaseInv, TypeInv, Step
<1>4. Dict' = Dict
  <2>1. ~Puts(p) /\ ~StoreZero(p)
    BY <1>1 DEF Puts, Overwrite, StoreMerged, Count, StoreZero, Goto
  <2>. QED BY <2>1, DictStays DEF LinInv, Step
<1>. QED BY <1>3, <1>4, SameMeaning DEF Return, ReturnWith, Atomic!Return

\* The locking, the retries, the inserts and the resizes are no step of the
\* atomic map.
LEMMA SilentMaps ==
  ASSUME LinInv, NEW p \in Procs, Silent(p)
  PROVE  UNCHANGED Atomic!vars
<1>. DEFINE st == [q \in Procs |-> Status(q)]
<1>1. Status(p)' = Status(p) /\ UNCHANGED <<req, ret, seen, steady>>
  BY SilentStatus DEF LinInv, SeenInv, BaseInv
<1>2. st' = st
  BY <1>1, OthersStatus DEF Silent, LinInv, SeenInv, BaseInv, TypeInv
<1>3. Dict' = Dict
  BY DictStays DEF LinInv, Silent, Effects
<1>. QED BY <1>1, <1>2, <1>3 DEF Atomic!vars

\* Every step of the map is a step of the atomic map, or none.
LEMMA MapImplements == LinInv /\ [Next]_vars => [Atomic!Next]_(Atomic!vars)
<1>. SUFFICES ASSUME LinInv, [Next]_vars PROVE [Atomic!Next]_(Atomic!vars)
  OBVIOUS
<1>1. CASE UNCHANGED vars
  <2>1. Dict' = Dict
    BY <1>1 DEF vars, table, call, Dict, Visible, Linked, Uncounted
  <2>2. [q \in Procs |-> Status(q)]' = [q \in Procs |-> Status(q)]
    BY <1>1 DEF vars, call, Status, Growing
  <2>. QED BY <1>1, <2>1, <2>2 DEF vars, call, history, Atomic!vars
<1>2. ASSUME NEW p \in Procs, Invoke(p) \/ Step(p) PROVE [Atomic!Next]_(Atomic!vars)
  <2>1. \/ Atomic!Invoke(p) \/ Atomic!TakeEffect(p) \/ Atomic!Report(p) \/ Atomic!Return(p)
        \/ UNCHANGED Atomic!vars
    BY <1>2, InvokeMaps, EffectMaps, ReportMaps, ReturnMaps, SilentMaps
    DEF Silent, Effects, LastVisit
  <2>. QED BY <2>1 DEF Atomic!Next
<1>. QED BY <1>1, <1>2 DEF Next

\* Put, Get, Merge, Clear and Size of a Map (map.go) are linearizable and its
\* Range is weakly consistent, whatever resizes and Clears run at the same
\* time, for any goroutines, keys, values, merger, hash function, tables and
\* load factor.
THEOREM MapIsLinearizable == Spec => Linearizable
<1>1. Init => Atomic!Init
  <2>. SUFFICES ASSUME Init PROVE Atomic!Init
    OBVIOUS
  <2>1. Linked = {} /\ gone = {} /\ Visible = {}
    BY DEF Init, Linked, Visible
  <2>2. Dict = EmptyDict
    BY <2>1, DictIsTable, TableOfNone
  <2>. QED BY <2>2, SameMeaning DEF Init, Atomic!Init, Status
<1>. QED BY <1>1, MapImplements, LinHolds, PTL DEF Spec, Linearizable, Atomic!Spec
=============================================================================
