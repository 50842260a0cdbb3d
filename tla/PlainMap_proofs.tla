--------------------------- MODULE PlainMap_proofs ---------------------------
(***************************************************************************)
(* PlainMap implements AtomicMap: for any goroutines, keys, values and     *)
(* merger, the calls of a Plain are linearizable and its Range is weakly   *)
(* consistent.  The argument is the lock: PlainInv says who holds it, that *)
(* a writer is alone, and therefore that what Merge has read is still in   *)
(* the map when it writes, and what Range has reported when it goes on.    *)
(***************************************************************************)
EXTENDS PlainMap, TLAPS

ReadPCs == {"rlock", "reading", "visit"}
WritePCs == {"lock", "wait", "locked", "merging"}
PCs == {"idle", "done"} \cup ReadPCs \cup WritePCs

(* Types, as far as the argument needs them. *)
Shapes ==
  /\ dict \in Dicts
  /\ writer \in Procs \cup {NoProc}
  /\ readers \subseteq Procs
  /\ pc \in [Procs -> PCs]
  /\ req \in [Procs -> Requests \cup {NoRequest}]
  /\ got \in [Procs -> Vals \cup {NoVal}]
  /\ seen \in [Procs -> SUBSET (Keys \X Vals)]
  /\ steady \in [Procs -> SUBSET Keys]

(* Which calls can be where. *)
Control ==
  \A p \in Procs :
    /\ pc[p] # "idle" => req[p] \in Requests
    /\ pc[p] \in WritePCs => req[p].op \in {"Put", "Merge", "Clear"}
    /\ pc[p] = "reading" => req[p].op \in {"Get", "Size"}
    /\ pc[p] = "visit" => req[p].op = "Range"
    /\ pc[p] = "rlock" => req[p].op \in ReadOps

(* Who holds the lock, and that a writer that has it is alone. *)
Locked ==
  \A p \in Procs :
    /\ pc[p] \in {"wait", "locked", "merging"} => writer = p
    /\ pc[p] \in {"reading", "visit"} => p \in readers
    /\ pc[p] \in {"locked", "merging"} => readers = {}

(* What was read under the lock is still so, and the history is exact. *)
Fresh ==
  \A p \in Procs :
    /\ pc[p] = "merging" => /\ req[p].op = "Merge"
                            /\ got[p] = dict[req[p].key] /\ got[p] # NoVal
    /\ pc[p] = "visit" => seen[p] \subseteq Pairs(dict)
    /\ pc[p] # "visit" /\ pc[p] # "done" => seen[p] = {}
    /\ steady[p] \subseteq Present(dict)

PlainInv == Shapes /\ Control /\ Locked /\ Fresh

-----------------------------------------------------------------------------
(* A request has the fields its operation needs. *)
LEMMA RequestShape ==
  ASSUME NEW r \in Requests
  PROVE  /\ r.op \in AllOps
         /\ r.op \in {"Put", "Merge"} => r.key \in Keys /\ r.val \in Vals
         /\ r.op = "Get" => r.key \in Keys
BY OpsAssumption DEF Requests, AllOps

(* Every request leaves a dictionary a dictionary. *)
LEMMA AfterIsDict ==
  ASSUME NEW d \in Dicts, NEW r \in Requests
  PROVE  After(d, r) \in Dicts
<1>1. CASE r.op \in {"Put", "Merge"}
  <2>1. r.key \in Keys /\ r.val \in Vals
    BY <1>1, RequestShape
  <2>2. Stored(d, r) \in Vals
    BY <2>1, MergedAssumption DEF Stored, Dicts
  <2>3. After(d, r) = [d EXCEPT ![r.key] = Stored(d, r)]
    BY <1>1 DEF After
  <2> QED
    BY <2>1, <2>2, <2>3 DEF Dicts
<1>2. CASE r.op = "Clear"
  BY <1>2 DEF After, EmptyDict, Dicts
<1>3. CASE r.op \notin {"Put", "Merge", "Clear"}
  BY <1>3 DEF After
<1> QED
  BY <1>1, <1>2, <1>3

-----------------------------------------------------------------------------
(* The invariant holds at first. *)
LEMMA PlainInit == Init => PlainInv
<1> SUFFICES ASSUME Init PROVE PlainInv
  OBVIOUS
<1> USE DEF Init
<1>1. Shapes
  BY DEF Shapes, PCs, EmptyDict, Dicts
<1>2. Control
  BY DEF Control, WritePCs
<1>3. Locked
  BY DEF Locked
<1>4. Fresh
  BY DEF Fresh
<1> QED
  BY <1>1, <1>2, <1>3, <1>4 DEF PlainInv

(* Every step keeps the invariant. *)
LEMMA PlainStep == PlainInv /\ [Next]_vars => PlainInv'
<1> SUFFICES ASSUME PlainInv, [Next]_vars PROVE PlainInv'
  OBVIOUS
<1> USE DEF PlainInv, Goto, locks, call, history
<1>0. CASE UNCHANGED vars
  BY <1>0 DEF vars, Shapes, Control, Locked, Fresh
<1>1. ASSUME NEW p \in Procs, Invoke(p) PROVE PlainInv'
  <2> USE <1>1 DEF Invoke
  <2>1. PICK r \in Requests :
          /\ Goto(p, "idle", IF r.op \in ReadOps THEN "rlock" ELSE "lock")
          /\ req' = [req EXCEPT ![p] = r]
          /\ steady' = [steady EXCEPT
                          ![p] = IF r.op = "Range" THEN Present(dict) ELSE {}]
    OBVIOUS
  <2>2. r.op \notin ReadOps => r.op \in {"Put", "Merge", "Clear"}
    BY RequestShape DEF ReadOps, AllOps
  <2>3. Shapes'
    BY <2>1 DEF Shapes, PCs, ReadPCs, WritePCs, Present
  <2>4. Control'
    BY <2>1, <2>2 DEF Shapes, Control, WritePCs, ReadOps
  <2>5. Locked'
    BY <2>1 DEF Shapes, Locked
  <2>6. Fresh'
    BY <2>1 DEF Shapes, Fresh
  <2> QED
    BY <2>3, <2>4, <2>5, <2>6
<1>2. ASSUME NEW p \in Procs, Lock(p) PROVE PlainInv'
  <2> USE <1>2 DEF Lock, Free
  <2>1. Shapes'
    BY DEF Shapes, PCs, ReadPCs, WritePCs
  <2>2. Control'
    BY DEF Shapes, Control, WritePCs
  <2>3. Locked'
    BY NoProcAssumption DEF Shapes, Locked
  <2>4. Fresh'
    BY DEF Shapes, Fresh
  <2> QED
    BY <2>1, <2>2, <2>3, <2>4
<1>3. ASSUME NEW p \in Procs, AwaitReaders(p) PROVE PlainInv'
  <2> USE <1>3 DEF AwaitReaders, Drained
  <2>1. Shapes'
    BY DEF Shapes, PCs, ReadPCs, WritePCs
  <2>2. Control'
    BY DEF Shapes, Control, WritePCs
  <2>3. Locked'
    BY DEF Shapes, Locked
  <2>4. Fresh'
    BY DEF Shapes, Fresh
  <2> QED
    BY <2>1, <2>2, <2>3, <2>4
<1>4. ASSUME NEW p \in Procs, RLock(p) PROVE PlainInv'
  <2> USE <1>4 DEF RLock, Free
  <2>1. Shapes'
    BY DEF Shapes, PCs, ReadPCs, WritePCs
  <2>2. Control'
    BY DEF Shapes, Control, WritePCs, ReadOps
  <2>3. Locked'
    BY NoProcAssumption DEF Shapes, Locked
  <2>4. Fresh'
    BY DEF Shapes, Fresh
  <2> QED
    BY <2>1, <2>2, <2>3, <2>4
<1>5. ASSUME NEW p \in Procs, CallMerger(p) PROVE PlainInv'
  <2> USE <1>5 DEF CallMerger
  <2>0. req[p].key \in Keys
    BY RequestShape DEF Control
  <2>1. Shapes'
    BY <2>0 DEF Shapes, PCs, ReadPCs, WritePCs, Dicts
  <2>2. Control'
    BY DEF Shapes, Control, WritePCs
  <2>3. Locked'
    BY DEF Shapes, Locked
  <2>4. Fresh'
    BY DEF Shapes, Fresh
  <2> QED
    BY <2>1, <2>2, <2>3, <2>4
<1>6. ASSUME NEW p \in Procs, Write(p) PROVE PlainInv'
  <2> USE <1>6 DEF Write, Unlock
  <2>1. pc[p] \in {"locked", "merging"} /\ pc' = [pc EXCEPT ![p] = "done"]
    OBVIOUS
  <2>2. writer = p /\ readers = {}
    BY <2>1 DEF Locked
  <2>3. \A q \in Procs \ {p} : pc[q] \notin {"wait", "locked", "merging", "reading", "visit"}
    BY <2>2 DEF Locked
  <2>4. req[p] \in Requests
    BY <2>1 DEF Control
  <2>5. dict' \in Dicts
    <3>1. CASE pc[p] = "locked"
      <4>1. dict' = After(dict, req[p])
        BY <3>1
      <4> QED
        BY <4>1, <2>4, AfterIsDict DEF Shapes
    <3>2. CASE pc[p] = "merging"
      <4>1. req[p].key \in Keys /\ req[p].val \in Vals /\ got[p] \in Vals
        BY <3>2, <2>4, RequestShape DEF Fresh, Shapes
      <4>2. dict' = [dict EXCEPT ![req[p].key] = Merged[<<got[p], req[p].val>>]]
        BY <3>2
      <4> QED
        BY <4>1, <4>2, MergedAssumption DEF Shapes, Dicts
    <3> QED
      BY <2>1, <3>1, <3>2
  <2>6. Shapes'
    BY <2>1, <2>5 DEF Shapes, PCs, ReadPCs, WritePCs
  <2>7. Control'
    BY <2>1 DEF Shapes, Control, WritePCs
  <2>8. Locked'
    BY <2>1, <2>2, <2>3 DEF Shapes, Locked
  <2>9. Fresh'
    BY <2>1, <2>3 DEF Shapes, Fresh
  <2> QED
    BY <2>6, <2>7, <2>8, <2>9
<1>7. ASSUME NEW p \in Procs, Read(p) PROVE PlainInv'
  <2> USE <1>7 DEF Read, RUnlock
  <2>1. Shapes'
    BY DEF Shapes, PCs, ReadPCs, WritePCs
  <2>2. Control'
    BY DEF Shapes, Control, WritePCs
  <2>3. Locked'
    BY DEF Shapes, Locked
  <2>4. Fresh'
    BY DEF Shapes, Fresh
  <2> QED
    BY <2>1, <2>2, <2>3, <2>4
<1>8. ASSUME NEW p \in Procs, Visit(p) PROVE PlainInv'
  <2> USE <1>8 DEF Visit, RUnlock, Rest
  <2>1. PICK x \in Pairs(dict) : seen' = [seen EXCEPT ![p] = @ \cup {x}]
    OBVIOUS
  <2>2. x \in Keys \X Vals
    BY DEF Shapes, Dicts, Pairs, Present
  <2>3. pc[p] = "visit" /\ (pc' = pc \/ pc' = [pc EXCEPT ![p] = "done"])
    OBVIOUS
  <2>4. Shapes'
    BY <2>1, <2>2, <2>3 DEF Shapes, PCs, ReadPCs, WritePCs
  <2>5. Control'
    BY <2>3 DEF Shapes, Control, WritePCs
  <2>6. Locked'
    BY <2>3 DEF Shapes, Locked
  <2>7. Fresh'
    BY <2>1, <2>3 DEF Shapes, Fresh
  <2> QED
    BY <2>4, <2>5, <2>6, <2>7
<1>9. ASSUME NEW p \in Procs, EndRange(p) PROVE PlainInv'
  <2> USE <1>9 DEF EndRange, RUnlock
  <2>1. Shapes'
    BY DEF Shapes, PCs, ReadPCs, WritePCs
  <2>2. Control'
    BY DEF Shapes, Control, WritePCs
  <2>3. Locked'
    BY DEF Shapes, Locked
  <2>4. Fresh'
    BY DEF Shapes, Fresh
  <2> QED
    BY <2>1, <2>2, <2>3, <2>4
<1>10. ASSUME NEW p \in Procs, Return(p) PROVE PlainInv'
  <2> USE <1>10 DEF Return
  <2>1. Shapes'
    BY DEF Shapes, PCs, ReadPCs, WritePCs
  <2>2. Control'
    BY DEF Shapes, Control, WritePCs
  <2>3. Locked'
    BY DEF Shapes, Locked
  <2>4. Fresh'
    BY DEF Shapes, Fresh
  <2> QED
    BY <2>1, <2>2, <2>3, <2>4
<1> QED
  BY <1>0, <1>1, <1>2, <1>3, <1>4, <1>5, <1>6, <1>7, <1>8, <1>9, <1>10 DEF Next

(* PlainInv holds in every reachable state. *)
LEMMA PlainAlways == Spec => []PlainInv
BY PlainInit, PlainStep, PTL DEF Spec

(* Range of a Plain (plain.go:56-65) reports the map of one moment: nothing *)
(* it has passed to its callback changes while it runs.                     *)
THEOREM RangeReportsSnapshot == Spec => []RangeIsSnapshot
<1>1. PlainInv => RangeIsSnapshot
  BY DEF PlainInv, Fresh, RangeIsSnapshot
<1> QED
  BY <1>1, PlainAlways, PTL

-----------------------------------------------------------------------------
(* The refinement: Lock, AwaitReaders, RLock and CallMerger are stutters of *)
(* AtomicMap, Write and Read are its TakeEffect, Visit and EndRange its     *)
(* Report.  A call's status changes with its program counter.               *)
LEMMA StatusAfter ==
  ASSUME NEW p \in Procs, NEW s, pc \in [Procs -> PCs], pc' = [pc EXCEPT ![p] = s]
  PROVE  [q \in Procs |-> Status(q)'] =
           [[q \in Procs |-> Status(q)] EXCEPT
              ![p] = IF s \in {"idle", "done"} THEN s ELSE "pending"]
BY DEF Status

(* AtomicMap has its requests and what they mean from MapAPI, too. *)
LEMMA SameMeaning ==
  /\ \A d, r : Atomic!After(d, r) = After(d, r) /\ Atomic!Answer(d, r) = Answer(d, r)
  /\ \A d : Atomic!Present(d) = Present(d)
BY DEF Atomic!After, Atomic!Answer, Atomic!Stored, Atomic!Present, Atomic!EmptyDict,
       After, Answer, Stored, Present, EmptyDict

(* A dictionary that has not changed still has the steady keys. *)
LEMMA SteadyStays ==
  ASSUME Shapes, Fresh, UNCHANGED <<dict, steady>>
  PROVE  steady' = [q \in Procs |-> steady[q] \cap Present(dict')]
<1>1. \A q \in Procs : steady[q] = steady[q] \cap Present(dict)
  BY DEF Fresh
<1>2. Present(dict') = Present(dict)
  OBVIOUS
<1>3. steady = [q \in Procs |-> steady[q]]
  BY DEF Shapes
<1> QED
  BY <1>1, <1>2, <1>3

(* Each step of a Plain is a step of AtomicMap, or none. *)
LEMMA PlainImplements == PlainInv /\ [Next]_vars => [Atomic!Next]_(Atomic!vars)
<1> SUFFICES ASSUME PlainInv, [Next]_vars PROVE [Atomic!Next]_(Atomic!vars)
  OBVIOUS
<1> DEFINE st == [q \in Procs |-> Status(q)]
<1>a. pc \in [Procs -> PCs]
  BY DEF PlainInv, Shapes
<1>b. ASSUME NEW p \in Procs, NEW s, pc' = [pc EXCEPT ![p] = s],
             pc[p] \notin {"idle", "done"}, s \notin {"idle", "done"},
             UNCHANGED <<dict, req, ret, seen, steady>>
      PROVE  UNCHANGED Atomic!vars
  <2>1. st' = [st EXCEPT ![p] = "pending"]
    BY <1>a, <1>b, StatusAfter
  <2>2. st[p] = "pending"
    BY <1>b DEF Status
  <2>3. st' = st
    BY <2>1, <2>2
  <2> QED
    BY <1>b, <2>3 DEF Atomic!vars
<1>0. CASE UNCHANGED vars
  BY <1>0 DEF vars, call, history, Atomic!vars, Status
<1>1. ASSUME NEW p \in Procs, Invoke(p) PROVE Atomic!Invoke(p)
  <2> USE <1>1 DEF Invoke, Goto
  <2>1. PICK r \in Requests :
          /\ pc[p] = "idle"
          /\ pc' = [pc EXCEPT ![p] = IF r.op \in ReadOps THEN "rlock" ELSE "lock"]
          /\ req' = [req EXCEPT ![p] = r]
          /\ steady' = [steady EXCEPT
                          ![p] = IF r.op = "Range" THEN Present(dict) ELSE {}]
    OBVIOUS
  <2>2. st' = [st EXCEPT ![p] = "pending"]
    BY <1>a, <2>1, StatusAfter
  <2>3. st[p] = "idle"
    BY <2>1 DEF Status
  <2>4. UNCHANGED <<dict, ret, seen>>
    BY DEF call
  <2> QED
    BY <2>1, <2>2, <2>3, <2>4
    DEF Atomic!Invoke, Atomic!Requests, Requests, Atomic!Present, Present
<1>2. ASSUME NEW p \in Procs, Lock(p) PROVE UNCHANGED Atomic!vars
  BY <1>2, <1>b DEF Lock, Goto, call, history
<1>3. ASSUME NEW p \in Procs, AwaitReaders(p) PROVE UNCHANGED Atomic!vars
  BY <1>3, <1>b DEF AwaitReaders, Goto, call, history
<1>4. ASSUME NEW p \in Procs, RLock(p) PROVE UNCHANGED Atomic!vars
  <2>1. PICK s \in {"visit", "reading"} : pc' = [pc EXCEPT ![p] = s]
    BY <1>4 DEF RLock, Goto
  <2> QED
    BY <1>4, <1>b, <2>1 DEF RLock, Goto, call, history
<1>5. ASSUME NEW p \in Procs, CallMerger(p) PROVE UNCHANGED Atomic!vars
  <2>1. pc[p] = "locked" /\ pc' = [pc EXCEPT ![p] = "merging"]
    BY <1>5 DEF CallMerger, Goto
  <2>2. UNCHANGED <<dict, req, ret, seen, steady>>
    BY <1>5 DEF CallMerger, history
  <2> QED
    BY <1>b, <2>1, <2>2
<1>c. ASSUME NEW p \in Procs, pc' = [pc EXCEPT ![p] = "done"],
             pc[p] \notin {"idle", "done"}
      PROVE  st[p] = "pending" /\ st' = [st EXCEPT ![p] = "done"]
  <2>1. st' = [st EXCEPT ![p] = "done"]
    BY <1>a, <1>c, StatusAfter
  <2> QED
    BY <1>c, <2>1 DEF Status
<1>6. ASSUME NEW p \in Procs, Write(p) PROVE Atomic!TakeEffect(p)
  <2> USE <1>6
  <2>1. pc[p] \in {"locked", "merging"} /\ pc' = [pc EXCEPT ![p] = "done"]
    BY DEF Write, Goto
  <2>2. req[p] \in Requests /\ req[p].op \in {"Put", "Merge", "Clear"}
    BY <2>1 DEF PlainInv, Control, WritePCs
  <2>3. dict' = After(dict, req[p]) /\ ret' = [ret EXCEPT ![p] = Answer(dict, req[p])]
    <3>1. CASE pc[p] = "locked"
      <4>1. /\ ~(req[p].op = "Merge" /\ dict[req[p].key] # NoVal)
            /\ dict' = After(dict, req[p])
            /\ ReturnWith(p, IF req[p].op = "Merge" THEN req[p].val ELSE NoVal)
        BY <3>1 DEF Write, Goto
      <4>2. Answer(dict, req[p]) = IF req[p].op = "Merge" THEN req[p].val ELSE NoVal
        BY <4>1, <2>2 DEF Answer, Stored
      <4> QED
        BY <4>1, <4>2 DEF ReturnWith
    <3>2. CASE pc[p] = "merging"
      <4> DEFINE v == Merged[<<got[p], req[p].val>>]
      <4>1. dict' = [dict EXCEPT ![req[p].key] = v] /\ ret' = [ret EXCEPT ![p] = v]
        BY <3>2 DEF Write, Goto, ReturnWith
      <4>2. req[p].op = "Merge" /\ got[p] = dict[req[p].key] /\ got[p] # NoVal
        BY <3>2 DEF PlainInv, Fresh
      <4>3. Stored(dict, req[p]) = v
        BY <4>2 DEF Stored
      <4> QED
        BY <4>1, <4>2, <4>3 DEF After, Answer
    <3> QED
      BY <2>1, <3>1, <3>2
  <2>4. st[p] = "pending" /\ st' = [st EXCEPT ![p] = "done"]
    BY <2>1, <1>c
  <2>5. /\ steady' = [q \in Procs |-> steady[q] \cap Present(dict')]
        /\ UNCHANGED <<req, seen>>
    BY DEF Write
  <2> QED
    BY <2>2, <2>3, <2>4, <2>5, SameMeaning DEF Atomic!TakeEffect
<1>7. ASSUME NEW p \in Procs, Read(p) PROVE Atomic!TakeEffect(p)
  <2> USE <1>7
  <2>1. pc[p] = "reading" /\ pc' = [pc EXCEPT ![p] = "done"]
    BY DEF Read, Goto
  <2>2. req[p].op \in {"Get", "Size"}
    BY <2>1 DEF PlainInv, Control
  <2>3. UNCHANGED <<dict, req, seen, steady>> /\ ret' = [ret EXCEPT ![p] = Answer(dict, req[p])]
    BY DEF Read, ReturnWith, history
  <2>4. dict' = After(dict, req[p])
    BY <2>2, <2>3 DEF After
  <2>5. st[p] = "pending" /\ st' = [st EXCEPT ![p] = "done"]
    BY <2>1, <1>c
  <2>6. steady' = [q \in Procs |-> steady[q] \cap Present(dict')]
    BY <2>3, SteadyStays DEF PlainInv
  <2> QED
    BY <2>2, <2>3, <2>4, <2>5, <2>6, SameMeaning DEF Atomic!TakeEffect
<1>8. ASSUME NEW p \in Procs, Visit(p) PROVE Atomic!Report(p)
  <2> USE <1>8
  <2>1. PICK x \in Pairs(dict) : seen' = [seen EXCEPT ![p] = @ \cup {x}]
    BY DEF Visit, Rest
  <2>2. \E S \in SUBSET Pairs(dict) : seen' = [seen EXCEPT ![p] = @ \cup S]
    BY <2>1
  <2>3. UNCHANGED <<dict, req, steady>>
    BY DEF Visit
  <2>4. req[p].op = "Range" /\ st[p] = "pending"
    BY DEF Visit, Goto, PlainInv, Control, Status
  <2>5. CASE UNCHANGED <<pc, ret>>
    <3>1. st' = st
      BY <2>5 DEF Status
    <3> QED
      BY <2>2, <2>3, <2>4, <2>5, <3>1
      DEF Atomic!Report, Atomic!Pairs, Atomic!Present, Pairs, Present
  <2>6. CASE Goto(p, "visit", "done") /\ ReturnWith(p, 0)
    <3>1. st' = [st EXCEPT ![p] = "done"]
      BY <2>6, <1>c DEF Goto
    <3> QED
      BY <2>2, <2>3, <2>4, <2>6, <3>1
      DEF ReturnWith, Atomic!Report, Atomic!Pairs, Atomic!Present, Pairs, Present
  <2> QED
    BY <2>5, <2>6 DEF Visit
<1>9. ASSUME NEW p \in Procs, EndRange(p) PROVE Atomic!Report(p)
  <2> USE <1>9
  <2>1. pc[p] = "visit" /\ pc' = [pc EXCEPT ![p] = "done"]
    BY DEF EndRange, Goto
  <2>2. UNCHANGED <<dict, req, seen, steady>> /\ ret' = [ret EXCEPT ![p] = 1]
    BY DEF EndRange, ReturnWith, history
  <2>3. seen' = [seen EXCEPT ![p] = @ \cup {}]
    BY <2>2 DEF PlainInv, Shapes
  <2>4. steady[p] \subseteq {y[1] : y \in seen'[p]}
    <3>1. Pairs(dict) \subseteq seen[p]
      BY DEF EndRange, Rest
    <3>2. \A k \in steady[p] : <<k, dict[k]>> \in seen'[p]
      BY <3>1, <2>2 DEF PlainInv, Fresh, Pairs
    <3>3. \A k \in steady[p] : k = <<k, dict[k]>>[1]
      OBVIOUS
    <3> QED
      BY <3>2, <3>3
  <2>5. req[p].op = "Range"
    BY <2>1 DEF PlainInv, Control
  <2>6. st[p] = "pending" /\ st' = [st EXCEPT ![p] = "done"]
    BY <2>1, <1>c
  <2> QED
    BY <2>2, <2>3, <2>4, <2>5, <2>6 DEF Atomic!Report
<1>10. ASSUME NEW p \in Procs, Return(p) PROVE Atomic!Return(p)
  <2> USE <1>10
  <2>1. pc[p] = "done" /\ pc' = [pc EXCEPT ![p] = "idle"]
    BY DEF Return, Goto
  <2>2. st[p] = "done" /\ st' = [st EXCEPT ![p] = "idle"]
    BY <1>a, <2>1, StatusAfter DEF Status
  <2> QED
    BY <2>2 DEF Return, ReturnWith, Atomic!Return, Atomic!NoRequest, NoRequest
<1> QED
  BY <1>0, <1>1, <1>2, <1>3, <1>4, <1>5, <1>6, <1>7, <1>8, <1>9, <1>10
  DEF Next, Atomic!Next

(* The calls of a Plain (plain.go) are linearizable and its Range is weakly *)
(* consistent, for any goroutines, keys, values and merger.                 *)
THEOREM PlainIsLinearizable == Spec => Linearizable
<1>1. Init => Atomic!Init
  BY DEF Init, Atomic!Init, Status, EmptyDict, NoRequest, Atomic!EmptyDict, Atomic!NoRequest
<1> QED
  BY <1>1, PlainImplements, PlainAlways, PTL DEF Spec, Linearizable, Atomic!Spec
=============================================================================
