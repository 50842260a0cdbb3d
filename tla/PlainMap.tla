------------------------------ MODULE PlainMap ------------------------------
(***************************************************************************)
(* The baseline map of lab-4-concmap/internal/concmap/plain.go: one        *)
(* RWMutex around Go's built-in map.  Every call holds the lock from its   *)
(* first access to its return (defer), Merge and Range while they call     *)
(* back as well.                                                           *)
(***************************************************************************)
EXTENDS MapAPI

CONSTANT NoProc   \* nobody holds the lock

ASSUME NoProcAssumption == NoProc \notin Procs

VARIABLES
  dict,      \* p.m
  writer,    \* the goroutine in Lock or holding the write lock of p.mu
  readers,   \* the holders of read locks
  pc, req, ret,
  got,       \* got[p]: the value a Merge read before it called merger
  seen,      \* history: the pairs p's Range has passed to its callback
  steady     \* history: keys in the map ever since p's Range was called

locks == <<writer, readers>>
call == <<req, ret, got>>
history == <<seen, steady>>
vars == <<dict, locks, pc, call, history>>

Init ==
  /\ dict = EmptyDict
  /\ writer = NoProc
  /\ readers = {}
  /\ pc = [p \in Procs |-> "idle"]
  /\ req = [p \in Procs |-> NoRequest]
  /\ ret = [p \in Procs |-> NoVal]
  /\ got = [p \in Procs |-> NoVal]
  /\ seen = [p \in Procs |-> {}]
  /\ steady = [p \in Procs |-> {}]

Goto(p, from, to) == pc[p] = from /\ pc' = [pc EXCEPT ![p] = to]
ReturnWith(p, v) == ret' = [ret EXCEPT ![p] = v]

ReadOps == {"Get", "Size", "Range"}

Invoke(p) ==
  /\ \E r \in Requests :
       /\ Goto(p, "idle", IF r.op \in ReadOps THEN "rlock" ELSE "lock")
       /\ req' = [req EXCEPT ![p] = r]
       /\ steady' = [steady EXCEPT
                       ![p] = IF r.op = "Range" THEN Present(dict) ELSE {}]
  /\ UNCHANGED <<dict, locks, ret, got, seen>>

Free == writer = NoProc

\* Mutant: p.mu.Lock is missing.
Unlocked(p) == Goto(p, "lock", "locked") /\ UNCHANGED <<dict, locks, call, history>>

Lock(p) ==
  /\ Goto(p, "lock", "wait")
  /\ Free
  /\ writer' = p
  /\ UNCHANGED <<dict, readers, call, history>>

Drained == readers = {}

AwaitReaders(p) ==
  /\ Goto(p, "wait", "locked")
  /\ Drained
  /\ UNCHANGED <<dict, locks, call, history>>

\* Mutant: p.mu.RLock is missing.
RUnlocked(p) ==
  /\ Goto(p, "rlock", IF req[p].op = "Range" THEN "visit" ELSE "reading")
  /\ UNCHANGED <<dict, locks, call, history>>

RLock(p) ==
  /\ Goto(p, "rlock", IF req[p].op = "Range" THEN "visit" ELSE "reading")
  /\ Free
  /\ readers' = readers \cup {p}
  /\ UNCHANGED <<dict, writer, call, history>>

Unlock == writer' = NoProc
RUnlock(p) == readers' = readers \ {p}

-----------------------------------------------------------------------------
\* A Merge of a key that is there calls merger between its read and its write.
CallMerger(p) ==
  /\ Goto(p, "locked", "merging")
  /\ req[p].op = "Merge" /\ dict[req[p].key] # NoVal
  /\ got' = [got EXCEPT ![p] = dict[req[p].key]]
  /\ UNCHANGED <<dict, locks, req, ret, history>>

\* The write of a Put, a Merge or a Clear, and the deferred Unlock.
Write(p) ==
  /\ \/ /\ Goto(p, "locked", "done")
        /\ ~(req[p].op = "Merge" /\ dict[req[p].key] # NoVal)
        /\ dict' = After(dict, req[p])
        /\ ReturnWith(p, IF req[p].op = "Merge" THEN req[p].val ELSE NoVal)
     \/ /\ Goto(p, "merging", "done")
        /\ LET v == Merged[<<got[p], req[p].val>>]
           IN  dict' = [dict EXCEPT ![req[p].key] = v] /\ ReturnWith(p, v)
  /\ Unlock
  /\ steady' = [q \in Procs |-> steady[q] \cap Present(dict')]
  /\ UNCHANGED <<readers, req, got, seen>>

Read(p) ==
  /\ Goto(p, "reading", "done")
  /\ ReturnWith(p, Answer(dict, req[p]))
  /\ RUnlock(p)
  /\ UNCHANGED <<dict, writer, req, got, history>>

Rest(p) == Pairs(dict) \ seen[p]

\* Range passes one more pair to its callback, which may stop it there.
Visit(p) ==
  /\ \E x \in Rest(p) : seen' = [seen EXCEPT ![p] = @ \cup {x}]
  /\ \/ pc[p] = "visit" /\ UNCHANGED <<pc, readers, ret>>
     \/ Goto(p, "visit", "done") /\ RUnlock(p) /\ ReturnWith(p, 0)
  /\ UNCHANGED <<dict, writer, req, got, steady>>

EndRange(p) ==
  /\ Goto(p, "visit", "done")
  /\ Rest(p) = {}
  /\ RUnlock(p)
  /\ ReturnWith(p, 1)
  /\ UNCHANGED <<dict, writer, req, got, history>>

Return(p) ==
  /\ Goto(p, "done", "idle")
  /\ req' = [req EXCEPT ![p] = NoRequest]
  /\ ReturnWith(p, NoVal)
  /\ got' = [got EXCEPT ![p] = NoVal]
  /\ seen' = [seen EXCEPT ![p] = {}]
  /\ steady' = [steady EXCEPT ![p] = {}]
  /\ UNCHANGED <<dict, locks>>

-----------------------------------------------------------------------------
Next ==
  \E p \in Procs :
    \/ Invoke(p) \/ Lock(p) \/ AwaitReaders(p) \/ RLock(p) \/ CallMerger(p)
    \/ Write(p) \/ Read(p) \/ Visit(p) \/ EndRange(p) \/ Return(p)

Spec == Init /\ [][Next]_vars

-----------------------------------------------------------------------------
\* Every call takes effect in its critical section.
Status(p) == IF pc[p] \in {"idle", "done"} THEN pc[p] ELSE "pending"

Atomic == INSTANCE AtomicMap WITH status <- [p \in Procs |-> Status(p)]

\* The calls of a Plain are linearizable: no Merge overwrites a value it has
\* not seen (plain.go:34-39).
Linearizable == Atomic!Spec

\* Unlike the one of Map, Range reports the map as it is at one moment: while
\* it runs, and when it ends, nothing it has reported has changed.
RangeIsSnapshot ==
  \A p \in Procs : pc[p] = "visit" => seen[p] \subseteq Pairs(dict)
=============================================================================
