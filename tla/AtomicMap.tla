------------------------------ MODULE AtomicMap ------------------------------
(***************************************************************************)
(* What a concurrent map promises: every call but Range takes effect at    *)
(* one instant between its invocation and its return (linearizability),    *)
(* with the sequential meaning of MapAPI.  Range is weakly consistent      *)
(* (map.go:330-332): each pair it reports was in the map at the moment it  *)
(* was reported, and a Range that runs to the end has reported every key   *)
(* that was in the map all the time from its invocation on.                *)
(***************************************************************************)
EXTENDS MapAPI

VARIABLES
  dict,     \* the dictionary
  status,   \* status[p]: "idle", "pending" (invoked), "done" (took effect)
  req,      \* req[p]: the request of p's current call
  ret,      \* ret[p]: the answer of p's current call
  seen,     \* seen[p]: the pairs p's Range has reported
  steady    \* steady[p]: the keys in the map ever since p's Range was invoked

vars == <<dict, status, req, ret, seen, steady>>

Init ==
  /\ dict = EmptyDict
  /\ status = [p \in Procs |-> "idle"]
  /\ req = [p \in Procs |-> NoRequest]
  /\ ret = [p \in Procs |-> NoVal]
  /\ seen = [p \in Procs |-> {}]
  /\ steady = [p \in Procs |-> {}]

Invoke(p) ==
  /\ status[p] = "idle"
  /\ \E r \in Requests :
       /\ req' = [req EXCEPT ![p] = r]
       /\ steady' = [steady EXCEPT
                       ![p] = IF r.op = "Range" THEN Present(dict) ELSE {}]
  /\ status' = [status EXCEPT ![p] = "pending"]
  /\ UNCHANGED <<dict, ret, seen>>

\* The instant at which a Put, Get, Merge, Clear or Size takes effect.
TakeEffect(p) ==
  /\ status[p] = "pending"
  /\ req[p].op # "Range"
  /\ dict' = After(dict, req[p])
  /\ ret' = [ret EXCEPT ![p] = Answer(dict, req[p])]
  /\ steady' = [q \in Procs |-> steady[q] \cap Present(dict')]
  /\ status' = [status EXCEPT ![p] = "done"]
  /\ UNCHANGED <<req, seen>>

\* Range reports some pairs of the map, and goes on, or ends there because
\* its callback said so (0) or because nothing is left to report (1).
Report(p) ==
  /\ status[p] = "pending"
  /\ req[p].op = "Range"
  /\ \E S \in SUBSET Pairs(dict) : seen' = [seen EXCEPT ![p] = @ \cup S]
  /\ \/ UNCHANGED <<status, ret>>
     \/ /\ status' = [status EXCEPT ![p] = "done"]
        /\ \/ ret' = [ret EXCEPT ![p] = 0]
           \/ /\ steady[p] \subseteq {x[1] : x \in seen'[p]}
              /\ ret' = [ret EXCEPT ![p] = 1]
  /\ UNCHANGED <<dict, req, steady>>

Return(p) ==
  /\ status[p] = "done"
  /\ status' = [status EXCEPT ![p] = "idle"]
  /\ req' = [req EXCEPT ![p] = NoRequest]
  /\ ret' = [ret EXCEPT ![p] = NoVal]
  /\ seen' = [seen EXCEPT ![p] = {}]
  /\ steady' = [steady EXCEPT ![p] = {}]
  /\ UNCHANGED dict

Next == \E p \in Procs : Invoke(p) \/ TakeEffect(p) \/ Report(p) \/ Return(p)

Spec == Init /\ [][Next]_vars
=============================================================================
