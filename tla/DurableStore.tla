---------------------------- MODULE DurableStore ----------------------------
(***************************************************************************)
(* What the file-backed store of lab-1-3hashAlgos promises its one client  *)
(* (the Store interface of hashfs.go:12-19): Put and Delete are atomic and *)
(* survive the process, Get answers from what survived, a call that        *)
(* reports an error has changed nothing.  Reset empties the store piece by *)
(* piece: a process that stops in the middle leaves some of it.            *)
(***************************************************************************)
EXTENDS Integers

CONSTANTS
  Keys,     \* keys
  Vals,     \* values
  NoKey,    \* the key field of a request without a key
  NoVal,    \* absence of a value
  Ok,       \* the answer nil
  Missing,  \* the answer ErrNotFound
  Err       \* any other error

VARIABLES
  dict,     \* the dictionary in the file
  status,   \* "closed", "ready", "pending" (called) or "done" (took effect)
  req,      \* the request of the current call
  ret       \* its answer

vars == <<dict, status, req, ret>>

Requests ==
  [op : {"Put"}, key : Keys, val : Vals]
    \cup [op : {"Get", "Delete"}, key : Keys, val : {NoVal}]
    \cup [op : {"Reset"}, key : {NoKey}, val : {NoVal}]

NoRequest == [op |-> "none", key |-> NoKey, val |-> NoVal]

Answers == Vals \cup {NoVal, Ok, Missing, Err}

-----------------------------------------------------------------------------
Goto(from, to) == status = from /\ status' = to

Init ==
  /\ dict = [k \in Keys |-> NoVal]
  /\ status = "closed"
  /\ req = NoRequest
  /\ ret = NoVal

Open == Goto("closed", "ready") /\ UNCHANGED <<dict, req, ret>>

Invoke == Goto("ready", "pending") /\ req' \in Requests /\ UNCHANGED <<dict, ret>>

Write ==
  /\ Goto("pending", "done")
  /\ req.op \in {"Put", "Delete"}
  /\ \/ dict' = [dict EXCEPT ![req.key] = req.val] /\ ret' = Ok
     \/ UNCHANGED dict /\ ret' = Err
  /\ UNCHANGED req

Read ==
  /\ Goto("pending", "done")
  /\ req.op = "Get"
  /\ ret' = IF dict[req.key] = NoVal THEN Missing ELSE dict[req.key]
  /\ UNCHANGED <<dict, req>>

Wipe ==
  /\ status = "pending"
  /\ req.op = "Reset"
  /\ \E S \in SUBSET Keys : dict' = [k \in Keys |-> IF k \in S THEN NoVal ELSE dict[k]]
  /\ UNCHANGED <<status, req, ret>>

EndReset ==
  /\ Goto("pending", "done")
  /\ req.op = "Reset"
  /\ dict = [k \in Keys |-> NoVal]
  /\ ret' = Ok
  /\ UNCHANGED <<dict, req>>

Return == Goto("done", "ready") /\ req' = NoRequest /\ ret' = NoVal /\ UNCHANGED dict

\* The process closes the store or ends, wherever it is.
Stop ==
  /\ status # "closed"
  /\ status' = "closed"
  /\ req' = NoRequest
  /\ ret' = NoVal
  /\ UNCHANGED dict

Next == Open \/ Invoke \/ Write \/ Read \/ Wipe \/ EndReset \/ Return \/ Stop

Spec == Init /\ [][Next]_vars
=============================================================================
