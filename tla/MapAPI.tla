------------------------------- MODULE MapAPI -------------------------------
(***************************************************************************)
(* The interface the maps of lab-4-concmap share (stringIntMap of          *)
(* map_test.go): the calls a goroutine can make and what each means for    *)
(* a map nobody else touches.  Unsafe (unsafe.go), the built-in map the    *)
(* tests use as the oracle, is exactly this sequential meaning.            *)
(*                                                                         *)
(* A dictionary is a total function on Keys; NoVal marks an absent key.    *)
(***************************************************************************)
EXTENDS Integers, FiniteSets

CONSTANTS
  Procs,    \* goroutines
  Keys,     \* keys
  Vals,     \* values
  Merged,   \* Merged[<<old, new>>]: the merger callback of Merge
  Ops,      \* the operations the goroutines call
  NoKey,    \* the key field of a request without a key
  NoVal     \* absence of a value

AllOps == {"Put", "Get", "Merge", "Clear", "Size", "Range"}

ASSUME OpsAssumption == Ops \subseteq AllOps
ASSUME NoValAssumption == NoVal \notin Vals \cup Nat
ASSUME MergedAssumption == Merged \in [Vals \X Vals -> Vals]
ASSUME NoKeyAssumption == NoKey \notin Keys

Requests ==
  [op : Ops \cap {"Put", "Merge"}, key : Keys, val : Vals]
    \cup [op : Ops \cap {"Get"}, key : Keys, val : {NoVal}]
    \cup [op : Ops \cap {"Clear", "Size", "Range"}, key : {NoKey}, val : {NoVal}]

NoRequest == [op |-> "none", key |-> NoKey, val |-> NoVal]

\* A value, the absence of one, or a number: Size answers how many keys there
\* are, Range whether it reached the end (1) or its callback stopped it (0).
Answers == Vals \cup {NoVal} \cup Nat

-----------------------------------------------------------------------------
Dicts == [Keys -> Vals \cup {NoVal}]
EmptyDict == [k \in Keys |-> NoVal]
Present(d) == {k \in Keys : d[k] # NoVal}
Pairs(d) == {<<k, d[k]>> : k \in Present(d)}

\* The value a Put or Merge of v leaves under k.
Stored(d, r) ==
  IF r.op = "Merge" /\ d[r.key] # NoVal THEN Merged[<<d[r.key], r.val>>] ELSE r.val

\* The dictionary after request r.
After(d, r) ==
  CASE r.op \in {"Put", "Merge"} -> [d EXCEPT ![r.key] = Stored(d, r)]
    [] r.op = "Clear"            -> EmptyDict
    [] OTHER                     -> d

\* What request r returns.
Answer(d, r) ==
  CASE r.op = "Get"   -> d[r.key]
    [] r.op = "Merge" -> Stored(d, r)
    [] r.op = "Size"  -> Cardinality(Present(d))
    [] OTHER          -> NoVal
=============================================================================
