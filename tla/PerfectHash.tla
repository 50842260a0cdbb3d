----------------------------- MODULE PerfectHash -----------------------------
(***************************************************************************)
(* The static index of keys in lab-1-3hashAlgos (perfecthash.go): a map    *)
(* from each key to its place in the list it was built from, and its bytes.*)
(* A key is a sequence of bytes; places count from 0.                      *)
(***************************************************************************)
EXTENDS Bytes, FiniteSets

(* Build, which refuses a key that occurs twice. *)
Build(list) ==
  IF Cardinality(ToSet(list)) < Len(list) THEN Failed
  ELSE Decoded([key \in ToSet(list) |-> (CHOOSE n \in 1..Len(list) : list[n] = key) - 1])

Lookup(table, key) ==
  IF key \in DOMAIN table THEN [i |-> table[key], ok |-> TRUE] ELSE [i |-> 0, ok |-> FALSE]

Entry(table, key) == U32(Len(key)) \o key \o U32(table[key])

(* What Serialize can return: a map is iterated in any order. *)
Serialized(table) ==
  IF DOMAIN table = {} THEN {<<>>}
  ELSE {U32(Len(order)) \o FlattenSeq([n \in 1..Len(order) |-> Entry(table, order[n])]) :
          order \in SetToSeqs(DOMAIN table)}

Added(table, key, v) ==
  [k \in DOMAIN table \cup {key} |-> IF k = key THEN v ELSE table[k]]

RECURSIVE EntriesLeniently(_, _, _, _)
EntriesLeniently(data, at, n, table) ==     \* mutant: what is missing ends the loop
  IF n = 0 \/ EndsBefore(data, at, 4) THEN Decoded(table)
  ELSE LET kl == GetU32(data, at)
       IN  IF EndsBefore(data, at + 4, kl + 4) THEN Failed
           ELSE EntriesLeniently(data, at + 8 + kl, n - 1,
                  Added(table, Slice(data, at + 4, kl), GetU32(data, at + 4 + kl)))

(* The loop of Deserialize, with n entries to go. *)
RECURSIVE Entries(_, _, _, _)
Entries(data, at, n, table) ==
  IF n = 0 THEN Decoded(table)
  ELSE IF EndsBefore(data, at, 4) THEN Failed
  ELSE LET kl  == GetU32(data, at)
           key == Slice(data, at + 4, kl)
       IN  IF EndsBefore(data, at + 4, kl + 4) THEN Failed
           ELSE Entries(data, at + 8 + kl, n - 1,
                        Added(table, key, GetU32(data, at + 4 + kl)))

(* No data at all are taken for the empty table. *)
Deserialize(data) ==
  IF data = <<>> THEN Decoded(<<>>)
  ELSE IF Len(data) < 4 THEN Failed
  ELSE Entries(data, 5, GetU32(data, 1), <<>>)
=============================================================================
