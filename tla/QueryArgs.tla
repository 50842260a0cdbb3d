------------------------------ MODULE QueryArgs ------------------------------
(***************************************************************************)
(* What the loops of query evaluation (eval.go) work on: lists of document *)
(* numbers, or of positions in a document, and the distances of NEAR.      *)
(***************************************************************************)
EXTENDS Integers, Sequences

CONSTANTS
  Lists,      \* the lists
  Distances   \* the distances k of NEAR(k, a, b)

Ascending(s) == \A m, n \in 1..Len(s) : m < n => s[m] < s[n]

(* Posting lists, the results of merges and position lists are ascending. *)
ASSUME ListsAssumption == \A s \in Lists : s \in Seq(Nat) /\ Ascending(s)
(* evalNear and slowNearDoc replace a negative k by 0. *)
ASSUME DistancesAssumption == Distances \subseteq Nat
=============================================================================
