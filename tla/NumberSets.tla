----------------------------- MODULE NumberSets -----------------------------
(***************************************************************************)
(* Finite sets of numbers as the ascending slices that Go holds them in:   *)
(* the results of evaluation (MatchSet of eval.go) and the positions of a  *)
(* term in a document.                                                     *)
(***************************************************************************)
EXTENDS Integers, FiniteSets

Smaller(S, x) == {y \in S : y < x}

(* The numbers of S in ascending order: the m-th is the one that has m - 1 *)
(* smaller ones.                                                           *)
InOrder(S) ==
  [m \in 1..Cardinality(S) |-> CHOOSE x \in S : Cardinality(Smaller(S, x)) = m - 1]
=============================================================================
