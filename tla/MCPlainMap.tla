----------------------------- MODULE MCPlainMap -----------------------------
(* Small instances of PlainMap; merger as in MCConcMap.                     *)
EXTENDS PlainMap, TLC

MCMerged == [x \in Vals \X Vals |-> (x[1] + x[2]) % Cardinality(Vals)]
ProcSymmetry == Permutations(Procs)
=============================================================================
