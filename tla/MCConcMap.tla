------------------------------ MODULE MCConcMap ------------------------------
(* Small instances of ConcMap.  k1 and k2 share a bucket of the table with  *)
(* two buckets and part in the next; k1 and k3 part at once.  Merger is     *)
(* addition modulo the number of values, so a lost Merge changes the sum.   *)
EXTENDS ConcMap, TLC

CONSTANTS k1, k2, k3

MCHash == [k \in Keys |-> (k1 :> 0 @@ k2 :> 2 @@ k3 :> 3)[k]]
MCMerged == [x \in Vals \X Vals |-> (x[1] + x[2]) % Cardinality(Vals)]
ProcSymmetry == Permutations(Procs)
=============================================================================
