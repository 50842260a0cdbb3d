---------------------------- MODULE PositionScan ----------------------------
(***************************************************************************)
(* positionsNear and positionsAdj of eval.go: two indexes run through the  *)
(* ascending positions of two terms in one document and look for a pair    *)
(* that is close, or adjacent in the order of the query.                   *)
(*                                                                         *)
(* One step is one iteration.  Indexes count from 1, positions from 0.     *)
(***************************************************************************)
EXTENDS QueryArgs

VARIABLES
  rel,       \* "near" or "adj"
  pa, pb,    \* the positions of the two terms
  k,         \* the distance, for "near"
  ia, ib,    \* the next element of each list
  found,     \* what is returned
  scanPc     \* "scan" or "done"

scanVars == <<rel, pa, pb, k, ia, ib, found, scanPc>>

Abs(n) == IF n < 0 THEN -n ELSE n

(* The pair the functions look for. *)
Hit(x, y) ==
  \/ rel = "near" /\ Abs(x - y) <= k
  \/ rel = "adj" /\ y = x + 1

ScanInit ==
  /\ rel \in {"near", "adj"}
  /\ pa \in Lists /\ pb \in Lists
  /\ k \in Distances
  /\ ia = 1 /\ ib = 1
  /\ found = FALSE
  /\ scanPc = "scan"

PairLeft == ia <= Len(pa) /\ ib <= Len(pb)

FindPair ==
  /\ scanPc = "scan" /\ PairLeft
  /\ Hit(pa[ia], pb[ib])
  /\ found' = TRUE
  /\ scanPc' = "done"
  /\ UNCHANGED <<rel, pa, pb, k, ia, ib>>

PassPa == ia' = ia + 1 /\ UNCHANGED <<rel, pa, pb, k, ib, found, scanPc>>
PassPb == ib' = ib + 1 /\ UNCHANGED <<rel, pa, pb, k, ia, found, scanPc>>

PassLarger ==                              \* mutant: the larger one is passed
  /\ scanPc = "scan" /\ PairLeft
  /\ rel = "near" /\ ~Hit(pa[ia], pb[ib])
  /\ \/ pa[ia] < pb[ib] /\ PassPb
     \/ pa[ia] >= pb[ib] /\ PassPa

(* positionsNear passes the smaller position. *)
PassNear ==
  /\ scanPc = "scan" /\ PairLeft
  /\ rel = "near" /\ ~Hit(pa[ia], pb[ib])
  /\ \/ pa[ia] < pb[ib] /\ PassPa
     \/ pa[ia] >= pb[ib] /\ PassPb

PassBoth ==                                \* mutant: both are passed
  /\ scanPc = "scan" /\ PairLeft
  /\ rel = "adj" /\ ~Hit(pa[ia], pb[ib])
  /\ ia' = ia + 1 /\ ib' = ib + 1
  /\ UNCHANGED <<rel, pa, pb, k, found, scanPc>>

(* positionsAdj passes a position of b that is not after that of a. *)
PassAdj ==
  /\ scanPc = "scan" /\ PairLeft
  /\ rel = "adj" /\ ~Hit(pa[ia], pb[ib])
  /\ \/ pb[ib] <= pa[ia] /\ PassPb
     \/ pb[ib] > pa[ia] /\ PassPa

NoPairLeft ==
  /\ scanPc = "scan" /\ ~PairLeft
  /\ scanPc' = "done"
  /\ UNCHANGED <<rel, pa, pb, k, ia, ib, found>>

ScanReturned == scanPc = "done" /\ UNCHANGED scanVars

ScanStep == FindPair \/ PassNear \/ PassAdj \/ NoPairLeft

ScanNext == ScanStep \/ ScanReturned

ScanSpec == ScanInit /\ [][ScanNext]_scanVars

-----------------------------------------------------------------------------
(* The indexes end at most one past their lists. *)
ScanTypeOK ==
  /\ rel \in {"near", "adj"}
  /\ pa \in Lists /\ pb \in Lists
  /\ k \in Distances
  /\ ia \in 1..(Len(pa) + 1) /\ ib \in 1..(Len(pb) + 1)
  /\ found \in BOOLEAN
  /\ scanPc \in {"scan", "done"}

(* The answer of positionsNear and positionsAdj is yes exactly if some     *)
(* pair of positions, of all the pairs there are, satisfies the query.     *)
ScanCorrect ==
  scanPc = "done" =>
    (found <=> \E m \in 1..Len(pa), n \in 1..Len(pb) : Hit(pa[m], pb[n]))

(* No position is passed that still had a partner.  This is why looking    *)
(* at one pair per iteration is enough.                                    *)
NothingMissed ==
  \A m \in 1..Len(pa), n \in 1..Len(pb) :
    m < ia \/ n < ib => ~Hit(pa[m], pb[n])
=============================================================================
