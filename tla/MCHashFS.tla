------------------------------ MODULE MCHashFS ------------------------------
(* Small instances of HashFS: k1 and k2 share a bucket, k3 has the other one *)
(* of two; a long record takes two cells, so that records of a rewound file  *)
(* overlap the old ones in part.                                             *)
EXTENDS HashFS, TLC

CONSTANTS k1, k2, k3, short, long, huge

MCHash == [k \in Keys |-> (k1 :> 0 @@ k2 :> 2 @@ k3 :> 1)[k]]
MCSize == [v \in Vals \cup {NoVal} |-> IF v = long THEN 2 ELSE 1]
AfterFormat == {"ready"} \cup CallPCs
Anywhere == FormatPCs \cup AfterFormat
=============================================================================
