---------------------------- MODULE PointSearches ----------------------------
(***************************************************************************)
(* The three indexes of points that the labs compare with scans: the tree  *)
(* and the geohash cells of lab-2-geo and the hashed cloud of              *)
(* lab-1-3hashAlgos.  They do not interact: a behaviour is one of one      *)
(* index, the others stay as they began.                                   *)
(***************************************************************************)
EXTENDS KDTree, GeoIndex, LSH3D

VARIABLE index   \* "tree", "geohash" or "cloud"

pointVars == <<index, vars, geoVars, lshVars>>

PointInit ==
  /\ index \in {"tree", "geohash", "cloud"}
  /\ Init /\ GeoInit /\ LshInit

PointNext ==
  /\ UNCHANGED index
  /\ \/ index = "tree" /\ Next /\ UNCHANGED <<geoVars, lshVars>>
     \/ index = "geohash" /\ GeoNext /\ UNCHANGED <<vars, lshVars>>
     \/ index = "cloud" /\ LshNext /\ UNCHANGED <<vars, geoVars>>

PointSpec == PointInit /\ [][PointNext]_pointVars
=============================================================================
