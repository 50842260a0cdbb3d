------------------------------ MODULE MCKDTree ------------------------------
(* Points on the equator and one degree north of it, beside the date line, *)
(* so that the great circle is shorter than the code's reckoning now and   *)
(* then: by an eighth of a kilometre in a degree of latitude, and by       *)
(* nearly the length of the equator across the date line.                  *)
EXTENDS KDTree

At(lat, lng) == [lat |-> lat, lng |-> lng]

MCGrid == {At(0, 178), At(0, 179), At(0, -179), At(1, 178), At(1, 179)}
MCQueries == {At(0, 179), At(0, -179), At(1, 178)}

(* Nothing but the place itself; a degree on the great circle and not in   *)
(* the code's reckoning; a diagonal; everything.                           *)
MCRadii == {0, 111250, 200000, 400000}
MCKs == {-1, 1, 2, 4}

MCPointLists == {
  <<>>,
  <<At(0, 179), At(0, 178), At(1, 178), At(0, 179)>>,
  <<At(1, 178), At(0, 178), At(1, 179), At(0, -179), At(0, 179)>> }

(* 2 R arcsin(sqrt(a)) in whole metres, for a difference of longitude of   *)
(* 0, 1, 2 or 3 degrees, the short way round.                              *)
GreatCircle ==
  [lats \in {{0}, {1}, {0, 1}} |->
     CASE lats = {0}    -> <<0, 111194, 222389, 333584>>
       [] lats = {1}    -> <<0, 111177, 222355, 333533>>
       [] lats = {0, 1} -> <<111194, 157249, 248629, 351613>>]

MCMetres(p, q) ==
  LET d == Abs(p.lng - q.lng)
  IN  GreatCircle[{p.lat, q.lat}][1 + IF d > 180 THEN 360 - d ELSE d]

MCLatDegree == 111320
(* 111320 times cosApprox of the latitude. *)
MCLngDegree == [lat \in {0, 1} |-> IF lat = 0 THEN 111320 ELSE 111303]
=============================================================================
