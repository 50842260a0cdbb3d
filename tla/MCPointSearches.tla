--------------------------- MODULE MCPointSearches ---------------------------
(* The tree is that of MCKDTree.  Geohashes have one letter: 4 rows of 8   *)
(* cells, 45 degrees each way.  Searches start beside the date line, near  *)
(* a pole, at a corner of four cells and in the middle of one; the radii   *)
(* stay in one cell, reach into the next ones, and around the world.  The  *)
(* cloud has four points and three tables, which together leave one pair   *)
(* undetected.                                                             *)
EXTENDS MCKDTree, PointSearches

Place2(lat, lng) == [lat |-> 2 * lat, lng |-> 2 * lng]    \* in half degrees

MCLocated == <<Place2(12, -178), Place2(86, -172), Place2(1, 1),
               Place2(-44, -44), Place2(20, 140), Place2(-3, 90)>>
MCLocatedSet == ToSet(MCLocated)

MCCenters == {Place2(10, 178), Place2(80, 10), Place2(-1, -1), Place2(50, -100)}
MCGeoRadii == {315000, 5000000, 15000000}
MCGeoKs == {-1, 1, 2, 4}

(* 2 R arcsin(sqrt(a)) in whole metres: from a place asked about to the    *)
(* points, and to the centres of the cells, by rows from the south and     *)
(* columns from the west; and between the corners that cellDiag takes.     *)
Haversine ==
  Place2(10, 178) :>
    [diag |-> 6919551,
     points |-> <<489958, 8457666, 18747676, 14491111, 4219001, 9846760>>,
     centers |->
       <<<<8838239, 10188807, 12060690, 13442665, 13368187, 11898129, 10033949, 8772947>>,
         <<4492944, 8383358, 12936854, 17427972, 17060442, 12526008, 7993727, 4248510>>,
         <<2954645, 7489079, 12021360, 15766577, 15522143, 11631729, 7078233, 2587115>>,
         <<6646900, 8116958, 9981137, 11242140, 11176848, 9826280, 7954396, 6572422>>>>] @@
  Place2(80, 10) :>
    [diag |-> 4688976,
     points |-> <<9774616, 1556535, 8798270, 14192803, 8516295, 10144075>>,
     centers |->
       <<<<18579521, 17902969, 17075947, 16526596, 16419973, 16784122, 17518986, 18346257>>,
         <<13592693, 13074888, 12232297, 11561925, 11422307, 11886528, 12710130, 13433326>>,
         <<8592780, 8128559, 7304957, 6581760, 6422394, 6940198, 7782790, 8453162>>,
         <<3595114, 3230965, 2496101, 1668830, 1435566, 2112118, 2939140, 3488491>>>>] @@
  Place2(-1, -1) :>
    [diag |-> 6982339,
     points |-> <<18747971, 10558027, 314499, 6387395, 15278551, 10112749>>,
     centers |->
       <<<<12182330, 10800284, 8927621, 7578297, 7613340, 9007292, 10879571, 12216919>>,
         <<16366466, 12162777, 7558423, 3334367, 3488439, 7761868, 12365126, 16514202>>,
         <<16526648, 12253219, 7649960, 3500885, 3648621, 7852310, 12456664, 16680720>>,
         <<12401747, 11007795, 9135516, 7798167, 7832756, 9214803, 11087465, 12436790>>>>] @@
  Place2(50, -100) :>
    [diag |-> 5673702,
     points |-> <<8133076, 4327601, 10705042, 11773018, 10262507, 14704492>>,
     centers |->
       <<<<13914850, 13107356, 13345391, 14553320, 16360061, 17949214, 17372345, 15517263>>,
         <<9842342, 8155453, 8674567, 11061121, 14205273, 16768351, 15852128, 12780872>>,
         <<5809813, 3246736, 4162958, 7234215, 10172745, 11859633, 11340520, 8953966>>,
         <<3655026, 2065873, 2642742, 4497824, 6100237, 6907731, 6669696, 5461767>>>>]

(* A centre lies at an odd number of half degrees, a point does not. *)
MCGeoMetres(q, p) ==
  IF p.lat % 2 = 0
  THEN Haversine[q].points[CHOOSE n \in 1..6 : MCLocated[n] = p]
  ELSE Haversine[q].centers[(p.lat + 225) \div 90][(p.lng + 405) \div 90]

MCCellDiag(q) == Haversine[q].diag

MCCloud == 1..4
MCKeyOf == <<<<1, 1, 2, 2>>, <<7, 8, 7, 8>>, <<3, 3, 3, 4>>>>
MCDist == [pair \in SUBSET MCCloud |-> IF pair \in {{1, 2}, {2, 4}} THEN 1 ELSE 5]
MCMaxDists == {1, 5}
=============================================================================
