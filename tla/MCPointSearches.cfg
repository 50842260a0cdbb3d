SPECIFICATION PointSpec
CONSTANTS
  Grid <- MCGrid
  Queries <- MCQueries
  Radii <- MCRadii
  Ks <- MCKs
  PointLists <- MCPointLists
  MaxPoints = 5
  Metres <- MCMetres
  LatDegree <- MCLatDegree
  LngDegree <- MCLngDegree
  Precision = 1
  Degree = 2
  Located <- MCLocatedSet
  Centers <- MCCenters
  GeoRadii <- MCGeoRadii
  GeoKs <- MCGeoKs
  MaxLocated = 3
  GeoMetres <- MCGeoMetres
  CellDiag <- MCCellDiag
  Cloud <- MCCloud
  KeyOf <- MCKeyOf
  Dist <- MCDist
  MaxDists <- MCMaxDists
INVARIANTS
  SplitByPlanes
  NearbyIsScan
  NearestIsScan
  NearbyCellsCover
  NearestByRings
  EachPairOnce
