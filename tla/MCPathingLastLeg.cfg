SPECIFICATION PathingSpec
CONSTANTS
  Width = 5
  Height = 3
  TileSize = 32
  Padding = 10
  Maps <- MCMaps
  Spots <- MCSpots
  NoSearch = NoSearch
CHECK_DEADLOCK FALSE
INVARIANT PathIsClear
