SPECIFICATION Spec
CONSTANTS
  Shards <- MCShards
  Positions <- MCPositions
  Origin = "home"
  ShardAt <- MCShardAt
  Near <- MCNear
  Keep <- MCKeep
  Reach <- MCReach
  Nowhere = Nowhere
  NoShard = NoShard
  MaxKills = 1
  MaxMoves = 4
  MaxQueue = 1
  MaxCommands = 2
INVARIANT AuthorityKeptOnDeparture
