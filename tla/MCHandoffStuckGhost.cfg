SPECIFICATION FairSpec
CONSTANTS
  Shards <- MCShards
  Positions <- MCPositions
  Origin = "home"
  ShardAt <- MCShardAt
  Near <- MCNear
  Keep <- MCKeep
  Reach <- MCReach
  Nowhere = Nowhere
  NoShard = NoShard
  MaxKills = 0
  MaxMoves = 2
  MaxQueue = 1
  MaxCommands = 2
PROPERTY GhostsFollowMargin
