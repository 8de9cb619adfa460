SPECIFICATION FairSpec
CONSTANTS
  player = player
  npc = npc
  Entities <- MCEntities
  Unknown = Unknown
  MaxJoins = 2
  MaxCasts = 3
  MaxKills = 2
  MaxRestarts = 1
CHECK_DEADLOCK FALSE
INVARIANTS
  TypeOK
  NobodyStaysDead
  LevelMatchesKills
  ShownIsCurrent
PROPERTY ManaComesBack
