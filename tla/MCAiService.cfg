SPECIFICATION FairSpec
CONSTANTS
  Npcs = {n1, n2}
  Players = {p1}
  Nowhere = Nowhere
  Size = 2
  Origin = 1
  Layouts <- MCLayouts
  Share = 20
  Padding = 1
  MaxAi = 1
  Stray = 1
  CastRange = 1
  ChaseRange = 2
  Sight = 1
  MaxHealth = 4
  Damage = 3
  Healing = 3
  MaxMana = 1
  FireballCost = 1
  HealCost = 1
PROPERTIES KilledIsReplaced RecoversAlone
CHECK_DEADLOCK FALSE
