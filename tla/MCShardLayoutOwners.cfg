SPECIFICATION Spec
CONSTANTS
  Boundaries = {"World", "North", "South", "NW", "NE", "SW", "SE"}
  Places = {"nw", "ne", "sw", "se"}
  Root = "World"
  Smallest = {"NW", "NE", "SW", "SE"}
  Inside <- InsideDef
  Near <- NearDef
  Reach <- ReachDef
  Starts = {"nw", "ne", "sw", "se"}
  Capacity = 1
  Entities = {"ann", "bob"}
  NoShard = NoShard
  Unlisted = Unlisted
  TimedOut = TimedOut
  Nowhere = Nowhere
  MaxArrivals = 2
  MaxMoves = 1
  MaxStarts = 2
INVARIANT OwnersAreKeptAlways
