SPECIFICATION FairSpec
CONSTANTS
  Clients = {"left", "right"}
  Names = {"ann"}
  Passwords <- MCPasswords
  Trim <- MCTrim
  Places = {"spawn", "field"}
  Origin = "spawn"
  None = None
  MaxConns = 2
  MaxRequests = 2
  MaxMoves = 2
  MaxRestarts = 1
CHECK_DEADLOCK FALSE
INVARIANTS
  OnePassword
PROPERTIES
  ResumesWhereLeft
  LeavesConnecting
