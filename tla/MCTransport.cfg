SPECIFICATION FairSpec
CONSTANTS
  Outgoing = {o1}
  Incoming = {i1}
  Streams = {1, 2}
  Reliable <- MCReliable
  MaxCommands = 3
INVARIANT AnnouncedIsCarried
PROPERTIES BecomesReachable EndIsReported
CHECK_DEADLOCK FALSE
