SPECIFICATION Spec
CONSTANTS
  Outgoing = {o1}
  Incoming = {i1}
  Streams = {1, 2}
  Reliable <- MCReliable
  MaxCommands = 2
INVARIANT AnswersAreCarried
CHECK_DEADLOCK FALSE
