SPECIFICATION Spec
CONSTANTS
  Clients <- MCClients
  Conns <- MCConns
  Topics <- MCTopics
  DisconnectTopic <- MCDisconnectTopic
  Sends <- MCSends
  MaxSent = 3
  NoConn = NoConn
CHECK_DEADLOCK FALSE
INVARIANT SweptForGood
