SPECIFICATION FairSpec
CONSTANTS
  Clients <- MCClients
  Conns <- MCConns
  Topics <- MCTopics
  DisconnectTopic <- MCDisconnectTopic
  Sends <- MCSends
  MaxSent = 3
  NoConn = NoConn
CHECK_DEADLOCK FALSE
INVARIANTS
  LiveSubscribers
  LatestKeepsId
PROPERTY EndIsAnnounced
