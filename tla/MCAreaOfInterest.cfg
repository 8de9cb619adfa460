SPECIFICATION FairSpec
CONSTANTS
  Entities <- MCEntities
  Places <- MCPlaces
  Near <- MCNear
  Topics <- MCTopics
  Nowhere = Nowhere
  MaxJoins = 3
  MaxMoves = 2
INVARIANTS
  InterestIsSubscribed
  EntriesHaveClients
PROPERTY InterestSettles
