CONSTANTS
  c1 = c1
  c2 = c2
  Null = Null
  Clients <- MCOneClient
  Watched <- MCOneClient
  Ids <- MCIds
  MaxPtys = 2
  MaxSessions = 1
  MaxSockets = 1
  MaxOps = 2
  MaxChannels = 1
  Outcomes = {"socket", "refused"}
SPECIFICATION FairSpec
PROPERTIES
  ConnectAnswered
  ReconnectSettles
