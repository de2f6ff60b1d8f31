CONSTANTS
  c1 = c1
  c2 = c2
  Null = Null
  Clients <- MCTwoClients
  Watched <- MCOneClient
  Ids <- MCIds
  MaxPtys = 2
  MaxSessions = 1
  MaxSockets = 1
  MaxOps = 2
  MaxChannels = 2
  Outcomes = {"socket", "refused"}
SPECIFICATION Spec
INVARIANTS
  DurableLayout
  LazyReconnectExclusive
  ViewsCurrent
PROPERTY ChannelStable
