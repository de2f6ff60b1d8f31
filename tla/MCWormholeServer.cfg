CONSTANTS
  c1 = c1
  c2 = c2
  Null = Null
  Clients <- MCOneClient
  Watched <- MCNone
  Ids <- MCIds
  MaxPtys = 3
  MaxSessions = 2
  MaxSockets = 2
  MaxOps = 1
  MaxChannels = 1
  Outcomes = {"socket", "refused", "error"}
SPECIFICATION Spec
INVARIANTS
  TypeOK
  BridgesConsistent
PROPERTY ActiveTabSurvives
