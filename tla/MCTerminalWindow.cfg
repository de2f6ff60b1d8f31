CONSTANTS
  Null = Null
  Ids <- MCIds
  MaxChannels = 2
  MaxPtys = 2
  MaxBuffer = 1
  MaxOutput = 3
  MaxWire = 2
SPECIFICATION Spec
INVARIANTS
  ClientSound
  OwnOutputWithoutGaps
  HistoryReplayed
  TerminalsMatch
